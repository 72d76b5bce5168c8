# Verification of the nn-imx runtime

nn-imx is the neural-network stack of VeriSilicon's NPUs: `nn_runtime` (the
C++ runtime *nnrt* under the Android NN API) on top of `ovxlib` (a C library
that builds and runs graphs on the OpenVX driver). This directory holds TLA+
models of its control and shared state, the TLC runs that check them and
machine-checked proofs. Paths below are relative to `src/`; a name such as
`startCompute` is the same in the code and in the model.

## 1. The system

### 1.1 How a computation goes

An application builds a **Model** through the **NNAPI delegate**, creates a
**Compilation** of it and **Executions** of the compilation. It binds buffers
to an execution (`setInput`, `setOutput`; the **memory pool** keeps the
references) and calls `compute` or `startCompute`. Both ask the compilation for
a **prepared model**. The first one to ask converts the model in place (**NNAPI
interpreter**, **model transformations**) and has the **ovxlib delegate** build
an **ovxlib graph**, whose nodes are **sorted** and handed to the driver.
`startCompute` then wraps execution, event and prepared model in a **GraphTask**,
which it gives to the process-wide **task queue**. The queue's **work thread**
copies the inputs into the graph, runs it, copies the outputs out and notifies
the **event**, on which the application waits. `compute` does the same in the
caller's thread. The **Android HAL** and the **Arm NN backend** are two more
front ends.

### 1.2 Inventory

| component | state | operations | what is hard | what makes it correct |
|---|---|---|---|---|
| Task queue (`nnrt/execution_task.*`) | `queue_`, `work_thread_awaked_`, `queue_mutex_`, detached work threads | enqueue, dequeue, wakeWorkThread, exitWorkThread, work_process | a work thread that ends while a task is enqueued; two work threads | every task is executed, one at a time, in order |
| Execution, event, graph task (`nnrt/execution.*`, `event.*`) | `inputs_`, `outputs_`, `event_`, `mutex_`; `state_` | setInput/Output (FromMemory), startCompute, compute, fillInput, execute, fillOutput, notify, wait | calls that race with the work thread; error paths; several executions on one graph; freeing a running execution | each evaluation gets its own result, every wait returns |
| Compilation, prepared model (`nnrt/compilation.*`, `prepared_model.*`) | `prepared_models_`, `cache_mutex_`; `graph_` | prepareModel, cachePreparedModel, prepare, freezeCompile | failures half-way and retries; a cache key that is computed at two times | model converted once, graph built once and from a whole model |
| Memory pool (`nnrt/memory_pool.*`) | three lists of counted blocks; `Model::mem_refs_` | add_reference, del_reference of Mmp, Nml, Sml lists | blocks shared by address; a request that fails; destruction order | counts are the references that exist; small values are stable |
| Model (`nnrt/model.*`) | operands, operations, inputs/outputs, `finalized_`, `compiled_`, `signature_` | addOperand, addOperation, setOperandValue, identifyInputsAndOutputs, finish, updateOperand, freezeCompile | calls after `finish`; shapes written by executions | consistent indices; unchanged after `finish` |
| NNAPI delegate (`nnapi_delegate/NeuralNetworks.cpp`) | the handles | one C function per call | the order of calls of the application | refuses what the order forbids |
| NNAPI interpreter (`nnrt/model_transform/nnapi_interpreter.cpp`) | operands to remove | run, replaceOperation, one conversion per operation type | failure after part of the operations is replaced | all or nothing (not so in the code) |
| Model transformations (`nnrt/model_transform/`, `permute_vector.hpp`) | permute vectors per operand | AlignBroadcastOp, LayoutInference, OptimizePermute, ValidateQuantizedGraph, Fp32ToFp16 | in-place rewriting, algebra of permutations | the function computed does not change |
| ovxlib delegate (`nnrt/ovxlib_delegate.cpp`) | operand to tensor map, removed operands | process, removeOperationWithNullInput, addTensors, addNodes | null inputs that make other operations vanish | every tensor a node uses exists |
| Graph sorting (`ovxlib/src/vsi_nn_graph.c`) | marked tensors, array of nodes left, result | vsi_nn_SortGraphNode | swap removal under a running index; cycles; end of the rounds | an execution order, and none is missed |
| ovxlib graph (`vsi_nn_graph.c`, `vsi_nn_node.c`, `vsi_nn_tensor.c`) | node and tensor maps, sizes, inputs, outputs, handles | create, add/remove, setup, verify, run, release | partial failure of setup; tensors created on demand; complete signal | no use of what was removed; release frees everything once |
| Internal nodes (`vsi_nn_internal_node.c`) | linked lists of nodes and tensors of a node | new/add/setup/deinit | order of initialisation and release | same as the graph |
| Containers (`ovxlib/src/utils/vsi_nn_{map,binary_tree,hashmap,link_list}.c`) | nodes and sizes | add, remove, get, clear | deletion in the binary tree; bookkeeping on clear | behave as a finite map or a sequence |
| RNN support (`vsi_nn_rnn*.c`) | connections of outputs to inputs, saved states | InitRnn, RunGraph hooks, SaveInternalInput | order of feed-back and run | state of run n is input of run n+1 |
| Android HAL (`nn_runtime/android_hal/`) | native model, compilation, execution; buffers | prepareModel, execute, burst execution | what a refused or failed request leaves for the next | each request sees its own buffers |
| Arm NN backend, operations and kernels, utilities, dumping | - | - | numerical, or another framework's control | not modelled |

`PROJECT.json` lists the same components with their status, and under "hazards"
every place in the code found hard to test, with the property that watches it
or the reason why none does.

## 2. The modules

| module | models | role |
|---|---|---|
| `SerialExecutor` | what the task queue promises | abstract specification |
| `TaskQueue` | `execution_task.cpp/.hpp`, the queue and its work threads | implements `SerialExecutor` |
| `Execution` | `execution.cpp`, `event.cpp`, `GraphTask`, execute of `prepared_model.cpp` | composed with `SerialExecutor` through `INSTANCE` |
| `Compilation` | `compilation.cpp`, `PreparedModel::prepare`, and what of `model.cpp` it changes | its threads are the executions of one model |
| `MemoryPool` | `memory_pool.cpp` and how `model.cpp` uses it | |
| `LayoutInference` | `layout_inference.cpp`, `permute_vector.hpp`, handlers in `nnrt/op/` | one of the transformations `Compilation` applies |
| `GraphSort` | `vsi_nn_SortGraphNode` | |
| `GraphLife` | adding, removing, `vsi_nn_SetupGraph`, release of `vsi_nn_graph.c` | sorts as `GraphSort` may, which is proved |
| `RnnFeedback` | `vsi_nn_rnn.c`, `vsi_nn_RunGraph` | running the graph that `GraphLife` sets up |
| `AbstractMap` | what a map promises | abstract specification |
| `Containers` | `vsi_nn_map.c`, `vsi_nn_hashmap.c` over binary tree and linked list | implements `AbstractMap` |
| `HalPreparedModel` | requests on `VsiPreparedModel` and `BurstExecutorWithCache` | |
| `...Proofs` | | proofs about `TaskQueue`, `Execution`, `Compilation`, `LayoutInference`, `MemoryPool`, `HalPreparedModel`; `GraphProofs` about `GraphSort` and `GraphLife`, `OvxlibProofs` about `RnnFeedback` and `Containers` |
| `MC...` | | small instances for TLC: bounds, symmetry sets, sets of graphs |

Definitions named after a method model that method; the `map` of
`PROJECT.json` gives the lines. Operators that begin with a comment "Mutant"
are bugs put in on purpose, one per property; each has been run in place of the
definition before which it stands and TLC then finds the property violated. They
are used by no specification.

### TaskQueue
One step is one access to shared state. `Lock` and `Unlock` of `queue_mutex_`
are steps of their own, because the question is what happens between them. A
thread's control is `pc`; the local `TaskPtr` is `task`. `Worker` is a set of
*identities* of work threads. A thread that leaves `work_process` is "ended" and
its identity may be used by the next `std::thread`, so any number of work
threads can exist one after the other, and two at once while one is leaving.
`executed` is a history variable. Tasks are executed in one step; what they do is
the subject of `Execution`.

### Execution
A `Run` is one evaluation: its `GraphTask`, and its `Event` when started
asynchronously. `mutex_` is held from `startCompute` until the task is enqueued,
and through the whole of `compute`, as in the code; the short calls take it for
one step. An execution has one input and one output. An input is data, `UNSPECIFIED`,
`MISFIT` (not of the tensor's length) or `SKIPPED` (omitted, or its memory reference is gone);
an output is a `BUFFER` or `UNFIT`. The network is the identity on `Data`, so
that a value tells where it came from; `graph_in` and `graph_out` are the tensors
of the graph that all executions of the compilation share. `execute` may fail.

The application may leave the input out. `setInput` then makes the operand of the shared Model null
(`is_null`), which every later `setInput` of any execution undoes. A graph that is built meanwhile has no
tensor for the input (`has_input`) and lacks the operations that would have had no input at all, which are
gone from the Model too, also when the build then fails (`cut`). The graph is found again by a signature that does
not tell this from the full one, and `PreparedModel::setInput` answers NO_ERROR for an input
without a tensor before it looks at the buffer (`prepared_model.cpp:122-125`): `fillInput` then writes nothing
and the run goes on. What such a graph computes is `PARTIAL`.
The return codes are kept in `ret` and `WaitCode`. The queue appears as
`SerialExecutor`, which `TaskQueue` is shown to implement.

`Event::state_` has a value CANCELED, which nothing in the code sets; it is left
out. The lock that `GraphTask` takes on the event during `fillInput` and
`fillOutput` delays `wait` and `isRunning` but is not needed for any guard, so
it is left out as well. `isRunning` reads `state_` without that lock; the
model lets it be read at any moment between two steps.

### Compilation
`setInput` of an execution writes the dimensions of the buffer into the operand of
the shared model: `operand`. An execution uses whichever of the model's
compilations it was made from. `prepareModel` takes that compilation's
`cache_mutex_`, computes its key and looks it up, and on a miss goes through the conversion (one step per
operation), the transformations with `freezeCompile`, the build, and
`cachePreparedModel`, which uses the signature stored by `freezeCompile`. Every
one may fail (`MayFail`) and then returns with what it did left in place. How
often each operation was converted is `converted`, saturated at two. The
assertion of `compilation.cpp:104` is an action that stops the program; the
build files of nnrt do not define NDEBUG. The eviction loop of
`cachePreparedModel` does nothing after that assertion. Two history variables
say when a property cannot be expected: `shapes`, the dimensions ever bound, and
`reconverts`, that a conversion has failed half-way or two have overlapped.

### MemoryPool
`mmp`, `nml`, `sml` are the three block lists, `mem_refs_` the references in the
order they were made (`None` for a null pointer), `dropped` how many the
destructor has destroyed. A copy is a record of source address, content, length
and count. Contents of buffers change at any time through `Write`, which is the
application. The model has all references made one after another. In the code,
two executions of one model make them under two different mutexes: a data race
listed as a hazard and not covered.

### LayoutInference
A layout is a permutation of axes. Permute vectors are *shared objects* in the code
(`shared_ptr`, with operands holding the same one) and one of the code's steps resets an object in
place, so the model keeps objects (`origin`, `vec`) apart from the operands that
hold them. `Pop` takes an operand from the queue; `Visit` is `layoutInference` of
one consumer: caching, the readiness test, and, when ready, everything
`handleLayoutInferenceOnInputs` and `...OnOutputs` do, which is `Infer`. Maps and sets
of the code that are iterated in an order of their own are iterated in any order.
The handlers of ten kinds of operations are modelled, the others inherit one of
them or are like one of them; dimensions and values of tensors are left out. A convolution over data that has not
four axes aligns its data alone and leaves a computed kernel as it is (`DataOnly`), a depthwise one aligns all its
computed inputs (`AllToDriver`), a deconvolution falls back to the default handler; a data operand that is the kernel as well gets both permutes (`ToDriver`).
`laid` is a history variable: the layout each operand was given when its operation was inferred. `Preserved` says that
at the end `laid` is what the rewritten model does: starting from the inputs as they are given, every operation with the permutes before and behind
it makes of the layouts it reads those of its outputs (`Agrees`), and finds its data and axis where it needs them (`Satisfied`).
Both look at the rewritten operations, permutes and constants only, not at the vectors the inference goes by; and `OneLayoutThm` proves
that no other layouts agree, so that `laid` is not a second opinion about the result but the layouts the result has.

### GraphSort
The whole function, loop iteration by loop iteration. The inner
loop over the inputs of a node is `Processed`; marking the produced tensors is
part of `Take`. `index` is the `i` of the code after the `i--` and `i++` of a swap. `Graph`
describes a graph by the sets of tensors its nodes read and write, those that are
constant and the inputs. A tensor may have several producers or none, and a node
may read what it writes.

### GraphLife
Calls that build the graph are one step each. `SetupGraph` is a sequence: one step for the
first loops over the nodes, then one per operation computed (`OpCompute`, or
`ComputeFails` anywhere), the complete signal and the identification of inputs and
outputs. A failed setup leaves what it has made, and the application may call it
again, change the graph or release it. `created`, `frees` and `made` count the
tensors and tell which of them the driver has. The array read one past its end
(`vsi_nn_graph.c:682`) yields any id (`beyond`). `graph_inputs` and `graph_outputs` are the arrays for the driver.

The phase `crashed` is a NULL that is dereferenced: a node that was removed; a tensor an operation is
handed for an id that has none, which it may or may not dereference, when it is prepared or computed
(`PrepareCrashes`, `ComputeCrashes`; `vsi_nn_op_relu.c:49` does); the tensor of the graph's only output, or the new one
that cannot be made where the write address is not `aligned`, in the operation of the complete signal (`SignalCrashes`);
and the missing array of outputs. The signal is refused without a crash when its node cannot be made (`SignalRefused`). That
memory runs out is left out: vectors that could not be allocated are dereferenced in many places.

### RnnFeedback
A tensor has memory (`handle`) and contents (`mem`). Contents are the number of the run that computed
them, so that a stale value tells how old it is. The precompiled nodes are given by the list of all their
parameters, in the order in which `_check_swapped_tensors` goes through them (`slots`); each has the memory it was
last set to (`param`), and a tensor may be a parameter several times. As in the code, the first of these clears the tensor's mark,
so that the further ones are passed over. A connection whose buffer could not be made, by a setup that does not
look (`vsi_nn_rnn.c:411`) or by a reset that has released the old one before (`:450-456`), has `NoBuffer`, and every copy from
or to it fails (`FeedLost`, `SaveLost`). A call is a list of phases, `todo`: feed,
check of a precompiled node's parameters, process, save; `vsi_nn_rnn_RunGraph`
feeds and saves around the phases of `vsi_nn_RunGraph`, which feeds and saves as well. Each step may fail and leaves
everything as it is.

### Containers
A node of the tree is known by its place, the turns that lead to it from the root, so a tree is a set of nodes
and freeing a node with one child takes one turn out of the places below it. The loops and recursions of the
code that follow pointers are given by where they end: `_find_loc` at the node with the key, or the empty place
where it belongs, with a turn at every node before it as the comparison says; `_min_node` at the node without a left
child that a walk to the left comes to. That these walks end is part of `MapTypeOK`, so that no operation is left out
because its search would find nothing. The list has items at
addresses with links both ways. A map's tree holds keys; a hash map's holds
*addresses of items*, and a comparison looks at what is there now, so that
freeing an item that a node still points to shows. `clear` takes a step per item.
Allocations succeed: one that fails leaves an item without a tree node, after a warning only (`vsi_nn_hashmap.c:238-241`, and the map
likewise), or NULL that is dereferenced.
The implementation relation to `AbstractMap` abstracts the pair to the dictionary
its tree answers from.

### HalPreparedModel
The service runs one binder thread and each burst executor has a prepared model of
its own, so requests come one after another. A request is begun (or refused), binds its
arguments one step each, and is computed. A refusal half-way leaves
the native execution and its bindings; a binding is named by the request whose
buffer it is. Whether a pool could be mapped, and whether an argument has a value,
is chosen with the request; an output may be too small in a pool of any type, mapped or not.

## 3. The runs

| run | bounds | distinct states | checks |
|---|---|---|---|
| `task_queue` | 2 clients, 2 work-thread identities, 3 tasks | 2,104 | `OneWorkThread`, `NoLostWakeup`, `ImplementsExecutor` |
| `execution_async` | 2 executions, 2 threads, 2 evaluations, 2 data, no `compute`; the input may be left out | 1,670,720 | `TypeOK`, `OwnResult`, `OneVerdict` |
| `execution_single` | 1 execution, 2 threads, 2 evaluations, `compute` and `startCompute`; the input may be left out | 192,300 | `OneEvaluationPerExecution`, `BuffersStable`, `SuccessMeansResult`, `WaitersReturn` |
| `execution_shared_graph` | 2 executions, one of which uses `compute` | - | `OwnResult`, violated |
| `compilation` | 3 threads, 2 compilations, 2 shapes, 2 operations, every step may fail | 31,819 | `ConvertedOnce`, `BuiltFromWholeModel`, `BuiltOnce`, `NoAbort` |
| `memory_pool` | 2 operands, 2 buffers, 1 memory of 2 units, offsets 0 to 3, 4 references | 547,500 | `TypeOK`, `CountsMatchRefs`, `SmallValuesStable` |
| `layout_inference` | 3,390 graphs of 2 to 4 operations of ten kinds, 2 inputs, 1 constant | 92,967 | `TypeOK`, `InferredOnce`, `Preserved`, `Terminates` |
| `graph_sort` | all graphs of 4 nodes with a tensor each and at most 2 inputs per node; all with 2 shared tensors | 589,894 | `ResultIsOrder`, `GivesUpOnlyOnCycles`, `Terminates` |
| `containers` | 4 keys, 2 values, map and hash map, 1 clear | 12,806 | `MapTypeOK`, `KeysAlive`, `SameKeys`, `ImplementsMap` |
| `rnn_feedback` | a swapped connection, a copied one with 2 inputs; 3 runs, 2 failures, 2 setups; no, one, a part of one, and two precompiled nodes | 209,527 | `TypeOK`, `ParamsCurrent`, `StateCarried`, `CopiedStateKept` |
| `graph_life` | 3 ids, 4 tensors, 2 nodes, 2 setups, with and without complete signal | 5,231,522 | `TypeOK`, `ReleasedOnce`, `InputsReady`, `CrashesExplained`, `OutputsIdentified` |
| `hal` | 3 requests, 2 inputs, 2 pools, prepared model and burst | 183,785 | `TypeOK`, `OwnBuffers`, `EveryRequestAnswered` |

**Why these bounds are enough.** *task_queue*: the flag and the queue's emptiness
are all a thread can see, so two clients and a work thread that may be ending,
with its successor, show every interleaving of `wakeWorkThread` and
`exitWorkThread`; the third task lets one be queued while another runs. The
proofs remove the bound. *execution*: interference needs two evaluations, and two
threads are what it takes to call one execution while another call is in
progress; with two contents a result can be told from another's. Evaluations are
never reused, so two also bound how often `startCompute` succeeds: a third would find
the same graph contents (old, or another's) as the second. Most of it is proved
without bounds. *compilation*: two operations let a conversion stop half-way; three
threads and two compilations give one that prepares, one that waits for the mutex or
prepares under the other one, and one that binds. Proved without bounds.
*memory_pool*: three references are enough for two to share a block and a third not to,
and a fourth for two shared blocks at once; offsets lie inside, on the last unit, at the
end and past it. *layout_inference*: an error in the algebra needs a permute that is not its own inverse
(the code's NHWC to NCHW is one of order three), an axis that it moves, and two
paths that meet; chains, forks and joins of three operations give these, and the
diamonds of four reduce one operand along all pairs of axes and join the results. Convolutions have data of four axes and of three, and for a kernel the constant, a computed operand
or their own data; depthwise ones the same over four axes, deconvolutions the constant. The first operation is always one that changes the layout,
splits or drops an axis: the other kinds would pass the input on. Operations are inferred one at a time
and see of the others only the vectors of their outputs, so longer chains repeat the same cases.
*graph_sort*: with four nodes the node that is swapped in can come before, at or after the scan's next
position, and a round can move some and leave some; the proofs remove the bound.
*containers*: deleting a node with two children, whose replacement itself has a
child, needs four keys; in a list of four an item is first, last and in the middle with neighbours on both sides. One clear
suffices because a cleared container differs from a new one in `size` only; the proofs remove these bounds. *rnn_feedback*: the third run
tells a swap that is undone from one that is repeated; two failures hit the same call and the one after it. The two
precompiled nodes share the input that is swapped, and one reads what the other computes, so that a second parameter and a tensor that is read and written occur.
*graph_life*: two nodes that depend on each other, in both orders and the second possibly
removed; the second setup starts from whatever the first has left; four tensors are three with an id and a signal.
*hal*: the third request tells what the first left from what the second left.

**Deadlock** is not checked: in every module the application may stop calling,
and the bounds of the models (evaluations, references, tasks, setups) are used up in
the end; `GraphSort` and `LayoutInference` are functions that return. That a thread
which is inside a call returns is what the liveness properties say.

**Fairness.** Each thread of the program that can take a step eventually does
(`WF` on the steps of each client inside a call and of each work thread): that
is what the operating system's scheduler guarantees. No fairness is put on calls of
the application. In `TaskQueue` weak fairness on a lock is enough for these
bounds because a thread that loses a lock finds it free again after finitely
many critical sections: a client enqueues finitely many tasks. `GraphSort` and `LayoutInference` are
sequential functions, which go on (`WF` on `Next`). In `HalPreparedModel` the binder thread goes on
with a request it has begun (`WF` on `Step`), and no client has to send one. The other modules have safety
properties only and no fairness.

### The run that shows a disagreement

`execution_shared_graph` checks what `NeuralNetworks.h:5070` says, that executions
can be evaluated concurrently, by `compute` or `startCompute`. `compute()` of one execution overwrites the
input of another in the graph they share, while the work thread is between
`fillInput` and `fillOutput`. The other side of that line holds: results are each
execution's own when nothing calls `compute()` (`execution_async`, and a theorem).

### What the properties leave out, because the code does otherwise

Met while modelling, visible in the lines, and written into the properties as the
condition under which they hold:

* *Two shapes* (`NoAbort`). `compilation.cpp:102` announces an assertion for inputs
  of another shape once a model is prepared. It also fails with one shape prepared: a build that fails for shape 1 after `freezeCompile`, retried
  with shape 2, is stored under the signature of shape 1; the next call with shape 2
  does not find it and asserts.
* *Half-converted model* (`ConvertedOnce`). A conversion that fails half-way is run again from the
  first operation. Two compilations, each with its own mutex (`prepared_model.cpp:54`), both find
  the model not converted and convert it twice, though
  `NeuralNetworks.h:4976` allows several threads to use a finished model.
* *Retry after a rejected model*. `freezeCompile` is called whatever the
  transformations returned (`prepared_model.cpp:77`): the retry builds a model that
  validation has rejected.
* *Optional inputs* (`OwnResult`, `SuccessMeansResult`). `NeuralNetworks.h:6112` lets
  optional inputs be omitted. The signature (`model.cpp:398`) is made of dimensions and does not tell present from
  omitted, so that a graph built for one is returned for the other. A graph built while the input was left out
  has no tensor for it; a later evaluation that binds one writes nothing (`prepared_model.cpp:122-125`) and reports success
  with the result of the network without that input. The same may happen after a build was tried and failed meanwhile, since
  `removeOperationWithNullInput` (`ovxlib_delegate.cpp:37-65`) has taken operations from the Model. Both properties
  name this answer (`PARTIAL`) and allow it only when such a build, or try, has been (`cut`); before, and in all other cases, the result is the one of the bound input.
* *Prepared for the wrong shape*. `setInput` writes the shape into the shared Model, so that of two executions with different
  shapes one may prepare for the other's. The code does this, and no property forbids it.
* *Small values are immediately copied* (`NeuralNetworks.h:5799`), but not from an
  address that is known (`memory_pool.cpp:247`): the earlier copy is used instead.
  `align_broadcast_op.cpp:57` passes a loop-local vector, whose address is likely to
  repeat. The stale value of a reused address is not caught by a property; `SmallValuesStable` is about values once set.
* *Mapped memories*. A request past the end erases the count of the references that exist
  (`memory_pool.cpp:139`): `CountsMatchRefs` says "at most" for them.
* *Layouts* (`Preserved`). A constant read by two operations is transposed for both; a computed kernel gets
  the convolution's permute, or none if the data has not four axes (`convolution.cpp:42-52`), whatever was applied to it before, and if data and kernel are one operand it is permuted twice; an output that is
  read as well resets a vector that other operands share. An operation that reads
  constants only is never reached.
* *RNN states* (`StateCarried`, `CopiedStateKept`, `ParamsCurrent`). `vsi_nn_rnn_RunGraph` feeds twice, which
  swaps back; after a failed call the swap is not undone. For copied connections neither disturbs any call but the first, which `CopiedStateKept` shows: a
  first call of `vsi_nn_rnn_RunGraph` feeds the fresh buffer over what the application wrote into the inputs.
  A tensor that is a parameter of precompiled nodes twice is set for the first one only (`vsi_nn_graph.c:102,114,130`); the other
  computes on the memory it had before. A connection without a buffer makes every later call fail, at its feed or its save.
* *Graphs* (`ReleasedOnce`, `CrashesExplained`). A tensor added with an id of its own shifts what
  AUTO gives next, and ids past the count are not released. A signal made by a setup that
  is repeated is lost. Removing a node does not lower `node_num`, and the next setup dereferences
  it. Ids without a tensor, removed or not given yet, reach the operations as NULL, and an input id past the
  count the array of the sort. A complete signal dereferences the missing tensor of the output (`vsi_nn_graph.c:1668-1675`), its own
  when the write address is not aligned, and the missing array of a graph that has no output; with several outputs the setup goes on without a signal and dereferences that.
  `CrashesExplained` says that there are no other causes.
* *Hash map* (`SameKeys`). Clearing leaves `size` as it was.
* *HAL* (`OwnBuffers`). Arguments whose pool was not mapped are passed over without a
  binding, so that they keep the binding of a request that was refused half-way: `OwnBuffers` allows this, and nothing of a
  request that was computed. A burst whose
  model failed to initialise keeps the half-built model for its next request.

Binding a buffer of a running execution returns INCOMPLETE and not the OP_FAILED of
`execution.hpp:61`; `wait` knows no ERROR_DELETED. In `GraphSort`, `AllocFails` returns an array nothing
was written to (`Garbage`) when only the second of two allocations fails; the
properties speak of sorts that ran.

## 4. What is proved

TLAPS checks these for every value of the constants.

**`TaskQueueProofs`**, from `QueueAssumption` (clients, work threads and "None" are
different things).
* `Invariance`: `Spec => []IInv`. `OneWorkThread` is not inductive: that no second
  worker is spawned depends on the flag, so `FlagInv` says that the flag is set
  exactly when a work thread serves the queue; that nothing changes between
  testing the queue and clearing the flag depends on the mutex, so `MutexInv` and
  `SeenInv`; that a queued task without a work thread is noticed depends on the
  pushing client being just about to wake one (`WakeInv`); `TaskInv` and
  `FreshInv` follow the task through the threads' locals. There is a lemma per
  conjunct with a step per action.
* `OneWorkThreadThm`, `NoLostWakeupThm`: the two safety properties.
* `RefinesExecutor`: the initial states are those of `SerialExecutor` and every
  step is one of its steps or changes nothing it shows, under the mapping
  that counts a task as submitted when it is pushed and as running while a work
  thread holds it. The mapping chooses *the* thread that holds a task, which
  `OneWorkThread` makes unique.

**`ExecutionProofs`**, from `ExecutionAssumption`, for any executions, threads and evaluations.
* `Invariance`: besides the types, the inductive invariant says who is inside a call, on which evaluation,
  and holds which mutex (`Calls`); what the work thread has (`Worker`); that an evaluation is queued
  once (`Once`); and which of three things protects an evaluation where (`Protected`): the mutex
  while a call prepares it, the mutex and the event while it is handed over, the event alone while it is queued or runs.
  The steps are first reduced to what they do to the variables that control this (`Effects`).
* `OneEvaluationPerExecutionThm`, `BuffersStableThm`: two evaluations of one execution
  would both be running between publication of their event and its notification; but the second has
  tested `isRunning` under the mutex.
* `OneVerdictThm`: a notification finds the event still in process, because a task
  is executed once.
* `OwnResultThm`: if one thread at a time can use the graph, what `fillInput` wrote is still there at
  `execute` and at `fillOutput` (`Flow`, `Alone`), and what is bound does not change meanwhile (`Bound`). The graph stays as it was built (`Prepared`), with or without a tensor
  for the input; without it, the Model was cut and stays so (`AnswersGrow`), and the answer is the one the property excepts. The hypothesis `OneUser` names the two cases in which it is so: no
  execution uses `compute` (`SyncExec` is empty: then only the work thread does), or there is one
  execution (then its evaluations exclude each other). `execution_async` and `execution_single` are instances of
  the two, and `execution_shared_graph` shows that the theorem fails without it.
* `SuccessMeansResultThm`, with the same exception: an event that may be waited for has been in process and is never idle again
  (`Waited`), so that `wait` returns NO_ERROR for a completed one only; and a `compute` that is done has just read its result.

**`CompilationProofs`**, from `CompilationAssumption`, for any threads, compilations, shapes and operations.
* `Invariance`. Its parts besides the types: a thread inside prepare holds its compilation's mutex (`Locks`);
  a compilation that has built a graph has it in its cache, or a thread on the way there
  (`Builds`); a model marked compiled, and one about to be, is wholly converted (`Whole`);
  while no conversion has failed or overlapped, one thread converts, the operations
  before its position are converted once and those after it not at all (`Progress`); and every key, in the
  cache or on its way to it, is a shape the operand has had (`Keys`).
* `TypeOKThm` (among the types: no thread converts past the last operation),
  `ConvertedOnceThm`, `BuiltFromWholeModelThm`, `BuiltOnceThm`, `NoAbortThm` follow from these.

**`GraphProofs`**, about `GraphSort`, from `SortAssumption`.
* `SortInvariance`: `SortSpec => []SortIInv`. Its parts: the nodes left and the result make up all
  nodes (`PartitionInv`); the marked tensors are the ones the result has produced,
  and each node of the result came after its producers (`TensorInv`); while a round
  has moved nothing, what it has passed cannot run (`RoundInv`).
* `ResultIsOrderThm`: from `TensorInv` and `PartitionInv` at the end.
* `GivesUpOnlyOnCyclesThm`: suppose an order exists although nodes are left
  that cannot run. Take the first of them in that order (`Smallest`): what it reads is
  constant, an input, or produced by nodes before it, which have all been moved, so
  it could have run.

**`MemoryPoolProofs`**, from `PoolAssumption`, for any operands, buffers, sizes and number of references.
* `Invariance`: a block's count and the list of references are changed by one step in two places, so
  `PushLive` and `DropLive` say that a push or a drop changes exactly one set of live
  references by one element. `CountsMatchRefs` is then nearly inductive; that a new copy gets a free address needs
  `AddressInv` (a reference is made no earlier than the copy it names).
* `TypeOKThm` (among the types: every region lies inside its memory), `CountsMatchRefsThm`.
* `SmallValuesStableThm`: an operand with a small value refers to a copy (`OperandInv`), the copy exists because
  the reference does, and no step but its last drop touches its bytes.

**`HalPreparedModelProofs`**, from `HalAssumption`, for any requests, inputs and pools.
* `Invariance`: an Execution may be older than the request that computes on it.
  `BoundSoFar` follows the binding of the arguments; `NotComputed` says that an Execution that is kept
  has not been computed with; `Answered` that a request is computed before its answer
  and answered once; `HalfBound` and `Made` are about a burst whose model failed to initialise.
* `TypeOKThm`; `OwnBuffersThm` follows when the last argument has been bound. It says where the request's own buffers
  are found and that no computed request's is; the buffer of a refused request, where an argument is passed over, it does not exclude.

**`OvxlibProofs`**, about `RnnFeedback`, from `RnnAssumption` and `FedOnce`, for any connections, runs and failures.
* `Invariance`: what holds at all times is that a tensor that is not marked swapped has the memory its first parameter
  knows (`Marked`), however calls fail between swaps and checks; those the check has passed know it whether marked or not (`CheckedSoFar`), because a mark is only taken away
  at the first parameter; `CheckedFirst`
  says that the processing of a call comes directly after its check of the parameters.
* `ParamsCurrentThm` follows when the check ends. For further parameters of a tensor it would be false, as it is of the code.
* `MemoryInvariance`: that no two tensors have the same memory (`Apart`), that memory and parameters are only exchanged among the tensors of swapped
  connections (`Still`), what a call has done and left
  to do (`CallInv`), and where a state is: in the output it was computed in, in the buffer it was saved to, which is never older than the last
  call that succeeded (`SavedInv`, `BuffersInv`), and in the inputs of the connections before the position of the
  feed (`FedInv`, `CarriedInv`).
* `TypeOKThm`, `StateCarriedThm`, `CopiedStateKeptThm` follow from it. `StateCarried` has the condition that no tensor is a parameter twice (`Distinct`);
  `CopiedStateKept` does not need it, since copied tensors are never swapped.
* `FedOnce`, that no input belongs to two connections, is not tested by the code, which would then feed the input twice and keep
  the last state; TLC finds `CopiedStateKept` violated without it. The connections are the
  application's, given to `vsi_nn_SetupRNNConnections`, which nothing in the repository calls.

**`OvxlibProofs`**, about `Containers`, from `ContainersAssumption`, for any keys and values and finitely many items.
* `MapInvariance`: the tree hangs together and is in order (`TreeIInv`, which says of two nodes of which one is on the left
  or the right below the other how their keys compare), the list is linked both ways and reaches what was not freed
  (`Linked`), both hold the same keys, `size` counts the items and what a clear has freed, and a clear frees the root (`ClearInv`).
* The tree is reasoned about through places. Two nodes have different keys because their ways part somewhere, at a node
  that stands between them (`Parting`, `Different`). A search ends at the one node that has the key (`Finds`): were it elsewhere,
  the place where its way leaves the search's would have turned it wrongly. `Least` is the same for the walk to the left. A
  deletion moves up a subtree that is all on one side of the freed node, which disturbs no other order (`MovedOn`, `MovedApart`,
  `SplicedTree`), and a node with two children takes the key next to its own (`Deleted`); what is put in stands right by the turns of its search (`Put`).
* All this holds of the keys as they are read when the call begins. The keys of a hash map are read through its items, so
  `Deletion` and `Insertion` show that every node left reads the same key when the item has been freed or made: the item
  freed is the one whose key has just gone from the tree, whatever pointers the deletion handed on.
* `MapTypeOKThm`, `KeysAliveThm`, `SameKeysThm` follow. That walks end is because the tree is finite (`NoEndlessWalk`), having no more
  nodes than there are items (`FiniteTree`).
* `ImplementsMapThm`: every step of either container is a step of `AbstractMap` or leaves its variables alone. It is shown on the set of pairs
  of key and datum (`Pairs`), which `Content` denotes as no key occurs twice (`ContentDenotes`).

**`GraphProofs`**, about `GraphLife`, from `GraphLifeAssumption`, for any ids, tensors, nodes, outputs and setups.
* `SortedOrders` joins the two modules: a setup of `GraphLife` goes on with any of the orders that satisfy `IsOrder`, and these
  are, when nodes are counted from 1, exactly the `Orders` of `GraphSort` for the nodes, inputs and ids without
  a tensor that the graph has then. So what is proved of the sort holds of every setup.
* `Invariance`, in two parts. The first is about who holds a tensor: the table under one id, `complete_signal`, or
  nobody any more; only a tensor somebody holds is released (`HeldOnce`), and as long as the signals that were made are
  as many as are kept, a tensor that nobody holds has been released (`NoneLost`, for which `InOrder` says that the ids are those below `cur_tid`).
  The second follows a setup from phase to phase: its order has every node once (`OrderInv`, by the pigeonhole principle), the nodes before
  its position have made their outputs (`ComputedInv`), and the signal is there when it is read (`SignalInv`).
* `TypeOKThm`, `ReleasedOnceThm`, `CrashesExplainedThm`, `OutputsIdentifiedThm` are conjuncts of it, the last with inputs and outputs;
  `InputsReadyThm` combines the order with the nodes computed: what a node reads is an input or made by a node before it.

**`LayoutInferenceProofs`**, from `LayoutInferenceAssumption`, for any models that are well formed (`WellFormed`): operations read
inputs, constants and what operations before them make, at least one operand of which is no constant, every operand has one maker,
and its axes are as many as the operation wants; data of a convolution may have any number, that of a depthwise one four. That the inputs of an element-wise operation have equally many is what
`elementwise.cpp:34` asks for; the others follow from the kind.
* `Invariance`, in three parts. `Control`: an operand is queued once (`QueuedOnce`), since an operation puts its outputs
  into the queue when it is inferred and nobody else makes them (`KnownInv`); an operation has been given exactly those operands
  it reads that were queued and have left the queue, except the one that is just being handed out to it (`CachedInv`); and it has been inferred
  if and only if it has been given all it reads (`ReadyInv`). That consumers are looked up among the operations as they are *now*, some with clones
  instead of their inputs, does no harm: only inferred ones have any (`Rewritten`). `VectorInv`: an object is shared
  only by operands with equally many axes, and is a permutation of these. `Meaning` ties the two together: unless an object was reset that
  others had still to read, the object of every operand that somebody waits for is what was laid (`HeldInv`); and an operation that has been inferred agrees with
  `laid` and is satisfied, now and for good (`DoneInv`), because permutes, clones and the constants it transposed are its own (`OwnInv`).
* `InferredOnceThm`: that no operation is inferred twice is part of the types; that none is left out is proved from the first that
  would be: all it reads has been queued, and has left the empty queue.
* `TypeOKThm`: reversal, addition and reduction of a permutation are permutations (`ReversePermutation`, `AddPermutation`,
  `ReducedPermutation`), and `Handled` follows them through each handler.
* `PreservedThm`: with the algebra of permutations (`AddReverse`, `ReverseAligned`, `AxisFound`, `WithoutReduced`), `HandledRight` shows
  for each handler that what it decides is right if the vectors it goes by are those of the data. That they are is `HeldInv`: what the handler sees is what
  was laid (`HeldStep`, where the reset of a shared object is the only danger), so that the operation is right when
  it is inferred (`InferredDone`), and no later one disturbs it (`OthersKept`). The three excuses are used where the code needs them: `clobbered` in `HeldStep`,
  `ConstReadTwice` for the constants of others in `OthersKept` and `ReadsFed`, `KernelPermuted` in the cases of a computed kernel and of one that is the data.
* `OneLayoutThm`: the first operation at which other layouts would differ from `laid` reads what is laid, and so makes what is laid.

**Model-checked only**: all liveness (`WaitersReturn`, `Terminates`, `EveryRequestAnswered`, the fairness half of `ImplementsExecutor`),
which is beyond the prover, as is `ENABLED`: that every call on a container can be made rests on the walks that end (`MapTypeOKThm`)
and, for the second search of a deletion, on the run.

## 5. What is not modelled

* Operations and kernels, shape inference and parameter translation of single operations,
  including the interpreter's and the ovxlib delegate's per-operation code, which make up
  most of the lines of the repository: functions without state.
* `vsi_nn_tensor.c` beyond swapping and copying of contents: formats, strides, conversion of data.
* Internal nodes and `vsi_nn_rnn_helper.c`: lists that one operation's setup fills in a fixed order.
* The other transformations' effect on single operands (`AlignBroadcastOp`, `Fp32ToFp16`, `ValidateQuantizedGraph`);
  `OptimizePermute` is empty in the code. When they run, and how often, is in `Compilation`.
* The delegate's building of models, which checks arguments and inserts into maps; the HAL's
  conversion of models.
* In `LayoutInference`, the bias of a depthwise convolution, and one over other than four axes, which NNAPI does not
  have. In `GraphLife`, memory that runs out. In `Containers`, allocations that fail.
* Which operations `removeOperationWithNullInput` takes away: `Execution` has only that some may be gone.
* The data race on the memory lists between executions of one model. Sizes that overflow `size_t`.
* Execution's queries of output ranks and dimensions, which change nothing.
* Dumping, logging, code generation, vendored code, the Arm NN plug-in.

## 6. Plan

Done: the task queue, executions, compilation, memory pool, layout inference, sorting, life of graphs,
containers, recurrent connections, HAL requests; proofs
of every safety property that the runs check of these.

Left, in this order:

1. `MemoryPool` with `add_reference` in several steps, for two executions at once.
2. Null-input pruning of the ovxlib delegate (`removeOperationWithNullInput`) as a least fixed point; `Execution` abstracts it to one flag.
3. Internal nodes, as a list per node with its release.
