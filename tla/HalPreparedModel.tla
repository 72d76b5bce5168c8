-------------------------- MODULE HalPreparedModel --------------------------
(***************************************************************************)
(* android_hal: the requests that are executed on one VsiPreparedModel,    *)
(* directly or through a BurstExecutorWithCache.  The service has a single *)
(* binder thread and a burst executor has a prepared model of its own, so  *)
(* requests come one after another; what makes them depend on each other   *)
(* is what a request that is refused half-way leaves behind.               *)
(*                                                                         *)
(* A request names, for each input and for the output, a memory pool or no *)
(* value.  Mapping a pool may fail, which leaves it and the pools after it *)
(* without a type; the caller ignores that.  Pools without a type, and     *)
(* those of type hardware_buffer_blob, are passed over when arguments are  *)
(* bound to the native Execution.  An Execution that is not reset keeps    *)
(* the bindings of earlier requests.  A buffer is named by its request.    *)
(***************************************************************************)
EXTENDS Naturals, FiniteSets

CONSTANTS
  Request,    \* the requests; their number bounds the model
  NumInputs,  \* inputs of the model; it has one output
  NumPools,   \* pools of a request
  None

NoValue == 0
Args == 1..NumInputs + 1   \* the inputs, then the output
Output == NumInputs + 1
MemType == {"ashmem", "hardware_buffer_blob"} \* mmap_fd is bound like ashmem
Unmapped == ""
NoArgs == [a \in Args |-> NoValue]

\* What an argument of the Execution is bound to.
Binding == {"UNSPECIFIED", "HAS_NO_VALUE"} \cup Request

Status == {"NONE", "INVALID_ARGUMENT", "OUTPUT_INSUFFICIENT_SIZE"}

ASSUME HalAssumption ==
  /\ NumInputs \in Nat \ {0} /\ NumPools \in Nat
  /\ None \notin Request \cup Status \cup [Args -> Binding]
  /\ {"UNSPECIFIED", "HAS_NO_VALUE"} \cap Request = {}

\* How the pools of a request were mapped: those after a failure are not.
Pools ==
  {pools \in [1..NumPools -> MemType \cup {Unmapped}] :
     \A p, q \in 1..NumPools : p < q /\ pools[p] = Unmapped => pools[q] = Unmapped}
NoPools == [p \in 1..NumPools |-> Unmapped]

VARIABLES
  model,        \* perpareModel_: "none", how far initialize has come, or "whole"
  native_exec_, \* the bindings of the native Execution, None without one
  io_buffer_,   \* mem_type of the request's pools
  request,      \* the request that is executed, or None
  args,         \* its arguments: the pool of each, or NoValue
  next,         \* the argument to be bound next; past the last: compute
  answer,       \* what each request was told, None before
  computed,     \* history: the requests that have reached compute
  crashed

vars == <<model, native_exec_, io_buffer_, request, args, next, answer, computed, crashed>>

\* A prepared model is whole when the service hands it out; a burst executor makes
\* its own with the first request.
Init ==
  /\ model \in {"none", "whole"}
  /\ native_exec_ = None
  /\ io_buffer_ = NoPools
  /\ request = None
  /\ args = NoArgs
  /\ next = 1
  /\ answer = [r \in Request |-> None]
  /\ computed = {}
  /\ crashed = FALSE

New(r) == ~crashed /\ request = None /\ answer[r] = None

\* callback->notify and return.  Nothing but the locals of the call is undone.
Notify(r, status) ==
  /\ answer' = [answer EXCEPT ![r] = status]
  /\ request' = None
  /\ args' = NoArgs
  /\ next' = 1

-----------------------------------------------------------------------------
(* The way to executeBase                                                  *)

\* validateRequest, or a slot that is not in the cache.
Refuse(r) ==
  /\ New(r)
  /\ Notify(r, "INVALID_ARGUMENT")
  /\ UNCHANGED <<model, native_exec_, io_buffer_, computed, crashed>>

\* BurstExecutorWithCache::execute makes its prepared model; if initialize fails,
\* with or without all operands, it stays.
InitializeFails(r, partial) ==
  /\ New(r)
  /\ model = "none"
  /\ model' = partial
  /\ Notify(r, "INVALID_ARGUMENT")
  /\ UNCHANGED <<native_exec_, io_buffer_, computed, crashed>>

\* Mutant: an Execution is made only when the model is compiled.
NoExecution == None

NewExecution == [a \in Args |-> "UNSPECIFIED"]

\* executeBase up to update_operand_from_request.
Execute(r, a, pools) ==
  /\ New(r)
  /\ model' = IF model = "none" THEN "whole" ELSE model
  /\ request' = r
  /\ args' = a
  /\ io_buffer_' = pools
  /\ native_exec_' = IF native_exec_ = None THEN NewExecution ELSE native_exec_
  /\ next' = 1
  /\ UNCHANGED <<answer, computed, crashed>>

MissingOutput == model = "no_operands" /\ next = Output /\ args[Output] # NoValue

\* An operand that the failed initialize has not added is dereferenced, for the
\* dimensions of a request or of the output.
Crash ==
  /\ request # None /\ ~crashed
  /\ \/ model = "no_operands" /\ next = 1
     \/ MissingOutput
  /\ crashed' = TRUE
  /\ UNCHANGED <<model, native_exec_, io_buffer_, request, args, next, answer, computed>>

-----------------------------------------------------------------------------
(* update_pool_info_from_request                                           *)

Arrived(a) == request # None /\ ~crashed /\ next = a
PoolType(a) == IF args[a] = NoValue THEN "HAS_NO_VALUE" ELSE io_buffer_[args[a]]

\* setInput, setOutput of the Execution, which refuses an index it does not have.
Bind(a, binding) ==
  /\ native_exec_' = [native_exec_ EXCEPT ![a] = binding]
  /\ next' = next + 1
  /\ UNCHANGED <<request, args, answer>>

RefusesIndex == model # "whole"

\* Whether the Execution takes an argument without value is not looked at; setOutput
\* refuses a null buffer before anything else.
BindNoValue(a) ==
  /\ Arrived(a)
  /\ PoolType(a) = "HAS_NO_VALUE"
  /\ next' = next + 1
  /\ native_exec_' =
       IF RefusesIndex \/ a = Output THEN native_exec_ ELSE [native_exec_ EXCEPT ![a] = "HAS_NO_VALUE"]
  /\ UNCHANGED <<model, io_buffer_, request, args, answer, computed, crashed>>

BindBuffer(a) ==
  /\ Arrived(a) /\ ~MissingOutput
  /\ PoolType(a) = "ashmem"
  /\ IF RefusesIndex
       THEN Notify(request, "INVALID_ARGUMENT") /\ UNCHANGED native_exec_
       ELSE Bind(a, request)
  /\ UNCHANGED <<model, io_buffer_, computed, crashed>>

\* Neither an error nor a binding.
PassOver(a) ==
  /\ Arrived(a) /\ ~MissingOutput
  /\ \/ PoolType(a) = "hardware_buffer_blob"
     \/ PoolType(a) = Unmapped /\ a # Output
  /\ next' = next + 1
  /\ UNCHANGED <<model, native_exec_, io_buffer_, request, args, answer, computed, crashed>>

\* Mutant: the callback is forgotten.
InsufficientUntold ==
  /\ Arrived(Output) /\ ~MissingOutput
  /\ PoolType(Output) # "HAS_NO_VALUE"
  /\ request' = None /\ args' = NoArgs /\ next' = 1
  /\ UNCHANGED <<model, native_exec_, io_buffer_, answer, computed, crashed>>

\* The pool of the output is too small, whatever its type; one that is not mapped has
\* size zero.
OutputInsufficient ==
  /\ Arrived(Output) /\ ~MissingOutput
  /\ PoolType(Output) # "HAS_NO_VALUE"
  /\ Notify(request, "OUTPUT_INSUFFICIENT_SIZE")
  /\ UNCHANGED <<model, native_exec_, io_buffer_, computed, crashed>>

-----------------------------------------------------------------------------
(* compute, reset, release_rtinfo                                          *)

\* fillInput and fillOutput refuse an argument that is not specified.
MaySucceed == model # "whole" \/ \A a \in Args : native_exec_[a] # "UNSPECIFIED"

\* Mutant: the native Execution is kept for the next request.
KeepExecution == UNCHANGED native_exec_

ResetExecution == native_exec_' = None

compute ==
  /\ Arrived(Output + 1)
  /\ \/ MaySucceed /\ Notify(request, "NONE")
     \/ Notify(request, "INVALID_ARGUMENT")
  /\ computed' = computed \cup {request}
  /\ ResetExecution
  /\ io_buffer_' = NoPools
  /\ UNCHANGED <<model, crashed>>

-----------------------------------------------------------------------------
Step ==
  \/ Crash
  \/ \E a \in Args : BindNoValue(a) \/ BindBuffer(a) \/ PassOver(a)
  \/ OutputInsufficient
  \/ compute

Next ==
  \/ \E r \in Request :
       \/ Refuse(r)
       \/ \E partial \in {"no_operands", "no_operations"} : InitializeFails(r, partial)
       \/ \E a \in [Args -> 0..NumPools], pools \in Pools : Execute(r, a, pools)
  \/ Step

\* The binder thread goes on with a request it has begun.
Spec == Init /\ [][Next]_vars /\ WF_vars(Step)

-----------------------------------------------------------------------------
(* Properties                                                              *)

TypeOK ==
  /\ model \in {"none", "no_operands", "no_operations", "whole"}
  /\ native_exec_ \in [Args -> Binding] \cup {None}
  /\ io_buffer_ \in Pools
  /\ request \in Request \cup {None}
  /\ args \in [Args -> 0..NumPools]
  /\ next \in 1..Output + 1
  /\ answer \in [Request -> Status \cup {None}]
  /\ computed \subseteq Request
  /\ crashed \in BOOLEAN
  /\ request # None => native_exec_ # None

\* What a computation that may succeed works on, argument by argument: the buffer of its
\* own request where that was bound; and where it was passed over, or an output without
\* value refused, nothing that a computed request had bound, by then unmapped, whatever
\* that request's outcome.  What a request left that was refused while its arguments
\* were bound is not excluded there: the code does compute on that.
\* And a burst whose model could not be initialised never gets a buffer bound, however
\* often it is tried again with the model half-built.
OwnBuffers ==
  /\ Arrived(Output + 1) /\ model = "whole" /\ MaySucceed =>
       \A a \in Args :
         CASE PoolType(a) = "HAS_NO_VALUE" /\ a # Output -> native_exec_[a] = "HAS_NO_VALUE"
           [] PoolType(a) = "ashmem" -> native_exec_[a] = request
           [] OTHER -> native_exec_[a] \notin computed
  /\ native_exec_ # None /\ model # "whole" => native_exec_ = NewExecution

\* Every request that was begun is answered, unless the program crashes.
EveryRequestAnswered ==
  \A r \in Request : request = r ~> (answer[r] # None \/ crashed)
=============================================================================
