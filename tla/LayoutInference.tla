--------------------------- MODULE LayoutInference ---------------------------
(***************************************************************************)
(* model_transform/layout_inference.cpp with the handlers of op/: a model  *)
(* whose data is laid out NHWC is rewritten for a driver that wants NCHW.  *)
(* A queue carries operands whose layout is known; an operation that knows *)
(* the layouts of all its computed inputs is inferred: it inserts permutes *)
(* before its inputs, transposes its constants, moves its axis, and says   *)
(* what layout its outputs have.  An output of the model gets a permute    *)
(* that undoes its layout.                                                 *)
(*                                                                         *)
(* A layout is a permute vector: a permutation of the axes 0..n-1 that was *)
(* applied to the data.  Vectors are objects that are shared (shared_ptr)  *)
(* and one of which may be reset: origin[o] names the object of operand o  *)
(* by the operand it was made for, vec[x] is the value of object x.  An    *)
(* operand meets the cache of every consumer with the same object, so a    *)
(* cache is the set of operands in it.                                     *)
(*                                                                         *)
(* The operations are those of the graph given; permutes are kept apart.   *)
(* Dimensions and values are left out, but not the axes they belong to.    *)
(***************************************************************************)
EXTENDS Integers, Sequences, FiniteSets, SequencesExt

CONSTANTS
  Ids,    \* operands of a graph are 1..Ids-1
  Inputs, \* operands the application gives
  Consts, \* constant operands, of four axes
  Graphs  \* the models: their operations, and the number of axes of each operand

Operand == 1..(Ids - 1)

Kinds == {
  "pool",    \* TPoolOperation: wants its data in the layout of the driver
  "conv",    \* Conv2D, GroupedConv2D: so do they, and their kernel
  "deconv",  \* Deconv2D: the same, but not if its data has not four axes
  "depthwise", \* DepthwiseConv2D, over data of four axes
  "act",     \* ActivationOperation: any layout
  "axis",    \* Softmax, Split, ChannelShuffle: any layout, but has an axis
  "arg",     \* ArgXXX: has an axis, and its output lacks it
  "elem",    \* Add, Mul, ...: inputs of one layout
  "concat",  \* the same, with an axis
  "default"} \* an operation that does not override the handler

Identity(n) == [x \in 0..(n - 1) |-> x]
NHWC == <<0, 3, 1, 2>>
IsPermutation(p, n) == p \in [0..(n - 1) -> 0..(n - 1)] /\ Range(p) = 0..(n - 1)

reverse(p) == [x \in DOMAIN p |-> CHOOSE y \in DOMAIN p : p[y] = x]
add(p, q) == [x \in DOMAIN q |-> p[q[x]]]
isAligned(p) == p = Identity(Cardinality(DOMAIN p))
axisMapFrom(p, axis) == p[axis] \* Mutant: the map the other way round
axisMapTo(p, axis) == CHOOSE x \in DOMAIN p : p[x] = axis

\* ArgXXX: the vector of the data without one of its axes.
\* Mutant: the axis stays.
ReducedNot(p, axis) == p
Reduced(p, axis) ==
  LET at == reverse(p)[axis]
      kept(x) == p[IF x < at THEN x ELSE x + 1]
  IN  [x \in 0..(Cardinality(DOMAIN p) - 2) |-> IF kept(x) > axis THEN kept(x) - 1 ELSE kept(x)]

\* A map with entries set in it.
With(map, entries) ==
  [x \in DOMAIN map \cup DOMAIN entries |-> IF x \in DOMAIN entries THEN entries[x] ELSE map[x]]

VARIABLES
  graph,    \* the model as it was given, with its outputs
  ops,      \* its operations as they are now
  permutes, \* the permutes inserted: [perm, from, to]
  perm,     \* Operand::perm_ of the constants that have one: the driver applies it
  permOf,   \* Operand::perm_vector_ of the constants: its object
  origin, vec,
  cached,   \* input_permute_cache_ of each operation
  queue,    \* operandPermuteQueue
  operand,  \* the operand taken from it
  todo,     \* its consumers not yet visited
  inferred, \* history: how often each operation was inferred
  laid,     \* history: the layout each operand was given when it was made
  clobbered \* history: an object was reset that others still had to read

vars == <<graph, ops, permutes, perm, permOf, origin, vec, cached, queue, operand, todo,
          inferred, laid, clobbered>>

Held(o) == vec[origin[o]]
IsConst(o) == o \in Consts
\* The new operand that stands for o at operation c.
Clone(c, o) == c * Ids + o
\* model->getConsumers; a permute never reads an operand that is asked for.
getConsumers(o) == {c \in DOMAIN ops : o \in ToSet(ops[c].ins)}

Init ==
  /\ \E g \in Graphs :
       LET made == UNION {ToSet(g.ops[c].outs) : c \in DOMAIN g.ops}
           read == UNION {ToSet(g.ops[c].ins) : c \in DOMAIN g.ops}
       IN  \E also \in {{}} \cup {{o} : o \in made \cap read} :
             graph = [ops |-> g.ops, ndim |-> g.ndim, outputs |-> (made \ read) \cup also]
  /\ ops = graph.ops
  /\ permutes = {} /\ perm = <<>> /\ permOf = <<>>
  /\ origin = [o \in Inputs |-> o]
  /\ vec = [o \in Inputs |-> Identity(graph.ndim[o])]
  /\ cached = [c \in DOMAIN graph.ops |-> {}]
  /\ queue = SetToSeq(Inputs)
  /\ operand = 0 /\ todo = {}
  /\ inferred = [c \in DOMAIN graph.ops |-> 0]
  /\ laid = vec
  /\ clobbered = FALSE

Pop ==
  /\ todo = {} /\ queue # <<>>
  /\ operand' = Head(queue) /\ queue' = Tail(queue)
  /\ todo' = getConsumers(operand')
  /\ UNCHANGED <<graph, ops, permutes, perm, permOf, origin, vec, cached, inferred, laid, clobbered>>

\* Mutant: ready with its data, whatever else it reads.
isDataSetupWithPermute(c, has) == ops[c].ins[1] \in has
isAllInputTensorSetupWithPermute(c, has) ==
  \A o \in ToSet(ops[c].ins) : ~IsConst(o) => o \in has

\* What the handler of operation c does with the inputs it has: the permutes it
\* asks for, the constants it transposes, and the vectors of its outputs, made
\* or passed on.  first is the entry the iteration over the cache begins with.
Required(op) == IF op.nhwc THEN [x \in 0..3 |-> NHWC[x + 1]] ELSE Identity(4)
Outcome(align, consts, made, axis) ==
  [align |-> align, consts |-> consts, made |-> made, axis |-> axis]
Passed == <<>>

Default(c, has) ==
  Outcome([o \in has |-> reverse(Held(o))], {},
          [o \in ToSet(ops[c].outs) |-> Identity(graph.ndim[o])], ops[c].axis)

\* A computed kernel gets its permute first, and that replaces the data if they are one.
ToDriver(c) ==
  LET op == ops[c]
      data == op.ins[1]
      kernels == IF op.kind # "pool" /\ op.nhwc THEN {op.ins[2]} ELSE {}
      needed == add(reverse(Held(data)), Required(op))
  IN  Outcome([o \in {data} \cup {k \in kernels : ~IsConst(k)} |->
                 CASE o # data -> Required(op)
                   [] o = data /\ o \in kernels -> add(Required(op), needed)
                   [] OTHER -> needed],
              {k \in kernels : IsConst(k)},
              [o \in ToSet(op.outs) |-> Required(op)], op.axis)

\* DepthwiseConv2D: every computed input, and the constants; its bias is left out.
AllToDriver(c, has) ==
  LET op == ops[c]
  IN  Outcome([o \in has |-> add(reverse(Held(o)), Required(op))],
              {k \in ToSet(op.ins) : op.nhwc /\ IsConst(k)},
              [o \in ToSet(op.outs) |-> Required(op)], op.axis)

\* Conv2D and GroupedConv2D over data that has not four axes: the kernel stays as it is.
DataOnly(c) ==
  Outcome([o \in {ops[c].ins[1]} |-> reverse(Held(o))], {},
          [o \in ToSet(ops[c].outs) |-> Identity(graph.ndim[o])], ops[c].axis)

PassOn(c) ==
  LET op == ops[c]
  IN  Outcome(<<>>, {}, Passed,
              IF op.kind = "axis" THEN axisMapTo(Held(op.ins[1]), op.axis) ELSE op.axis)

ArgXXX(c) ==
  LET op == ops[c]
      p == Held(op.ins[1])
  IN  Outcome(<<>>, {}, [o \in ToSet(op.outs) |-> Reduced(p, op.axis)], axisMapTo(p, op.axis))

AlignInputs(c, has, first) ==
  LET op == ops[c]
  IN  Outcome([o \in has \ {first} |-> add(reverse(Held(o)), Held(first))],
              {k \in ToSet(op.ins) : IsConst(k)}, Passed,
              IF op.kind = "concat" THEN axisMapTo(Held(first), op.axis) ELSE op.axis)

handleLayoutInferenceOnInputs(c, has, first) ==
  CASE ops[c].kind \in {"elem", "concat"} -> AlignInputs(c, has, first)
    [] ops[c].kind \in {"act", "axis"} -> PassOn(c)
    [] ops[c].kind = "arg" -> ArgXXX(c)
    [] ops[c].kind = "depthwise" -> AllToDriver(c, has)
    [] ops[c].kind \in {"pool", "conv", "deconv"} /\ graph.ndim[ops[c].ins[1]] = 4 -> ToDriver(c)
    [] ops[c].kind = "conv" /\ graph.ndim[ops[c].ins[1]] # 4 -> DataOnly(c)
    [] OTHER -> Default(c, has)

permuteConst(k, p) == IF k \in DOMAIN permOf THEN add(reverse(vec[permOf[k]]), p) ELSE p

Replace(c, seq, S) == [x \in DOMAIN seq |-> IF seq[x] \in S THEN Clone(c, seq[x]) ELSE seq[x]]

\* handleLayoutInferenceOnInputs, then handleLayoutInferenceOnOutputs.
Infer(c, has, first) ==
  LET op == ops[c]
      r == handleLayoutInferenceOnInputs(c, has, first)
      outs == ToSet(op.outs)
      before == {o \in DOMAIN r.align : ~isAligned(r.align[o])}
      object == IF r.made = Passed THEN [o \in outs |-> origin[first]] ELSE [o \in outs |-> o]
      value == With(vec, r.made)
      layout(o) == value[object[o]]
      after == {o \in outs \cap graph.outputs : ~isAligned(reverse(layout(o)))}
      read == {o \in outs : getConsumers(o) # {}}
      reset == {object[o] : o \in read \cap graph.outputs}
      const == [k \in r.consts |-> permuteConst(k, layout(op.outs[1]))]
      turned == {k \in r.consts : ~isAligned(const[k])}
      remade == turned \cap DOMAIN permOf
      settled == [x \in DOMAIN value |->
                    IF x \in reset THEN Identity(Cardinality(DOMAIN value[x])) ELSE value[x]]
      waiting == {o \in DOMAIN origin :
                    \/ o \in ToSet(queue)
                    \/ o = operand /\ todo # {c}
                    \/ \E d \in DOMAIN ops \ {c} : o \in cached[d] /\ inferred[d] = 0}
  IN  /\ ops' = [ops EXCEPT ![c].ins = Replace(c, @, before), ![c].outs = Replace(c, @, after),
                            ![c].axis = r.axis]
      /\ permutes' = permutes
           \cup {[perm |-> r.align[o], from |-> o, to |-> Clone(c, o)] : o \in before}
           \cup {[perm |-> reverse(layout(o)), from |-> Clone(c, o), to |-> o] : o \in after}
      /\ perm' = With(perm, const)
      /\ permOf' = With(permOf, [k \in turned |-> IF k \in remade THEN k ELSE object[op.outs[1]]])
      /\ origin' = With(origin, [o \in read \cup (outs \ graph.outputs) |-> object[o]])
      /\ vec' = With(settled, [k \in remade |-> const[k]])
      /\ \E next \in SetToSeqs(read \cup (outs \ graph.outputs)) : queue' = queue \o next
      /\ inferred' = [inferred EXCEPT ![c] = @ + 1]
      /\ laid' = With(laid, [o \in outs |-> IF o \in graph.outputs THEN Identity(graph.ndim[o]) ELSE layout(o)])
      /\ clobbered' = (clobbered
           \/ \E x \in reset : /\ ~isAligned(value[x])
                               /\ \/ \E o \in waiting : origin[o] = x
                                  \/ \E o \in outs \ graph.outputs : object[o] = x)

\* Mutant: a consumer that is not ready stays to be visited.
VisitUntilReady ==
  /\ \E c \in todo :
       LET has == cached[c] \cup {operand}
       IN  /\ cached' = [cached EXCEPT ![c] = has]
           /\ todo' = IF isAllInputTensorSetupWithPermute(c, has) THEN todo \ {c} ELSE todo
           /\ IF isAllInputTensorSetupWithPermute(c, has)
              THEN \E first \in has : Infer(c, has, first)
              ELSE UNCHANGED <<ops, permutes, perm, permOf, origin, vec, queue, inferred, laid, clobbered>>
  /\ UNCHANGED <<graph, operand>>

\* consumerOpPtr->layoutInference; the consumers come in any order.
Visit ==
  /\ \E c \in todo :
       LET has == cached[c] \cup {operand}
       IN  /\ cached' = [cached EXCEPT ![c] = has]
           /\ todo' = todo \ {c}
           /\ IF isAllInputTensorSetupWithPermute(c, has)
              THEN \E first \in has : Infer(c, has, first)
              ELSE UNCHANGED <<ops, permutes, perm, permOf, origin, vec, queue, inferred, laid, clobbered>>
  /\ UNCHANGED <<graph, operand>>

Next == Pop \/ Visit

Spec == Init /\ [][Next]_vars /\ WF_vars(Next)

-----------------------------------------------------------------------------
(* Properties *)

\* Vectors have at most ten axes; a scalar has none.
MAX_RANK == 10

Op == [kind : Kinds, nhwc : BOOLEAN, ins : Seq(Operand), outs : Seq(Operand), axis : Nat]

\* The operands of an operation have as many axes as its kind wants.
RanksFit(ndim, op) ==
  LET n == ndim[op.ins[1]]
  IN  /\ op.kind \in {"pool", "act", "axis", "arg"} => Len(op.ins) = 1
      /\ op.kind \in {"conv", "deconv", "depthwise"} =>
           /\ Len(op.ins) = 2 /\ (n = 4 => ndim[op.ins[2]] = 4)
           /\ IF op.kind = "depthwise" THEN n = 4 ELSE op.ins[1] \notin Consts
      /\ op.kind \in {"elem", "concat"} => \A o \in ToSet(op.ins) : ndim[o] = n
      /\ op.kind # "default" => \A o \in ToSet(op.outs) : ndim[o] = IF op.kind = "arg" THEN n - 1 ELSE n
      /\ op.kind \in {"axis", "arg", "concat"} => op.axis \in 0..(n - 1)

\* What Graphs must be: operations read what is given or made before them, some
\* of it computed, make what nobody else makes, and have an axis that exists.
WellFormed(given, ndim) ==
  LET made(c) == ToSet(given[c].outs)
      before(c) == Inputs \cup Consts \cup UNION {made(d) : d \in 1..(c - 1)}
  IN  /\ given \in Seq(Op) /\ ndim \in [Operand -> 0..MAX_RANK]
      /\ \A c \in DOMAIN given :
           LET op == given[c]
           IN  /\ ToSet(op.ins) \subseteq before(c) /\ ToSet(op.ins) \ Consts # {}
               /\ made(c) # {} /\ made(c) \cap before(c) = {}
               /\ RanksFit(ndim, op)

ASSUME LayoutInferenceAssumption ==
  /\ Ids \in Nat /\ Inputs \subseteq Operand /\ Consts \subseteq Operand /\ Inputs \cap Consts = {}
  /\ \A g \in Graphs : WellFormed(g.ops, g.ndim)

(* Every vector is a permutation of the axes of the operands that have it, *)
(* and every permute is one of the axes of the operand it reads.           *)
TypeOK ==
  /\ DOMAIN ops = DOMAIN graph.ops
  /\ \A o \in DOMAIN origin : origin[o] \in DOMAIN vec /\ IsPermutation(Held(o), graph.ndim[o])
  /\ \A p \in permutes : IsPermutation(p.perm, graph.ndim[IF p.from \in Operand THEN p.from ELSE p.to])
  /\ \A k \in DOMAIN perm : IsConst(k) /\ IsPermutation(perm[k], graph.ndim[k])
  /\ DOMAIN permOf \subseteq DOMAIN perm
  /\ \A c \in DOMAIN ops : cached[c] \subseteq DOMAIN origin
  /\ ToSet(queue) \subseteq DOMAIN origin /\ todo \subseteq DOMAIN ops

(* Every operation that is to be rewritten is so, and once: one that were  *)
(* inferred at the first of its inputs, or again at a later one, would get *)
(* its permutes or its axis twice, and one that waits for ever would leave *)
(* what follows it in a layout nobody undoes.                              *)
InferredOnce ==
  /\ \A c \in DOMAIN ops : inferred[c] <= 1
  /\ todo = {} /\ queue = <<>> => \A c \in DOMAIN ops : inferred[c] = 1

\* The rewritten model, if its operands are laid out as L says: what an operation
\* reads, through its permutes, and what it makes of it.
PermuteBetween(from, to) == (CHOOSE p \in {q \in permutes : q.from = from /\ q.to = to} : TRUE).perm

Reads(L, c, x) ==
  LET o == graph.ops[c].ins[x]
      to == ops[c].ins[x]
  IN  CASE IsConst(o) -> IF o \in DOMAIN perm THEN perm[o] ELSE Identity(graph.ndim[o])
        [] ~IsConst(o) /\ to = o -> L[o]
        [] OTHER -> add(L[o], PermuteBetween(o, to))

\* Data p without an axis: the axes that are left keep their order.
Without(p, axis) ==
  LET kept == {x \in DOMAIN p : p[x] # axis}
      Nth(S, y) == Cardinality({z \in S : z < y})
  IN  [n \in 0..(Cardinality(DOMAIN p) - 2) |->
         Nth(DOMAIN p \ {axis}, p[CHOOSE x \in kept : Nth(kept, x) = n])]

ToDriverLayout(c) ==
  LET op == graph.ops[c]
  IN  op.kind \in {"pool", "conv", "deconv", "depthwise"} /\ graph.ndim[op.ins[1]] = 4

Makes(L, c, o) ==
  LET op == graph.ops[c]
  IN  CASE op.kind \in {"elem", "concat", "act", "axis"} -> Reads(L, c, 1)
        [] op.kind = "arg" -> Without(Reads(L, c, 1), op.axis)
        [] ToDriverLayout(c) -> Required(op)
        [] OTHER -> Identity(graph.ndim[o])

\* L is what operation c and the permutes behind it make.
Agrees(L, c) ==
  \A x \in DOMAIN graph.ops[c].outs :
    LET o == graph.ops[c].outs[x]
        from == ops[c].outs[x]
    IN  L[o] = IF from = o THEN Makes(L, c, o) ELSE add(Makes(L, c, o), PermuteBetween(from, o))

\* What the driver's operation needs of the layouts of its inputs.
Satisfied(L, c) ==
  LET op == graph.ops[c]
      axisMoved == Reads(L, c, 1)[ops[c].axis] = op.axis
      oneLayout == \A x \in DOMAIN op.ins : Reads(L, c, x) = Reads(L, c, 1)
  IN  CASE op.kind = "act" -> TRUE
        [] op.kind \in {"axis", "arg"} -> axisMoved
        [] op.kind = "elem" -> oneLayout
        [] op.kind = "concat" -> oneLayout /\ axisMoved
        [] ToDriverLayout(c) -> /\ Reads(L, c, 1) = Required(op)
                                /\ op.kind # "pool" => Reads(L, c, 2) = Required(op)
        [] OTHER -> \A x \in DOMAIN op.ins : isAligned(Reads(L, c, x))

(* Three things the code gets wrong, which Preserved leaves out.  A        *)
(* constant that several operations read is transposed for one of them.    *)
(* The kernel of a convolution, when computed, gets the permute of the     *)
(* convolution, or none, whatever was applied to it before, and two        *)
(* permutes if it is the data as well.  And (clobbered) an output of the   *)
(* model that is also read resets an object that other operands have as    *)
(* well.                                                                   *)
ConstReadTwice ==
  \E c, d \in DOMAIN ops : c # d /\ ToSet(graph.ops[c].ins) \cap ToSet(graph.ops[d].ins) \cap Consts # {}
KernelPermuted ==
  \E c \in DOMAIN ops :
    LET op == graph.ops[c]
        k == op.ins[2]
    IN  /\ op.kind \in {"conv", "deconv"}
        /\ IF k = op.ins[1]
           THEN op.nhwc /\ ToDriverLayout(c)
           ELSE /\ op.kind = "conv" \/ ToDriverLayout(c)
                /\ k \in DOMAIN laid /\ ~isAligned(laid[k])

(* The rewritten model computes what the given one did.  The layouts that  *)
(* were handed on are those its operations and permutes make of the inputs *)
(* and the constants; every operation finds its data in the layout it      *)
(* needs and its axis at the place the axis has gone; and what the model   *)
(* is given and gives back is in the layout the application knows.         *)
Preserved ==
  (todo = {} /\ queue = <<>> /\ ~clobbered /\ ~ConstReadTwice /\ ~KernelPermuted)
  => /\ \A c \in DOMAIN ops : Agrees(laid, c) /\ Satisfied(laid, c)
     /\ \A o \in Inputs \cup graph.outputs : isAligned(laid[o])

(* The queue runs empty, whatever the graph.                               *)
Terminates == <>(todo = {} /\ queue = <<>>)
=============================================================================
