------------------------ MODULE LayoutInferenceProofs ------------------------
(***************************************************************************)
(* Proofs about LayoutInference, for any models: every operation is        *)
(* inferred once, every vector is a permutation of the axes of the         *)
(* operands that have it, and the rewritten model computes what the given  *)
(* one did.                                                                *)
(*                                                                         *)
(* The first is about which operands an operation has been given: those it *)
(* reads that were queued and have been taken from the queue, except the   *)
(* one that is being handed out to it.  It is inferred when it has them    *)
(* all, and nobody puts an operand into the queue twice, since an operand  *)
(* has one maker.  The second needs that an object is only passed on among *)
(* operands with equally many axes.                                        *)
(*                                                                         *)
(* The third has two halves.  What a handler decides is right if the       *)
(* vectors it goes by are those of the data (HandledRight: algebra of      *)
(* permutations, kind by kind).  And they are (HeldInv): as long as        *)
(* somebody waits for an operand, its object says how it was laid out,     *)
(* though objects are shared and may be reset.  What was decided for an    *)
(* operation then stays right, because nobody else touches its permutes,   *)
(* its constants or the layouts it reads (OthersKept).                     *)
(***************************************************************************)
EXTENDS LayoutInference, FiniteSetTheorems, SequenceTheorems, WellFoundedInduction, TLAPS

Ops == DOMAIN graph.ops
In(c) == ToSet(graph.ops[c].ins)
Out(c) == ToSet(graph.ops[c].outs)
Data(c) == In(c) \ Consts
Known == DOMAIN origin

Types ==
  /\ WellFormed(graph.ops, graph.ndim)
  /\ ops = [c \in Ops |-> ops[c]]
  /\ inferred \in [Ops -> 0..1]
  /\ cached \in [Ops -> SUBSET Operand]
  /\ queue \in Seq(Operand)
  /\ todo \subseteq Ops
  /\ \A o \in Known : o \in Operand

\* An operation is what it was until it is inferred; then it reads what it read, or
\* clones of that.
Rewritten ==
  \A c \in Ops : IF inferred[c] = 0 THEN ops[c] = graph.ops[c]
                                    ELSE ToSet(ops[c].ins) \cap Operand \subseteq In(c)

\* The operands whose layout is known are the inputs and what has been made and is read.
KnownInv ==
  /\ Inputs \subseteq Known
  /\ \A o \in Known : o \in Inputs \/ \E c \in Ops : inferred[c] = 1 /\ o \in Out(c)
  /\ \A c, d \in Ops : inferred[c] = 1 => Out(c) \cap In(d) \subseteq Known

\* An operand is queued once.
QueuedOnce ==
  /\ \A j, k \in 1..Len(queue) : queue[j] = queue[k] => j = k
  /\ ToSet(queue) \subseteq Known \ {operand}
  /\ \A c \in todo : operand \in Data(c) \cap Known

\* The operands an operation has been given.
CachedInv ==
  \A c \in Ops : cached[c] = {o \in (Data(c) \cap Known) \ ToSet(queue) : o = operand => c \notin todo}

\* An operation is inferred when it has been given all it reads.
ReadyInv == \A c \in Ops : inferred[c] = 1 <=> Data(c) \subseteq cached[c]

Control == Types /\ Rewritten /\ KnownInv /\ QueuedOnce /\ CachedInv /\ ReadyInv

\* Every object, and every vector of a constant, is a permutation of the axes of
\* all that have it.
Rank(o) == graph.ndim[o]
VectorInv ==
  /\ \A x \in DOMAIN vec : x \in Operand /\ IsPermutation(vec[x], Rank(x))
  /\ \A o \in Known : origin[o] \in DOMAIN vec /\ Rank(origin[o]) = Rank(o)
  /\ \A k \in DOMAIN permOf : k \in DOMAIN perm /\ permOf[k] \in DOMAIN vec /\ Rank(permOf[k]) = Rank(k)
  /\ \A k \in DOMAIN perm : k \in Consts /\ IsPermutation(perm[k], Rank(k))
  /\ \A p \in permutes : IsPermutation(p.perm, Rank(IF p.from \in Operand THEN p.from ELSE p.to))

\* The layouts laid are of all that was made, and an input or output has the one the
\* application knows.
LaidInv ==
  /\ DOMAIN laid = Inputs \cup UNION {Out(c) : c \in {d \in Ops : inferred[d] = 1}}
  /\ \A o \in DOMAIN laid : IsPermutation(laid[o], Rank(o))
  /\ \A o \in DOMAIN laid \cap (Inputs \cup graph.outputs) : laid[o] = Identity(Rank(o))
  /\ graph.outputs \subseteq UNION {Out(c) : c \in Ops}

\* Objects are named by what was made, and those of constants are nobody else's.
ObjectInv ==
  /\ DOMAIN vec \subseteq DOMAIN laid \cup Consts
  /\ \A o \in Known : origin[o] \notin Consts

\* What an operation left behind when it was inferred is its own.
OwnInv ==
  /\ \A c \in Ops : \A x \in DOMAIN graph.ops[c].ins :
       ops[c].ins[x] \in {graph.ops[c].ins[x], Clone(c, graph.ops[c].ins[x])}
  /\ \A c \in Ops : \A x \in DOMAIN graph.ops[c].outs :
       ops[c].outs[x] \in {graph.ops[c].outs[x], Clone(c, graph.ops[c].outs[x])}
  /\ \A p \in permutes : \E c \in Ops : /\ inferred[c] = 1
                                        /\ \/ \E o \in Operand : p.to = Clone(c, o)
                                           \/ \E o \in Operand : p.from = Clone(c, o)
  /\ \A k \in DOMAIN perm : \E c \in Ops : inferred[c] = 1 /\ k \in In(c)

\* Operands that an operation has still to see.
Waiting == {o \in Known : \/ o \in ToSet(queue)
                          \/ o = operand /\ todo # {}
                          \/ \E d \in Ops : o \in cached[d] /\ inferred[d] = 0}

\* An object says what was laid for as long as somebody waits for it.
HeldInv == clobbered \/ \A o \in Waiting : Held(o) = laid[o]

Excused == clobbered \/ ConstReadTwice \/ KernelPermuted

\* An operation that was inferred does with what it reads what it did before.
DoneInv == \A c \in Ops : inferred[c] = 1 => Excused \/ (Agrees(laid, c) /\ Satisfied(laid, c))

Meaning == LaidInv /\ ObjectInv /\ OwnInv /\ HeldInv /\ DoneInv

IInv == Control /\ VectorInv /\ Meaning

-----------------------------------------------------------------------------
(* Sequences without duplicates                                            *)

\* An enumeration of a finite set has every element once.
LEMMA Enumeration ==
  ASSUME NEW S, IsFiniteSet(S), NEW s \in SetToSeqs(S)
  PROVE  /\ s \in Seq(S) /\ ToSet(s) = S
         /\ \A j, k \in 1..Len(s) : s[j] = s[k] => j = k
<1> DEFINE n == Cardinality(S)
<1>1. n \in Nat /\ IsFiniteSet(1..n) /\ Cardinality(1..n) = n
  BY FS_CardinalityType, FS_Interval
<1>2. s \in [1..n -> S] /\ \A j, k \in 1..n : j # k => s[j] # s[k]
  BY DEF SetToSeqs
<1> HIDE DEF n
<1>3. s \in Injection(1..n, S)
  BY <1>2 DEF Injection, IsInjective
<1>4. s \in Surjection(1..n, S)
  BY <1>1, <1>3, FS_Injection DEF n
<1>5. \A x \in S : \E k \in 1..n : s[k] = x
  BY <1>4 DEF Surjection
<1>6. s \in Seq(S) /\ Len(s) = n
  BY <1>1, <1>2
<1> QED
  BY <1>2, <1>5, <1>6 DEF ToSet

LEMMA OneEnumeration ==
  ASSUME NEW S, IsFiniteSet(S)
  PROVE  SetToSeq(S) \in SetToSeqs(S)
<1>1. PICK f \in Bijection(1..Cardinality(S), S) : TRUE
  BY FS_CardinalityType DEF ExistsBijection
<1>2. f \in [1..Cardinality(S) -> S] /\ IsInjective(f)
  BY <1>1 DEF Bijection, Injection
<1>3. SetToSeq(S) \in [1..Cardinality(S) -> S] /\ IsInjective(SetToSeq(S))
  BY <1>2 DEF SetToSeq
<1> QED
  BY <1>3 DEF SetToSeqs, IsInjective

\* Appending new elements, once each.
LEMMA Appended ==
  ASSUME NEW S, NEW s \in Seq(S), NEW t \in Seq(S), ToSet(s) \cap ToSet(t) = {},
         \A j, k \in 1..Len(s) : s[j] = s[k] => j = k,
         \A j, k \in 1..Len(t) : t[j] = t[k] => j = k
  PROVE  /\ s \o t \in Seq(S) /\ ToSet(s \o t) = ToSet(s) \cup ToSet(t)
         /\ \A j, k \in 1..Len(s \o t) : (s \o t)[j] = (s \o t)[k] => j = k
<1> DEFINE u == s \o t
<1>1. /\ u \in Seq(S) /\ Len(u) = Len(s) + Len(t) /\ Len(s) \in Nat /\ Len(t) \in Nat
      /\ \A k \in 1..Len(u) : u[k] = IF k <= Len(s) THEN s[k] ELSE t[k - Len(s)]
  BY ConcatProperties
<1> HIDE DEF u
<1>2. /\ DOMAIN s = 1..Len(s) /\ DOMAIN t = 1..Len(t) /\ DOMAIN u = 1..Len(u)
  BY <1>1
<1>3. \A k \in 1..Len(u) : \/ k \in 1..Len(s) /\ u[k] = s[k]
                           \/ k - Len(s) \in 1..Len(t) /\ ~(k <= Len(s)) /\ u[k] = t[k - Len(s)]
  BY <1>1
<1>4. \A k \in 1..Len(s) : k \in 1..Len(u) /\ u[k] = s[k]
  BY <1>1
<1>5. \A k \in 1..Len(t) : k + Len(s) \in 1..Len(u) /\ u[k + Len(s)] = t[k]
  <2> SUFFICES ASSUME NEW k \in 1..Len(t) PROVE k + Len(s) \in 1..Len(u) /\ u[k + Len(s)] = t[k]
    OBVIOUS
  <2>1. k + Len(s) \in 1..Len(u) /\ ~(k + Len(s) <= Len(s)) /\ (k + Len(s)) - Len(s) = k
    BY <1>1
  <2> QED
    BY <1>1, <2>1
<1>6. ToSet(u) = ToSet(s) \cup ToSet(t)
  <2>1. ToSet(u) \subseteq ToSet(s) \cup ToSet(t)
    BY <1>2, <1>3 DEF ToSet
  <2>2. ToSet(s) \subseteq ToSet(u)
    BY <1>2, <1>4 DEF ToSet
  <2>3. ToSet(t) \subseteq ToSet(u)
    BY <1>2, <1>5 DEF ToSet
  <2> QED
    BY <2>1, <2>2, <2>3
<1>7. ASSUME NEW j \in 1..Len(s), NEW k \in 1..Len(t) PROVE s[j] # t[k]
  <2>1. s[j] \in ToSet(s) /\ t[k] \in ToSet(t)
    BY <1>2 DEF ToSet
  <2> QED
    BY <2>1
<1>8. ASSUME NEW j \in 1..Len(u), NEW k \in 1..Len(u), u[j] = u[k] PROVE j = k
  <2>1. CASE j <= Len(s) /\ k <= Len(s)
    <3>1. j \in 1..Len(s) /\ k \in 1..Len(s) /\ s[j] = s[k]
      BY <1>1, <1>8, <2>1
    <3> QED
      BY <3>1
  <2>2. CASE ~(j <= Len(s)) /\ ~(k <= Len(s))
    <3>1. j - Len(s) \in 1..Len(t) /\ k - Len(s) \in 1..Len(t) /\ t[j - Len(s)] = t[k - Len(s)]
      BY <1>1, <1>8, <2>2
    <3>2. j - Len(s) = k - Len(s)
      BY <3>1
    <3> QED
      BY <1>1, <3>2
  <2>3. CASE j <= Len(s) /\ ~(k <= Len(s))
    BY <1>3, <1>7, <1>8, <2>3
  <2>4. CASE ~(j <= Len(s)) /\ k <= Len(s)
    BY <1>3, <1>7, <1>8, <2>4
  <2> QED
    BY <2>1, <2>2, <2>3, <2>4
<1> QED
  BY <1>1, <1>6, <1>8 DEF u

LEMMA Taken ==
  ASSUME NEW S, NEW s \in Seq(S), s # <<>>, \A j, k \in 1..Len(s) : s[j] = s[k] => j = k
  PROVE  /\ Tail(s) \in Seq(S) /\ Head(s) \in ToSet(s) /\ ToSet(Tail(s)) = ToSet(s) \ {Head(s)}
         /\ \A j, k \in 1..Len(Tail(s)) : Tail(s)[j] = Tail(s)[k] => j = k
<1> DEFINE t == Tail(s)
<1>1. /\ t \in Seq(S) /\ Len(s) \in Nat /\ Len(s) > 0 /\ Len(t) = Len(s) - 1
      /\ \A k \in 1..Len(t) : t[k] = s[k + 1]
      /\ DOMAIN s = 1..Len(s) /\ DOMAIN t = 1..Len(t) /\ Head(s) = s[1]
  OBVIOUS
<1> HIDE DEF t
<1>2. \A k \in 1..Len(t) : k + 1 \in 1..Len(s) /\ k + 1 # 1
  BY <1>1
<1>3. \A k \in 1..Len(s) : k # 1 => k - 1 \in 1..Len(t) /\ t[k - 1] = s[k]
  <2> SUFFICES ASSUME NEW k \in 1..Len(s), k # 1 PROVE k - 1 \in 1..Len(t) /\ t[k - 1] = s[k]
    OBVIOUS
  <2>1. k - 1 \in 1..Len(t) /\ (k - 1) + 1 = k
    BY <1>1
  <2> QED
    BY <1>1, <2>1
<1>4. 1 \in 1..Len(s)
  BY <1>1
<1>5. ToSet(t) \subseteq ToSet(s) \ {s[1]}
  BY <1>1, <1>2, <1>4 DEF ToSet
<1>6. ASSUME NEW x \in ToSet(s), x # s[1] PROVE x \in ToSet(t)
  <2>1. PICK k \in 1..Len(s) : s[k] = x
    BY <1>1 DEF ToSet
  <2>2. k - 1 \in 1..Len(t) /\ t[k - 1] = x
    BY <1>3, <1>6, <2>1
  <2> QED
    BY <1>1, <2>2 DEF ToSet
<1>7. ASSUME NEW j \in 1..Len(t), NEW k \in 1..Len(t), t[j] = t[k] PROVE j = k
  <2>1. j + 1 = k + 1
    BY <1>1, <1>2, <1>7
  <2> QED
    BY <1>1, <2>1
<1>8. Head(s) \in ToSet(s)
  BY <1>1, <1>4 DEF ToSet
<1> QED
  BY <1>1, <1>5, <1>6, <1>7, <1>8 DEF t

-----------------------------------------------------------------------------
(* Models                                                                  *)

LEMMA Constants == /\ Ids \in Nat /\ Inputs \subseteq Operand /\ Consts \subseteq Operand
                   /\ Inputs \cap Consts = {} /\ 0 \notin Operand /\ Operand \subseteq Nat
                   /\ \A S \in SUBSET Operand : IsFiniteSet(S)
<1>1. IsFiniteSet(1..(Ids - 1))
  BY LayoutInferenceAssumption, FS_Interval
<1>2. \A S \in SUBSET Operand : IsFiniteSet(S)
  BY <1>1, FS_Subset DEF Operand
<1> QED
  BY <1>2, LayoutInferenceAssumption DEF Operand

\* Who makes and who reads an operand.
LEMMA Makers ==
  ASSUME WellFormed(graph.ops, graph.ndim)
  PROVE  /\ Ops \subseteq Nat \ {0}
         /\ \A c \in Ops : /\ graph.ops[c] \in Op
                           /\ In(c) \subseteq Operand /\ Out(c) \subseteq Operand
                           /\ Data(c) # {} /\ Out(c) # {}
                           /\ Out(c) \cap (Inputs \cup Consts \cup In(c)) = {}
                           /\ RanksFit(graph.ndim, graph.ops[c])
         /\ \A c, d \in Ops : c # d => Out(c) \cap Out(d) = {}
         /\ \A c \in Ops : \A o \in Data(c) : o \in Inputs \/ \E d \in Ops : d < c /\ o \in Out(d)
<1> DEFINE before(c) == Inputs \cup Consts \cup UNION {Out(d) : d \in 1..(c - 1)}
<1>1. /\ graph.ops \in Seq(Op)
      /\ \A c \in Ops : /\ In(c) \subseteq before(c) /\ In(c) \ Consts # {}
                        /\ Out(c) # {} /\ Out(c) \cap before(c) = {}
                        /\ RanksFit(graph.ndim, graph.ops[c])
  BY DEF WellFormed, Ops, In, Out
<1>2. /\ Ops = 1..Len(graph.ops) /\ Len(graph.ops) \in Nat
      /\ \A c \in Ops : graph.ops[c] \in Op
  BY <1>1 DEF Ops
<1>3. \A c \in Ops : graph.ops[c].ins \in Seq(Operand) /\ graph.ops[c].outs \in Seq(Operand)
  BY <1>2 DEF Op
<1>4. ASSUME NEW c \in Ops PROVE In(c) \subseteq Operand /\ Out(c) \subseteq Operand
  BY <1>3 DEF In, Out, ToSet
<1>5. ASSUME NEW c \in Ops, NEW d \in Ops, d < c PROVE Out(d) \subseteq before(c) /\ Out(c) \cap Out(d) = {}
  <2>1. d \in 1..(c - 1)
    BY <1>2, <1>5
  <2> QED
    BY <1>1, <2>1
<1>6. ASSUME NEW c \in Ops, NEW d \in Ops, c # d PROVE Out(c) \cap Out(d) = {}
  <2>1. c < d \/ d < c
    BY <1>2, <1>6
  <2> QED
    BY <1>5, <2>1
<1>7. ASSUME NEW c \in Ops, NEW o \in Data(c) PROVE o \in Inputs \/ \E d \in Ops : d < c /\ o \in Out(d)
  <2>1. o \in before(c) \ Consts
    BY <1>1 DEF Data
  <2>2. \A d \in 1..(c - 1) : d \in Ops /\ d < c
    BY <1>2
  <2> QED
    BY <2>1, <2>2
<1>8. \A c \in Ops : Out(c) \cap (Inputs \cup Consts \cup In(c)) = {}
  BY <1>1
<1>9. Ops \subseteq Nat \ {0}
  BY <1>2
<1> HIDE DEF before
<1> QED
  BY <1>1, <1>2, <1>4, <1>6, <1>7, <1>8, <1>9 DEF Data

\* A clone is none of the operands the application gave.
LEMMA Clones ==
  ASSUME NEW c \in Nat \ {0}, NEW o \in Operand
  PROVE  Clone(c, o) \notin Operand
<1>1. o \in Nat /\ o > 0 /\ Ids \in Nat
  BY LayoutInferenceAssumption DEF Operand
<1>2. \A m, n \in Nat : m > 0 => m * n >= n
  OBVIOUS
<1>3. c * Ids >= Ids /\ c * Ids \in Nat
  BY <1>1, <1>2
<1> QED
  BY <1>1, <1>3 DEF Clone, Operand

LEMMA Replaced ==
  ASSUME NEW c \in Nat \ {0}, NEW s \in Seq(Operand), NEW S
  PROVE  ToSet(Replace(c, s, S)) \cap Operand \subseteq ToSet(s)
<1> SUFFICES ASSUME NEW x \in DOMAIN s, Replace(c, s, S)[x] \in Operand PROVE s[x] \in ToSet(s) /\ Replace(c, s, S)[x] = s[x]
  BY DEF ToSet, Replace
<1>1. s[x] \in Operand /\ s[x] \in ToSet(s)
  BY DEF ToSet
<1>2. Clone(c, s[x]) \notin Operand
  BY <1>1, Clones
<1> QED
  BY <1>1, <1>2 DEF Replace

-----------------------------------------------------------------------------
(* What the steps do to the variables of the first argument                *)

Enter(c) == {o \in Out(c) : getConsumers(o) # {}} \cup (Out(c) \ graph.outputs)

LEMMA InferControl ==
  ASSUME Types, NEW c \in Ops, ops[c] = graph.ops[c], inferred[c] = 0, NEW has, NEW first, Infer(c, has, first)
  PROVE  /\ ops' = [d \in Ops |-> ops'[d]]
         /\ \A d \in Ops : d # c => ops'[d] = ops[d]
         /\ ToSet(ops'[c].ins) \cap Operand \subseteq In(c)
         /\ Known' = Known \cup Enter(c)
         /\ \E next \in SetToSeqs(Enter(c)) : queue' = queue \o next
         /\ inferred' = [inferred EXCEPT ![c] = 1]
<1>1. \E S, T, a : ops' = [ops EXCEPT ![c].ins = Replace(c, @, S), ![c].outs = Replace(c, @, T), ![c].axis = a]
  BY Zenon DEF Infer
<1>2. PICK S, T, a : ops' = [ops EXCEPT ![c].ins = Replace(c, @, S), ![c].outs = Replace(c, @, T), ![c].axis = a]
  BY <1>1
<1>3. ops[c] \in Op
  BY Makers DEF Types
<1>4. ops' = [d \in Ops |-> ops'[d]] /\ \A d \in Ops : d # c => ops'[d] = ops[d]
  BY <1>2 DEF Types
<1>5. ops'[c].ins = Replace(c, ops[c].ins, S)
  BY <1>2, <1>3 DEF Types, Op
<1>6. ToSet(ops'[c].ins) \cap Operand \subseteq In(c)
  <2>1. ops[c].ins \in Seq(Operand) /\ c \in Nat \ {0}
    BY <1>3, Makers DEF Types, Op
  <2> QED
    BY <1>5, <2>1, Replaced DEF In
<1>7. Known' = Known \cup Enter(c)
  <2> DEFINE outs == ToSet(ops[c].outs)
             object == IF handleLayoutInferenceOnInputs(c, has, first).made = Passed
                       THEN [o \in outs |-> origin[first]] ELSE [o \in outs |-> o]
  <2>1. origin' = With(origin, [o \in {p \in outs : getConsumers(p) # {}} \cup (outs \ graph.outputs) |-> object[o]])
    BY Zenon DEF Infer
  <2>2. Enter(c) = {p \in outs : getConsumers(p) # {}} \cup (outs \ graph.outputs)
    BY DEF Enter, Out
  <2> HIDE DEF object
  <2>3. origin' = With(origin, [o \in Enter(c) |-> object[o]])
    BY <2>1, <2>2, Zenon
  <2> QED
    BY <2>3, Zenon DEF Known, With
<1>8. \E next \in SetToSeqs(Enter(c)) : queue' = queue \o next
  BY Zenon DEF Infer, Enter, Out
<1>9. inferred' = [inferred EXCEPT ![c] = 1]
  <2>1. inferred' = [inferred EXCEPT ![c] = inferred[c] + 1]
    BY Zenon DEF Infer
  <2>2. inferred[c] + 1 = 1
    OBVIOUS
  <2> QED
    BY <2>1, <2>2, Zenon
<1> QED
  BY <1>4, <1>6, <1>7, <1>8, <1>9, Zenon

-----------------------------------------------------------------------------
(* Every operation is inferred once                                        *)

LEMMA InitControl == Init => Control
<1> SUFFICES ASSUME Init PROVE Control
  OBVIOUS
<1>1. PICK g \in Graphs : graph.ops = g.ops /\ graph.ndim = g.ndim
  BY DEF Init
<1>2. WellFormed(g.ops, g.ndim)
  BY LayoutInferenceAssumption
<1>3. WellFormed(graph.ops, graph.ndim)
  BY <1>1, <1>2
<1>4. /\ ops = graph.ops /\ Known = Inputs /\ queue = SetToSeq(Inputs) /\ operand = 0 /\ todo = {}
      /\ cached = [c \in Ops |-> {}] /\ inferred = [c \in Ops |-> 0]
  BY DEF Init, Known, Ops
<1>5. /\ queue \in Seq(Inputs) /\ ToSet(queue) = Inputs
      /\ \A j, k \in 1..Len(queue) : queue[j] = queue[k] => j = k
  BY <1>4, Constants, OneEnumeration, Enumeration
<1>6. queue \in Seq(Operand)
  <2>1. Inputs \subseteq Operand
    BY Constants
  <2> QED
    BY <1>5, <2>1
<1>7. ops = [c \in Ops |-> ops[c]]
  <2>1. graph.ops \in Seq(Op)
    BY <1>3 DEF WellFormed
  <2> QED
    BY <1>4, <2>1 DEF Ops
<1>8. Types
  BY <1>3, <1>4, <1>6, <1>7, Constants DEF Types
<1>9. Rewritten
  BY <1>4 DEF Rewritten
<1>10. KnownInv
  BY <1>4 DEF KnownInv
<1>11. QueuedOnce
  BY <1>4, <1>5, Constants DEF QueuedOnce
<1>12. CachedInv
  BY <1>4, <1>5 DEF CachedInv
<1>13. ReadyInv
  BY <1>3, <1>4, Makers DEF ReadyInv
<1> QED
  BY <1>8, <1>9, <1>10, <1>11, <1>12, <1>13 DEF Control

\* The consumers of an operand that is known are operations that were given reading it.
LEMMA KnownRead ==
  ASSUME Control, NEW o \in Known, NEW c \in Ops
  PROVE  /\ o \in Operand \ Consts
         /\ o \in ToSet(ops[c].ins) => o \in Data(c)
         /\ inferred[c] = 0 => (o \in ToSet(ops[c].ins) <=> o \in Data(c))
<1>1. o \in Operand \ Consts
  BY Makers, Constants DEF Control, Types, KnownInv
<1>2. inferred[c] \in {0, 1}
  BY DEF Control, Types
<1>3. inferred[c] = 0 => ToSet(ops[c].ins) = In(c)
  BY DEF Control, Rewritten, In
<1>4. inferred[c] = 1 => ToSet(ops[c].ins) \cap Operand \subseteq In(c)
  BY DEF Control, Rewritten
<1> QED
  BY <1>1, <1>2, <1>3, <1>4 DEF Data

LEMMA PopControl == ASSUME Control, Pop PROVE Control'
<1> DEFINE h == Head(queue)
<1>1. /\ todo = {} /\ queue # <<>> /\ operand' = h /\ queue' = Tail(queue)
      /\ todo' = getConsumers(h)
      /\ UNCHANGED <<graph, ops, origin, cached, inferred>>
  BY Zenon DEF Pop, getConsumers
<1>2. /\ queue' \in Seq(Operand) /\ h \in ToSet(queue) /\ ToSet(queue') = ToSet(queue) \ {h}
      /\ \A j, k \in 1..Len(queue') : queue'[j] = queue'[k] => j = k
  BY <1>1, Taken DEF Control, Types, QueuedOnce
<1> HIDE DEF h
<1>3. h \in Known
  BY <1>2 DEF Control, QueuedOnce
<1>4. getConsumers(h) \subseteq Ops
  BY DEF getConsumers, Control, Types
<1>5. \A c \in getConsumers(h) : h \in Data(c)
  BY <1>3, <1>4, KnownRead DEF getConsumers
<1>6. ASSUME NEW c \in Ops, h \in Data(c) PROVE c \in getConsumers(h)
  <2>1. h \notin cached[c]
    BY <1>2 DEF Control, CachedInv
  <2>2. inferred[c] = 0
    BY <2>1, <1>6 DEF Control, ReadyInv, Types
  <2>3. c \in DOMAIN ops
    BY DEF Control, Types
  <2> QED
    BY <1>3, <1>6, <2>2, <2>3, KnownRead DEF getConsumers
<1>7. Known' = Known /\ Ops' = Ops /\ \A c : Data(c)' = Data(c) /\ In(c)' = In(c) /\ Out(c)' = Out(c)
  BY <1>1 DEF Known, Ops, In, Out, Data
<1>8. Types'
  <2>1. WellFormed(graph.ops, graph.ndim)'
    BY <1>1, Zenon DEF Control, Types
  <2> QED
    BY <1>1, <1>2, <1>4, <1>7, <2>1 DEF Control, Types
<1>9. Rewritten'
  BY <1>1, <1>7 DEF Control, Rewritten
<1>10. KnownInv'
  BY <1>1, <1>7 DEF Control, KnownInv
<1>11. QueuedOnce'
  BY <1>1, <1>2, <1>3, <1>5, <1>7 DEF Control, QueuedOnce
<1>12. CachedInv'
  <2> SUFFICES ASSUME NEW c \in Ops
               PROVE  cached[c] = {o \in (Data(c) \cap Known) \ (ToSet(queue) \ {h}) : o = h => c \notin getConsumers(h)}
    BY <1>1, <1>2, <1>7 DEF CachedInv
  <2>1. cached[c] = (Data(c) \cap Known) \ ToSet(queue)
    BY <1>1 DEF Control, CachedInv
  <2> QED
    BY <1>2, <1>6, <2>1
<1>13. ReadyInv'
  BY <1>1, <1>7 DEF Control, ReadyInv
<1> QED
  BY <1>8, <1>9, <1>10, <1>11, <1>12, <1>13 DEF Control

\* What a consumer is when the operand is handed out to it.
LEMMA Visited ==
  ASSUME Control, NEW c \in todo
  PROVE  /\ c \in Ops /\ operand \in Data(c) \cap Known
         /\ operand \notin cached[c] /\ inferred[c] = 0 /\ ops[c] = graph.ops[c]
         /\ \A has : isAllInputTensorSetupWithPermute(c, has) <=> Data(c) \subseteq has
<1>1. c \in Ops /\ operand \in Data(c) \cap Known
  BY DEF Control, Types, QueuedOnce
<1>2. operand \notin cached[c]
  BY <1>1 DEF Control, CachedInv
<1>3. inferred[c] = 0
  BY <1>1, <1>2 DEF Control, ReadyInv, Types
<1>4. ops[c] = graph.ops[c]
  BY <1>1, <1>3 DEF Control, Rewritten
<1>5. \A has : isAllInputTensorSetupWithPermute(c, has) <=> Data(c) \subseteq has
  BY <1>4 DEF isAllInputTensorSetupWithPermute, Data, In, IsConst
<1> QED
  BY <1>1, <1>2, <1>3, <1>4, <1>5

\* An operation that is not ready notes the operand.
LEMMA NotedControl ==
  ASSUME Control, NEW c \in todo, ~(Data(c) \subseteq cached[c] \cup {operand}),
         cached' = [cached EXCEPT ![c] = cached[c] \cup {operand}], todo' = todo \ {c},
         UNCHANGED <<graph, ops, origin, queue, operand, inferred>>
  PROVE  Control'
<1>1. Known' = Known /\ Ops' = Ops /\ \A d : Data(d)' = Data(d) /\ In(d)' = In(d) /\ Out(d)' = Out(d)
  BY DEF Known, Ops, In, Out, Data
<1>2. c \in Ops /\ operand \in Data(c) \cap Known /\ inferred[c] = 0
  BY Visited
<1>3. /\ cached' \in [Ops -> SUBSET Operand]
      /\ cached'[c] = cached[c] \cup {operand}
      /\ \A d \in Ops : d # c => cached'[d] = cached[d]
  BY <1>2 DEF Control, Types
<1>4. Types'
  <2>1. WellFormed(graph.ops, graph.ndim)'
    BY Zenon DEF Control, Types
  <2> QED
    BY <1>1, <1>3, <2>1 DEF Control, Types
<1>5. Rewritten'
  BY <1>1 DEF Control, Rewritten
<1>6. KnownInv'
  BY <1>1 DEF Control, KnownInv
<1>7. QueuedOnce'
  BY <1>1 DEF Control, QueuedOnce
<1>8. CachedInv'
  <2> SUFFICES ASSUME NEW d \in Ops
               PROVE  cached'[d] = {o \in (Data(d) \cap Known) \ ToSet(queue) : o = operand => d \notin todo \ {c}}
    BY <1>1 DEF CachedInv
  <2>1. cached[d] = {o \in (Data(d) \cap Known) \ ToSet(queue) : o = operand => d \notin todo}
    BY DEF Control, CachedInv
  <2>2. operand \notin ToSet(queue)
    BY DEF Control, QueuedOnce
  <2> QED
    BY <1>2, <1>3, <2>1, <2>2
<1>9. ReadyInv'
  BY <1>1, <1>2, <1>3 DEF Control, ReadyInv
<1> QED
  BY <1>4, <1>5, <1>6, <1>7, <1>8, <1>9 DEF Control

\* What is handed on after an operation is new, and is all that is read of its outputs.
LEMMA Entering ==
  ASSUME Control, NEW c \in Ops, inferred[c] = 0
  PROVE  /\ Enter(c) \subseteq Out(c) /\ Enter(c) \cap Known = {}
         /\ IsFiniteSet(Enter(c)) /\ Enter(c) \subseteq Operand
         /\ \A d \in Ops : Out(c) \cap In(d) \subseteq Enter(c)
<1>1. Enter(c) \subseteq Out(c)
  BY DEF Enter
<1>2. Out(c) \cap Known = {}
  BY Makers DEF Control, KnownInv, Types
<1>3. IsFiniteSet(Enter(c)) /\ Enter(c) \subseteq Operand
  BY <1>1, Makers, Constants DEF Control, Types
<1>4. ASSUME NEW d \in Ops, NEW o \in Out(c) \cap In(d) PROVE o \in Enter(c)
  <2>1. o \in Data(d)
    BY Makers DEF Data, Control, Types
  <2>2. o \notin cached[d]
    BY <1>2 DEF Control, CachedInv
  <2>3. inferred[d] = 0
    BY <2>1, <2>2 DEF Control, ReadyInv, Types
  <2>4. d \in DOMAIN ops /\ o \in ToSet(ops[d].ins)
    BY <2>3 DEF Control, Types, Rewritten, In
  <2> QED
    BY <2>4 DEF Enter, getConsumers
<1> QED
  BY <1>1, <1>2, <1>3, <1>4

LEMMA InferredControl ==
  ASSUME Control, NEW c \in todo, Data(c) \subseteq cached[c] \cup {operand}, NEW first,
         cached' = [cached EXCEPT ![c] = cached[c] \cup {operand}], todo' = todo \ {c},
         UNCHANGED <<graph, operand>>, Infer(c, cached[c] \cup {operand}, first)
  PROVE  Control'
<1>1. Ops' = Ops /\ \A d : Data(d)' = Data(d) /\ In(d)' = In(d) /\ Out(d)' = Out(d)
  BY DEF Ops, In, Out, Data
<1>2. c \in Ops /\ operand \in Data(c) \cap Known /\ inferred[c] = 0 /\ ops[c] = graph.ops[c]
  BY Visited
<1>3. /\ cached' \in [Ops -> SUBSET Operand]
      /\ cached'[c] = cached[c] \cup {operand}
      /\ \A d \in Ops : d # c => cached'[d] = cached[d]
  BY <1>2 DEF Control, Types
<1>4. /\ ops' = [d \in Ops |-> ops'[d]]
      /\ \A d \in Ops : d # c => ops'[d] = ops[d]
      /\ ToSet(ops'[c].ins) \cap Operand \subseteq In(c)
      /\ Known' = Known \cup Enter(c)
      /\ \E next \in SetToSeqs(Enter(c)) : queue' = queue \o next
      /\ inferred' = [inferred EXCEPT ![c] = 1]
  BY <1>2, InferControl DEF Control
<1>5. /\ Enter(c) \subseteq Out(c) /\ Enter(c) \cap Known = {}
      /\ IsFiniteSet(Enter(c)) /\ Enter(c) \subseteq Operand
      /\ \A d \in Ops : Out(c) \cap In(d) \subseteq Enter(c)
  BY <1>2, Entering
<1>6. /\ queue' \in Seq(Operand) /\ ToSet(queue') = ToSet(queue) \cup Enter(c)
      /\ \A j, k \in 1..Len(queue') : queue'[j] = queue'[k] => j = k
  <2>1. PICK next \in SetToSeqs(Enter(c)) : queue' = queue \o next
    BY <1>4
  <2>2. /\ next \in Seq(Enter(c)) /\ ToSet(next) = Enter(c)
        /\ \A j, k \in 1..Len(next) : next[j] = next[k] => j = k
    BY <1>5, Enumeration
  <2>3. next \in Seq(Operand)
    BY <1>5, <2>2
  <2>4. /\ queue \in Seq(Operand) /\ ToSet(queue) \cap Enter(c) = {}
        /\ \A j, k \in 1..Len(queue) : queue[j] = queue[k] => j = k
    BY <1>5 DEF Control, Types, QueuedOnce
  <2> QED
    BY <2>1, <2>2, <2>3, <2>4, Appended
<1>7. /\ inferred' \in [Ops -> 0..1] /\ inferred'[c] = 1
      /\ \A d \in Ops : d # c => inferred'[d] = inferred[d]
  BY <1>2, <1>4 DEF Control, Types
<1>8. Types'
  <2>1. WellFormed(graph.ops, graph.ndim)'
    BY Zenon DEF Control, Types
  <2>2. \A o \in Known' : o \in Operand
    BY <1>4, <1>5 DEF Control, Types
  <2> QED
    BY <1>1, <1>3, <1>4, <1>6, <1>7, <2>1, <2>2 DEF Control, Types
<1>9. Rewritten'
  BY <1>1, <1>4, <1>7 DEF Control, Rewritten
<1>10. KnownInv'
  <2>1. Inputs \subseteq Known'
    BY <1>4 DEF Control, KnownInv
  <2>2. \A o \in Known' : o \in Inputs \/ \E d \in Ops : inferred'[d] = 1 /\ o \in Out(d)
    BY <1>2, <1>4, <1>5, <1>7 DEF Control, KnownInv
  <2>3. \A d, e \in Ops : inferred'[d] = 1 => Out(d) \cap In(e) \subseteq Known'
    BY <1>2, <1>4, <1>5, <1>7 DEF Control, KnownInv
  <2> QED
    BY <1>1, <2>1, <2>2, <2>3 DEF KnownInv
<1>11. QueuedOnce'
  <2>1. ToSet(queue') \subseteq Known' \ {operand}
    BY <1>2, <1>4, <1>5, <1>6 DEF Control, QueuedOnce
  <2> QED
    BY <1>1, <1>4, <1>6, <2>1 DEF Control, QueuedOnce
<1>12. CachedInv'
  <2> SUFFICES ASSUME NEW d \in Ops
               PROVE  cached'[d] = {o \in (Data(d) \cap Known') \ ToSet(queue') : o = operand => d \notin todo \ {c}}
    BY <1>1 DEF CachedInv
  <2>1. cached[d] = {o \in (Data(d) \cap Known) \ ToSet(queue) : o = operand => d \notin todo}
    BY DEF Control, CachedInv
  <2>2. operand \notin ToSet(queue)
    BY DEF Control, QueuedOnce
  <2>3. (Data(d) \cap Known') \ ToSet(queue') = (Data(d) \cap Known) \ ToSet(queue)
    BY <1>4, <1>5, <1>6
  <2> QED
    BY <1>2, <1>3, <2>1, <2>2, <2>3
<1>13. ReadyInv'
  BY <1>1, <1>2, <1>3, <1>7 DEF Control, ReadyInv
<1> QED
  BY <1>8, <1>9, <1>10, <1>11, <1>12, <1>13 DEF Control

LEMMA VisitControl == ASSUME Control, Visit PROVE Control'
<1>1. PICK c \in todo :
        /\ cached' = [cached EXCEPT ![c] = cached[c] \cup {operand}]
        /\ todo' = todo \ {c}
        /\ IF isAllInputTensorSetupWithPermute(c, cached[c] \cup {operand})
           THEN \E first \in cached[c] \cup {operand} : Infer(c, cached[c] \cup {operand}, first)
           ELSE UNCHANGED <<ops, permutes, perm, permOf, origin, vec, queue, inferred, laid, clobbered>>
  BY Zenon DEF Visit
<1>2. UNCHANGED <<graph, operand>>
  BY DEF Visit
<1>3. isAllInputTensorSetupWithPermute(c, cached[c] \cup {operand}) <=> Data(c) \subseteq cached[c] \cup {operand}
  BY Visited
<1>4. CASE Data(c) \subseteq cached[c] \cup {operand}
  <2>1. PICK first : Infer(c, cached[c] \cup {operand}, first)
    BY <1>1, <1>3, <1>4
  <2> QED
    BY <1>1, <1>2, <1>4, <2>1, InferredControl
<1>5. CASE ~(Data(c) \subseteq cached[c] \cup {operand})
  BY <1>1, <1>2, <1>3, <1>5, NotedControl
<1> QED
  BY <1>4, <1>5

LEMMA ControlStep == ASSUME Control, [Next]_vars PROVE Control'
<1>1. CASE Pop
  BY <1>1, PopControl
<1>2. CASE Visit
  BY <1>2, VisitControl
<1>3. CASE UNCHANGED vars
  <2>1. Types'
    BY <1>3 DEF Control, vars, Types, Ops, Known
  <2> QED
    BY <1>3, <2>1 DEF Control, vars, Types, Rewritten, KnownInv, QueuedOnce, CachedInv, ReadyInv,
                      Ops, In, Out, Data, Known
<1> QED
  BY <1>1, <1>2, <1>3 DEF Next

LEMMA Earliest ==
  ASSUME NEW S, S \subseteq Nat, S # {}
  PROVE  \E m \in S : \A k \in S : ~(k < m)
<1> DEFINE Less == {p \in Nat \X Nat : p[1] < p[2]}
<1>1. IsWellFoundedOn(Less, Nat)
  BY NatLessThanWellFounded, Zenon DEF OpToRel
<1>2. \E x \in S : \A y \in S : ~(<<y, x>> \in Less)
  <2> HIDE DEF Less
  <2> QED
    BY <1>1, WFMin
<1> QED
  BY <1>2

\* When the queue has run empty nothing is left to be inferred.
LEMMA OnceInferred == ASSUME Control PROVE InferredOnce
<1>1. DOMAIN ops = Ops /\ inferred \in [Ops -> 0..1]
  BY DEF Control, Types
<1>2. ASSUME todo = {}, queue = <<>>, NEW c \in Ops, inferred[c] # 1 PROVE FALSE
  <2> DEFINE late == {d \in Ops : inferred[d] # 1}
  <2>1. late \subseteq Nat /\ late # {}
    BY <1>2, Makers DEF Control, Types
  <2>2. PICK d \in late : \A e \in late : ~(e < d)
    BY <2>1, Earliest
  <2>3. ASSUME NEW o \in Data(d) PROVE o \in Known
    <3>1. CASE o \in Inputs
      BY <3>1 DEF Control, KnownInv
    <3>2. CASE \E e \in Ops : e < d /\ o \in Out(e)
      <4>1. PICK e \in Ops : e < d /\ o \in Out(e)
        BY <3>2
      <4>2. inferred[e] = 1
        BY <2>1, <2>2, <4>1, Makers DEF Control, Types
      <4>3. o \in Out(e) \cap In(d)
        BY <4>1 DEF Data
      <4> QED
        BY <2>2, <4>2, <4>3 DEF Control, KnownInv
    <3> QED
      BY <2>2, <3>1, <3>2, Makers DEF Control, Types
  <2>4. ToSet(queue) = {}
    BY <1>2 DEF ToSet
  <2>5. Data(d) \subseteq cached[d]
    BY <1>2, <2>2, <2>3, <2>4 DEF Control, CachedInv
  <2> QED
    BY <2>2, <2>5 DEF Control, ReadyInv
<1>3. \A c \in Ops : inferred[c] <= 1
  BY <1>1
<1> QED
  BY <1>1, <1>2, <1>3 DEF InferredOnce

\* Every operation that is to be rewritten is so, and once, for any models.
THEOREM InferredOnceThm == Spec => []InferredOnce
<1>1. Init => Control
  BY InitControl
<1>2. Control /\ [Next]_vars => Control'
  BY ControlStep
<1>3. Control => InferredOnce
  BY OnceInferred
<1> QED
  BY <1>1, <1>2, <1>3, PTL DEF Spec

-----------------------------------------------------------------------------
(* Permutations                                                            *)

LEMMA Axes == ASSUME NEW n \in Nat
              PROVE  IsFiniteSet(0..(n - 1)) /\ Cardinality(0..(n - 1)) = n
<1>1. CASE n = 0
  <2>1. 0..(n - 1) = {}
    BY <1>1
  <2> QED
    BY <1>1, <2>1, FS_EmptySet
<1>2. CASE n # 0
  <2>1. 0 \in Int /\ n - 1 \in Int /\ 0 <= n - 1 /\ (n - 1) - 0 + 1 = n
    BY <1>2
  <2> QED
    BY <2>1, FS_Interval
<1> QED
  BY <1>1, <1>2

LEMMA Permutation ==
  ASSUME NEW n \in Nat, NEW p, IsPermutation(p, n)
  PROVE  /\ DOMAIN p = 0..(n - 1) /\ Cardinality(DOMAIN p) = n
         /\ \A x \in 0..(n - 1) : p[x] \in 0..(n - 1)
         /\ \A y \in 0..(n - 1) : \E x \in 0..(n - 1) : p[x] = y
         /\ \A x, y \in 0..(n - 1) : p[x] = p[y] => x = y
<1> DEFINE S == 0..(n - 1)
<1>1. IsFiniteSet(S) /\ Cardinality(S) = n
  BY Axes
<1>2. p \in [S -> S] /\ \A y \in S : \E x \in S : p[x] = y
  BY DEF IsPermutation, Range
<1> HIDE DEF S
<1>3. p \in Surjection(S, S)
  BY <1>2 DEF Surjection
<1>4. IsInjective(p)
  BY <1>1, <1>3, FS_SurjSameCardinalityImpliesInj DEF Injection
<1>5. DOMAIN p = S
  BY <1>2
<1>6. \A x, y \in S : p[x] = p[y] => x = y
  BY <1>4, <1>5 DEF IsInjective
<1> QED
  BY <1>1, <1>2, <1>5, <1>6 DEF S

\* To show that something is a permutation it is enough that it is onto.
LEMMA Onto ==
  ASSUME NEW n \in Nat, NEW p, p = [x \in 0..(n - 1) |-> p[x]], \A x \in 0..(n - 1) : p[x] \in 0..(n - 1),
         \A y \in 0..(n - 1) : \E x \in 0..(n - 1) : p[x] = y
  PROVE  IsPermutation(p, n)
BY DEF IsPermutation, Range

LEMMA IdentityPermutation == ASSUME NEW n \in Nat PROVE IsPermutation(Identity(n), n)
BY Onto DEF Identity

LEMMA RequiredPermutation == ASSUME NEW op PROVE IsPermutation(Required(op), 4)
<1>1. CASE op.nhwc
  <2> DEFINE p == [x \in 0..3 |-> NHWC[x + 1]]
  <2>1. p[0] = 0 /\ p[1] = 3 /\ p[2] = 1 /\ p[3] = 2
    BY DEF NHWC
  <2>2. \A x \in 0..3 : x = 0 \/ x = 1 \/ x = 2 \/ x = 3
    OBVIOUS
  <2>3. Required(op) = p
    BY <1>1 DEF Required
  <2>4. p = [x \in 0..3 |-> p[x]]
    OBVIOUS
  <2> HIDE DEF p
  <2>5. \A x \in 0..3 : p[x] \in 0..3
    BY <2>1, <2>2
  <2>6. \A y \in 0..3 : \E x \in 0..3 : p[x] = y
    BY <2>1, <2>2
  <2>7. p \in [0..3 -> 0..3] /\ Range(p) = 0..3
    BY <2>4, <2>5, <2>6 DEF Range
  <2>8. 0..3 = 0..(4 - 1)
    OBVIOUS
  <2> QED
    BY <2>3, <2>7, <2>8 DEF IsPermutation
<1>2. CASE ~op.nhwc
  BY <1>2, IdentityPermutation DEF Required
<1> QED
  BY <1>1, <1>2

LEMMA ReversePermutation ==
  ASSUME NEW n \in Nat, NEW p, IsPermutation(p, n)
  PROVE  /\ IsPermutation(reverse(p), n)
         /\ \A x \in 0..(n - 1) : reverse(p)[x] \in 0..(n - 1) /\ p[reverse(p)[x]] = x
<1> DEFINE S == 0..(n - 1)
           q == reverse(p)
<1>1. /\ DOMAIN p = S /\ \A x \in S : p[x] \in S
      /\ \A y \in S : \E x \in S : p[x] = y
      /\ \A x, y \in S : p[x] = p[y] => x = y
  BY Permutation
<1>2. q = [x \in S |-> q[x]] /\ \A x \in S : q[x] = CHOOSE y \in S : p[y] = x
  BY <1>1 DEF reverse
<1> HIDE DEF S, q
<1>3. \A x \in S : q[x] \in S /\ p[q[x]] = x
  BY <1>1, <1>2
<1>4. \A y \in S : p[y] \in S /\ q[p[y]] = y
  BY <1>1, <1>3
<1>5. \A y \in S : \E x \in S : q[x] = y
  BY <1>4
<1>6. IsPermutation(q, n)
  BY <1>2, <1>3, <1>5, Onto DEF S
<1> QED
  BY <1>3, <1>6 DEF S, q

LEMMA AddPermutation ==
  ASSUME NEW n \in Nat, NEW p, NEW q, IsPermutation(p, n), IsPermutation(q, n)
  PROVE  IsPermutation(add(p, q), n)
<1> DEFINE S == 0..(n - 1)
           r == add(p, q)
<1>1. /\ DOMAIN q = S /\ \A x \in S : p[x] \in S /\ q[x] \in S
      /\ \A y \in S : (\E x \in S : p[x] = y) /\ (\E x \in S : q[x] = y)
  BY Permutation
<1>2. r = [x \in S |-> r[x]] /\ \A x \in S : r[x] = p[q[x]]
  BY <1>1 DEF add
<1> HIDE DEF S, r
<1>3. \A y \in S : \E x \in S : r[x] = y
  BY <1>1, <1>2
<1>4. \A x \in S : r[x] \in S
  BY <1>1, <1>2
<1>5. IsPermutation(r, n)
  BY <1>2, <1>3, <1>4, Onto DEF S
<1> QED
  BY <1>5 DEF r

LEMMA ReducedPermutation ==
  ASSUME NEW n \in Nat, NEW p, IsPermutation(p, n), NEW axis \in 0..(n - 1)
  PROVE  n - 1 \in Nat /\ IsPermutation(Reduced(p, axis), n - 1)
<1> DEFINE S == 0..(n - 1)
           T == 0..(n - 2)
           at == reverse(p)[axis]
           skip(x) == IF x < at THEN x ELSE x + 1
           r == Reduced(p, axis)
<1>1. n - 1 \in Nat /\ 0..((n - 1) - 1) = T
  OBVIOUS
<1>2. /\ DOMAIN p = S /\ Cardinality(DOMAIN p) = n /\ \A x \in S : p[x] \in S
      /\ \A y \in S : \E x \in S : p[x] = y
      /\ \A x, y \in S : p[x] = p[y] => x = y
  BY Permutation
<1>3. at \in S /\ p[at] = axis
  BY ReversePermutation
<1>4. r = [x \in T |-> r[x]] /\ \A x \in T : r[x] = IF p[skip(x)] > axis THEN p[skip(x)] - 1 ELSE p[skip(x)]
  BY <1>2 DEF Reduced
<1> HIDE DEF at, r
<1>5. \A x \in T : skip(x) \in S /\ skip(x) # at
  BY <1>3
<1>6. \A x \in T : p[skip(x)] \in S /\ p[skip(x)] # axis
  BY <1>2, <1>3, <1>5
<1>7. \A x \in T : r[x] \in T
  <2> SUFFICES ASSUME NEW x \in T PROVE r[x] \in T
    OBVIOUS
  <2> DEFINE v == p[skip(x)]
  <2>1. v \in S /\ v # axis /\ r[x] = IF v > axis THEN v - 1 ELSE v
    BY <1>4, <1>6
  <2> HIDE DEF v
  <2> QED
    BY <2>1
<1>8. ASSUME NEW y \in T PROVE \E x \in T : r[x] = y
  <2> DEFINE w == IF y < axis THEN y ELSE y + 1
  <2>1. w \in S /\ w # axis /\ y = IF w > axis THEN w - 1 ELSE w
    OBVIOUS
  <2> HIDE DEF w
  <2>2. PICK z \in S : p[z] = w
    BY <1>2, <2>1
  <2>3. z # at
    BY <1>3, <2>1, <2>2
  <2> DEFINE x == IF z < at THEN z ELSE z - 1
  <2>4. x \in T /\ skip(x) = z
    BY <1>3, <2>3
  <2>5. r[x] = IF w > axis THEN w - 1 ELSE w
    BY <1>4, <2>2, <2>4
  <2> QED
    BY <2>1, <2>4, <2>5
<1> HIDE DEF S, T
<1>9. \A y \in T : \E x \in T : r[x] = y
  BY <1>8
<1> QED
  BY <1>1, <1>4, <1>7, <1>9, Onto DEF r

-----------------------------------------------------------------------------
(* Every vector is a permutation                                           *)

\* What the handler of an operation hands over.
HandedOver(c, first, r) ==
  /\ \A o \in DOMAIN r.align : o \in Operand /\ IsPermutation(r.align[o], Rank(o))
  /\ r.consts \subseteq Consts /\ \A k \in r.consts : Rank(k) = Rank(graph.ops[c].outs[1])
  /\ IF r.made = Passed
     THEN \A o \in Out(c) : Rank(o) = Rank(first)
     ELSE DOMAIN r.made = Out(c) /\ \A o \in Out(c) : IsPermutation(r.made[o], Rank(o))

LEMMA Ranks == ASSUME WellFormed(graph.ops, graph.ndim), NEW o \in Operand PROVE Rank(o) \in Nat
<1>1. graph.ndim \in [Operand -> 0..MAX_RANK]
  BY DEF WellFormed
<1>2. graph.ndim[o] \in 0..10
  BY <1>1 DEF MAX_RANK
<1> QED
  BY <1>2 DEF Rank

LEMMA HeldVector ==
  ASSUME Types, VectorInv, NEW o \in Known
  PROVE  o \in Operand /\ Rank(o) \in Nat /\ IsPermutation(Held(o), Rank(o))
<1>1. o \in Operand /\ Rank(o) \in Nat
  BY Ranks DEF Types
<1>2. origin[o] \in DOMAIN vec /\ Rank(origin[o]) = Rank(o)
  BY DEF VectorInv
<1>3. IsPermutation(vec[origin[o]], Rank(origin[o]))
  BY <1>2 DEF VectorInv
<1> QED
  BY <1>1, <1>2, <1>3 DEF Held

\* What the model says of the operands of an operation.
LEMMA Operands ==
  ASSUME WellFormed(graph.ops, graph.ndim), NEW c \in Ops
  PROVE  LET op == graph.ops[c]
             n == Rank(op.ins[1])
         IN  /\ op.kind \in Kinds /\ n \in Nat /\ (op.kind = "arg" => op.axis \in 0..(n - 1))
             /\ op.ins[1] \in In(c) /\ op.outs[1] \in Out(c)
             /\ \A o \in Operand : Rank(o) \in Nat
             /\ op.kind \in {"pool", "act", "axis", "arg"} => In(c) = {op.ins[1]}
             /\ op.kind \in {"conv", "deconv", "depthwise"} => op.ins[2] \in In(c) /\ (n = 4 => Rank(op.ins[2]) = 4)
             /\ op.kind \in {"conv", "deconv"} => op.ins[1] \notin Consts
             /\ op.kind = "depthwise" => n = 4
             /\ op.kind \in {"elem", "concat"} => \A o \in In(c) : Rank(o) = n
             /\ op.kind \notin {"default", "arg"} => \A o \in Out(c) : Rank(o) = n
             /\ op.kind = "arg" => \A o \in Out(c) : Rank(o) = n - 1
<1> DEFINE op == graph.ops[c]
           n == Rank(op.ins[1])
<1>1. /\ op \in Op /\ In(c) # {} /\ Out(c) # {} /\ RanksFit(graph.ndim, op)
      /\ In(c) \subseteq Operand
  BY Makers DEF Data
<1>2. /\ op.kind \in Kinds /\ op.ins \in Seq(Operand) /\ op.outs \in Seq(Operand)
      /\ In(c) = ToSet(op.ins) /\ Out(c) = ToSet(op.outs)
  BY <1>1 DEF Op, In, Out
<1> HIDE DEF op
<1>3. Len(op.ins) \in Nat /\ Len(op.outs) \in Nat /\ DOMAIN op.ins = 1..Len(op.ins) /\ DOMAIN op.outs = 1..Len(op.outs)
  BY <1>2
<1>4. /\ op.ins[1] \in In(c) /\ op.outs[1] \in Out(c)
      /\ Len(op.ins) = 1 => In(c) = {op.ins[1]}
      /\ Len(op.ins) = 2 => op.ins[2] \in In(c)
  <2>1. 1 \in DOMAIN op.ins /\ 1 \in DOMAIN op.outs
    BY <1>1, <1>2, <1>3 DEF ToSet
  <2> QED
    BY <1>2, <1>3, <2>1 DEF ToSet
<1>5. \A o \in Operand : Rank(o) \in Nat
  BY Ranks
<1>6. /\ op.kind \in {"pool", "act", "axis", "arg"} => Len(op.ins) = 1
      /\ op.kind \in {"conv", "deconv", "depthwise"} => Len(op.ins) = 2 /\ (n = 4 => Rank(op.ins[2]) = 4)
      /\ op.kind \in {"conv", "deconv"} => op.ins[1] \notin Consts
      /\ op.kind = "depthwise" => n = 4
      /\ op.kind \in {"elem", "concat"} => \A o \in In(c) : Rank(o) = n
      /\ op.kind # "default" => \A o \in Out(c) : Rank(o) = IF op.kind = "arg" THEN n - 1 ELSE n
      /\ op.kind = "arg" => op.axis \in 0..(n - 1)
  BY <1>1, <1>2 DEF RanksFit, Rank
<1>7. n \in Nat
  BY <1>1, <1>4, <1>5
<1> HIDE DEF n
<1>8. /\ op.kind \notin {"default", "arg"} => \A o \in Out(c) : Rank(o) = n
      /\ op.kind = "arg" => \A o \in Out(c) : Rank(o) = n - 1
  BY <1>6
<1> QED
  BY <1>2, <1>4, <1>5, <1>6, <1>7, <1>8 DEF op, n

\* The two inputs of a depthwise convolution have four axes.
LEMMA DepthwiseRanks ==
  ASSUME WellFormed(graph.ops, graph.ndim), NEW c \in Ops, graph.ops[c].kind = "depthwise"
  PROVE  \A o \in In(c) : Rank(o) = 4
<1>1. graph.ops[c] \in Op /\ RanksFit(graph.ndim, graph.ops[c])
  BY Makers
<1>2. graph.ops[c].ins \in Seq(Operand) /\ Len(graph.ops[c].ins) = 2
  BY <1>1 DEF Op, RanksFit
<1>3. Rank(graph.ops[c].ins[1]) = 4 /\ Rank(graph.ops[c].ins[2]) = 4
  BY <1>1 DEF RanksFit, Rank
<1>4. DOMAIN graph.ops[c].ins = {1, 2}
  BY <1>2
<1> QED
  BY <1>3, <1>4 DEF In, ToSet

LEMMA Handled ==
  ASSUME Control, VectorInv, NEW c \in Ops, ops[c] = graph.ops[c], Data(c) \subseteq Known,
         NEW first \in Data(c)
  PROVE  HandedOver(c, first, handleLayoutInferenceOnInputs(c, Data(c), first))
<1> DEFINE op == graph.ops[c]
           n == Rank(op.ins[1])
           r == handleLayoutInferenceOnInputs(c, Data(c), first)
<1>1. Types /\ WellFormed(graph.ops, graph.ndim)
  BY DEF Control, Types
<1>2. \A o \in Data(c) : o \in Operand /\ Rank(o) \in Nat /\ IsPermutation(Held(o), Rank(o))
  BY <1>1, HeldVector
<1>3. \A o \in Data(c) : IsPermutation(reverse(Held(o)), Rank(o))
  BY <1>2, ReversePermutation
<1>4. Out(c) # {} /\ Out(c) \subseteq Operand /\ In(c) \subseteq Operand /\ ops[c] = op
  BY <1>1, Makers
<1>5. /\ op.kind \in Kinds /\ n \in Nat /\ (op.kind = "arg" => op.axis \in 0..(n - 1))
      /\ op.ins[1] \in In(c) /\ op.outs[1] \in Out(c)
      /\ \A o \in Operand : Rank(o) \in Nat
      /\ op.kind \in {"pool", "act", "axis", "arg"} => In(c) = {op.ins[1]}
      /\ op.kind \in {"conv", "deconv", "depthwise"} => op.ins[2] \in In(c) /\ (n = 4 => Rank(op.ins[2]) = 4)
      /\ op.kind \in {"conv", "deconv"} => op.ins[1] \notin Consts
      /\ op.kind = "depthwise" => n = 4
      /\ op.kind \in {"elem", "concat"} => \A o \in In(c) : Rank(o) = n
      /\ op.kind \notin {"default", "arg"} => \A o \in Out(c) : Rank(o) = n
      /\ op.kind = "arg" => \A o \in Out(c) : Rank(o) = n - 1
  BY <1>1, Operands
<1>6. In(c) = ToSet(op.ins) /\ Out(c) = ToSet(op.outs)
  BY DEF In, Out
<1> HIDE DEF op, n
<1>7. \A f : f = [o \in Out(c) |-> f[o]] => f # Passed
  <2>1. DOMAIN Passed = {}
    BY DEF Passed
  <2> QED
    BY <1>4, <2>1
<1>8. CASE op.kind \in {"elem", "concat"}
  <2> DEFINE align == [o \in Data(c) \ {first} |-> add(reverse(Held(o)), Held(first))]
             kept == {k \in In(c) : IsConst(k)}
             axis == IF op.kind = "concat" THEN axisMapTo(Held(first), op.axis) ELSE op.axis
  <2>1. r = Outcome(align, kept, Passed, axis)
    BY <1>4, <1>6, <1>8, Zenon DEF handleLayoutInferenceOnInputs, AlignInputs
  <2>2. \A o \in Data(c) : Rank(o) = n
    BY <1>5, <1>8 DEF Data
  <2>3. ASSUME NEW o \in DOMAIN align PROVE o \in Operand /\ IsPermutation(align[o], Rank(o))
    BY <1>2, <1>3, <1>5, <2>2, AddPermutation
  <2> HIDE DEF align, axis
  <2>4. r.align = align /\ r.consts = kept /\ r.made = Passed
    BY <2>1 DEF Outcome
  <2>5. kept \subseteq Consts /\ \A k \in kept : Rank(k) = Rank(op.outs[1])
    BY <1>5, <1>8 DEF IsConst
  <2>6. \A o \in Out(c) : Rank(o) = Rank(first)
    BY <1>5, <1>8, <2>2
  <2> HIDE DEF kept, r
  <2> QED
    BY <2>3, <2>4, <2>5, <2>6 DEF HandedOver, op, r
<1>9. CASE op.kind \in {"act", "axis"}
  <2>1. r = PassOn(c)
    BY <1>4, <1>9, Zenon DEF handleLayoutInferenceOnInputs
  <2>2. r.align = <<>> /\ r.consts = {} /\ r.made = Passed
    BY <2>1 DEF PassOn, Outcome
  <2>3. \A o \in Out(c) : Rank(o) = Rank(first)
    BY <1>5, <1>9 DEF Data, n
  <2> HIDE DEF r
  <2> QED
    BY <2>2, <2>3 DEF HandedOver, r
<1>10. CASE op.kind = "arg"
  <2> DEFINE p == Held(op.ins[1])
             made == [o \in Out(c) |-> Reduced(p, op.axis)]
  <2>1. r = Outcome(<<>>, {}, made, axisMapTo(p, op.axis))
    BY <1>4, <1>6, <1>10, Zenon DEF handleLayoutInferenceOnInputs, ArgXXX
  <2>2. op.ins[1] \in Data(c)
    BY <1>5, <1>10 DEF Data
  <2>3. IsPermutation(Reduced(p, op.axis), n - 1)
    BY <1>2, <1>5, <1>10, <2>2, ReducedPermutation DEF n
  <2>4. made # Passed
    BY <1>7
  <2>5. DOMAIN made = Out(c) /\ \A o \in Out(c) : IsPermutation(made[o], Rank(o))
    BY <1>5, <1>10, <2>3
  <2> HIDE DEF made, p
  <2>6. r.align = <<>> /\ r.consts = {} /\ r.made = made
    BY <2>1 DEF Outcome
  <2> HIDE DEF r
  <2> QED
    BY <2>4, <2>5, <2>6 DEF HandedOver, r
<1>11. CASE op.kind \in {"pool", "conv", "deconv"} /\ n = 4
  <2> DEFINE data == op.ins[1]
             kernels == IF op.kind # "pool" /\ op.nhwc THEN {op.ins[2]} ELSE {}
             needed == add(reverse(Held(data)), Required(op))
             align == [o \in {data} \cup {k \in kernels : ~IsConst(k)} |->
                         CASE o # data -> Required(op)
                           [] o = data /\ o \in kernels -> add(Required(op), needed)
                           [] OTHER -> needed]
             consts == {k \in kernels : IsConst(k)}
             made == [o \in Out(c) |-> Required(op)]
  <2>1. r = Outcome(align, consts, made, op.axis)
    <3>1. r = ToDriver(c)
      BY <1>4, <1>11, Zenon DEF handleLayoutInferenceOnInputs, n, Rank
    <3> QED
      BY <1>4, <1>6, <3>1, Zenon DEF ToDriver
  <2>2. data \in Data(c) /\ Rank(data) = 4
    BY <1>5, <1>11 DEF Data, n
  <2>3. kernels \subseteq In(c) /\ \A k \in kernels : k \in Operand /\ Rank(k) = 4
    BY <1>4, <1>5, <1>11
  <2>4. /\ IsPermutation(Required(op), 4) /\ IsPermutation(needed, 4)
        /\ IsPermutation(add(Required(op), needed), 4)
    BY <1>3, <2>2, AddPermutation, RequiredPermutation
  <2> HIDE DEF data, kernels, needed
  <2>5. ASSUME NEW o \in DOMAIN align PROVE o \in Operand /\ IsPermutation(align[o], Rank(o))
    BY <1>2, <2>2, <2>3, <2>4
  <2>6. consts \subseteq Consts /\ \A k \in consts : Rank(k) = Rank(op.outs[1])
    BY <1>5, <1>11, <2>3 DEF IsConst
  <2>7. made # Passed
    BY <1>7
  <2>8. DOMAIN made = Out(c) /\ \A o \in Out(c) : IsPermutation(made[o], Rank(o))
    BY <1>5, <1>11, <2>4
  <2> HIDE DEF made, align, consts
  <2>9. r.align = align /\ r.consts = consts /\ r.made = made
    BY <2>1 DEF Outcome
  <2> HIDE DEF r
  <2> QED
    BY <2>5, <2>6, <2>7, <2>8, <2>9 DEF HandedOver, r, op
<1>12. CASE op.kind = "default" \/ (op.kind \in {"pool", "deconv"} /\ n # 4)
  <2> DEFINE align == [o \in Data(c) |-> reverse(Held(o))]
             made == [o \in Out(c) |-> Identity(graph.ndim[o])]
  <2>1. r = Outcome(align, {}, made, op.axis)
    <3>1. r = Default(c, Data(c))
      BY <1>4, <1>12 DEF handleLayoutInferenceOnInputs, n, Rank
    <3> QED
      BY <1>4, <1>6, <3>1, Zenon DEF Default
  <2>2. ASSUME NEW o \in DOMAIN align PROVE o \in Operand /\ IsPermutation(align[o], Rank(o))
    BY <1>2, <1>3
  <2>3. made # Passed
    BY <1>7
  <2>4. DOMAIN made = Out(c) /\ \A o \in Out(c) : IsPermutation(made[o], Rank(o))
    BY <1>4, <1>5, IdentityPermutation DEF Rank
  <2> HIDE DEF made, align
  <2>5. r.align = align /\ r.consts = {} /\ r.made = made
    BY <2>1 DEF Outcome
  <2> HIDE DEF r
  <2> QED
    BY <2>2, <2>3, <2>4, <2>5 DEF HandedOver, r
<1>13. CASE op.kind = "conv" /\ n # 4
  <2> DEFINE align == [o \in {op.ins[1]} |-> reverse(Held(o))]
             made == [o \in Out(c) |-> Identity(graph.ndim[o])]
  <2>1. r = Outcome(align, {}, made, op.axis)
    <3>1. r = DataOnly(c)
      BY <1>4, <1>13, Zenon DEF handleLayoutInferenceOnInputs, n, Rank
    <3> QED
      BY <1>4, <1>6, <3>1, Zenon DEF DataOnly
  <2>2. ASSUME NEW o \in DOMAIN align PROVE o \in Operand /\ IsPermutation(align[o], Rank(o))
    <3>1. op.ins[1] \in Data(c)
      BY <1>5, <1>13 DEF Data
    <3> QED
      BY <1>2, <1>3, <3>1
  <2>3. made # Passed
    BY <1>7
  <2>4. DOMAIN made = Out(c) /\ \A o \in Out(c) : IsPermutation(made[o], Rank(o))
    BY <1>4, <1>5, IdentityPermutation DEF Rank
  <2> HIDE DEF made, align
  <2>5. r.align = align /\ r.consts = {} /\ r.made = made
    BY <2>1 DEF Outcome
  <2> HIDE DEF r
  <2> QED
    BY <2>2, <2>3, <2>4, <2>5 DEF HandedOver, r
<1>14. CASE op.kind = "depthwise"
  <2> DEFINE align == [o \in Data(c) |-> add(reverse(Held(o)), Required(op))]
             consts == {k \in In(c) : op.nhwc /\ IsConst(k)}
             made == [o \in Out(c) |-> Required(op)]
  <2>1. r = Outcome(align, consts, made, op.axis)
    <3>1. r = AllToDriver(c, Data(c))
      BY <1>4, <1>14, Zenon DEF handleLayoutInferenceOnInputs
    <3> QED
      BY <1>4, <1>6, <3>1, Zenon DEF AllToDriver
  <2>2. \A o \in In(c) : Rank(o) = 4
    BY <1>1, <1>14, DepthwiseRanks DEF op
  <2>3. IsPermutation(Required(op), 4)
    BY RequiredPermutation
  <2>4. ASSUME NEW o \in DOMAIN align PROVE o \in Operand /\ IsPermutation(align[o], Rank(o))
    <3>1. o \in Data(c) /\ Rank(o) = 4
      BY <2>2 DEF Data
    <3> QED
      BY <1>2, <1>3, <2>3, <3>1, AddPermutation
  <2>5. consts \subseteq Consts /\ \A k \in consts : Rank(k) = Rank(op.outs[1])
    BY <1>5, <1>14, <2>2 DEF IsConst
  <2>6. made # Passed
    BY <1>7
  <2>7. DOMAIN made = Out(c) /\ \A o \in Out(c) : IsPermutation(made[o], Rank(o))
    BY <1>5, <1>14, <2>3
  <2> HIDE DEF made, align, consts
  <2>8. r.align = align /\ r.consts = consts /\ r.made = made
    BY <2>1 DEF Outcome
  <2> HIDE DEF r
  <2> QED
    BY <2>4, <2>5, <2>6, <2>7, <2>8 DEF HandedOver, r, op
<1>15. \/ op.kind \in {"elem", "concat"}
       \/ op.kind \in {"act", "axis"}
       \/ op.kind = "arg"
       \/ op.kind \in {"pool", "conv", "deconv"} /\ n = 4
       \/ op.kind = "default" \/ (op.kind \in {"pool", "deconv"} /\ n # 4)
       \/ op.kind = "conv" /\ n # 4
       \/ op.kind = "depthwise"
  BY <1>5 DEF Kinds
<1> HIDE DEF r
<1> QED
  BY <1>8, <1>9, <1>10, <1>11, <1>12, <1>13, <1>14, <1>15

LEMMA InferVectors ==
  ASSUME Control, VectorInv, NEW c \in Ops, ops[c] = graph.ops[c], inferred[c] = 0, Data(c) \subseteq Known,
         NEW first \in Data(c), UNCHANGED graph, Infer(c, Data(c), first)
  PROVE  VectorInv'
<1> DEFINE r == handleLayoutInferenceOnInputs(c, Data(c), first)
           outs == ToSet(ops[c].outs)
           before == {o \in DOMAIN r.align : ~isAligned(r.align[o])}
           object == IF r.made = Passed THEN [o \in outs |-> origin[first]] ELSE [o \in outs |-> o]
           value == With(vec, r.made)
           layout(o) == value[object[o]]
           after == {o \in outs \cap graph.outputs : ~isAligned(reverse(layout(o)))}
           read == {o \in outs : getConsumers(o) # {}}
           reset == {object[o] : o \in read \cap graph.outputs}
           const == [k \in r.consts |-> permuteConst(k, layout(ops[c].outs[1]))]
           turned == {k \in r.consts : ~isAligned(const[k])}
           remade == turned \cap DOMAIN permOf
           settled == [x \in DOMAIN value |->
                         IF x \in reset THEN Identity(Cardinality(DOMAIN value[x])) ELSE value[x]]
           enter == read \cup (outs \ graph.outputs)
           made == [k \in turned |-> IF k \in remade THEN k ELSE object[ops[c].outs[1]]]
           permuted == {[perm |-> r.align[o], from |-> o, to |-> Clone(c, o)] : o \in before}
           undone == {[perm |-> reverse(layout(o)), from |-> Clone(c, o), to |-> o] : o \in after}
<1>1. /\ permutes' = permutes \cup permuted \cup undone
      /\ perm' = With(perm, const)
      /\ permOf' = With(permOf, made)
      /\ origin' = With(origin, [o \in enter |-> object[o]])
      /\ vec' = With(settled, [k \in remade |-> const[k]])
  BY Zenon DEF Infer
<1>2. Types /\ WellFormed(graph.ops, graph.ndim)
  BY DEF Control, Types
<1>3. /\ outs = Out(c) /\ outs \subseteq Operand /\ ops[c].outs[1] \in outs /\ c \in Nat \ {0}
      /\ \A o \in Operand : Rank(o) \in Nat
  BY <1>2, Makers, Operands DEF Out
<1>4. HandedOver(c, first, r)
  BY Handled
<1>5. /\ \A o \in DOMAIN r.align : o \in Operand /\ IsPermutation(r.align[o], Rank(o))
      /\ r.consts \subseteq Consts /\ \A k \in r.consts : k \in Operand /\ Rank(k) = Rank(ops[c].outs[1])
      /\ IF r.made = Passed
         THEN \A o \in outs : Rank(o) = Rank(first)
         ELSE DOMAIN r.made = outs /\ \A o \in outs : IsPermutation(r.made[o], Rank(o))
  BY <1>3, <1>4, Constants DEF HandedOver
<1> HIDE DEF r, outs
<1>6. /\ \A x \in DOMAIN value : x \in Operand /\ IsPermutation(value[x], Rank(x))
      /\ DOMAIN vec \subseteq DOMAIN value
  <2>1. /\ DOMAIN value = DOMAIN vec \cup DOMAIN r.made
        /\ \A x \in DOMAIN r.made : value[x] = r.made[x]
        /\ \A x \in DOMAIN vec : x \notin DOMAIN r.made => value[x] = vec[x]
    BY DEF With
  <2> HIDE DEF value
  <2>2. DOMAIN Passed = {}
    BY DEF Passed
  <2>3. ASSUME NEW x \in DOMAIN r.made PROVE x \in Operand /\ IsPermutation(r.made[x], Rank(x))
    BY <1>3, <1>5, <2>2
  <2> QED
    BY <2>1, <2>3 DEF VectorInv
<1>7. ASSUME NEW o \in outs PROVE object[o] \in DOMAIN value /\ Rank(object[o]) = Rank(o)
  <2>1. CASE r.made = Passed
    BY <1>5, <1>6, <2>1 DEF VectorInv
  <2>2. CASE r.made # Passed
    <3>1. DOMAIN r.made \subseteq DOMAIN value
      BY DEF With
    <3> HIDE DEF value
    <3> QED
      BY <1>5, <2>2, <3>1
  <2> QED
    BY <2>1, <2>2
<1> HIDE DEF value, object
<1>8. ASSUME NEW o \in outs PROVE IsPermutation(layout(o), Rank(o)) /\ IsPermutation(reverse(layout(o)), Rank(o))
  <2>1. IsPermutation(layout(o), Rank(o))
    BY <1>6, <1>7
  <2> QED
    BY <1>3, <2>1, ReversePermutation
<1>9. ASSUME NEW k \in r.consts PROVE IsPermutation(const[k], Rank(k))
  <2> DEFINE p == layout(ops[c].outs[1])
  <2>1. IsPermutation(p, Rank(k)) /\ Rank(k) \in Nat
    BY <1>3, <1>5, <1>8, Zenon
  <2>2. const[k] = permuteConst(k, p)
    OBVIOUS
  <2> HIDE DEF p
  <2>3. CASE k \in DOMAIN permOf
    <3>1. IsPermutation(vec[permOf[k]], Rank(k))
      BY <2>3 DEF VectorInv
    <3>2. IsPermutation(add(reverse(vec[permOf[k]]), p), Rank(k))
      BY <2>1, <3>1, ReversePermutation, AddPermutation, Zenon
    <3> QED
      BY <2>2, <2>3, <3>2, Zenon DEF permuteConst
  <2>4. CASE k \notin DOMAIN permOf
    BY <2>1, <2>2, <2>4 DEF permuteConst
  <2> QED
    BY <2>3, <2>4
<1>10. /\ DOMAIN settled = DOMAIN value
       /\ \A x \in DOMAIN settled : x \in Operand /\ IsPermutation(settled[x], Rank(x))
  <2> SUFFICES ASSUME NEW x \in DOMAIN value
               PROVE  x \in Operand /\ IsPermutation(IF x \in reset THEN Identity(Cardinality(DOMAIN value[x])) ELSE value[x], Rank(x))
    OBVIOUS
  <2>1. x \in Operand /\ Rank(x) \in Nat /\ IsPermutation(value[x], Rank(x))
    BY <1>3, <1>6
  <2>2. Cardinality(DOMAIN value[x]) = Rank(x)
    BY <2>1, Permutation
  <2>3. IsPermutation(Identity(Rank(x)), Rank(x))
    BY <2>1, IdentityPermutation, Zenon
  <2> QED
    BY <2>1, <2>2, <2>3
<1>11. /\ turned \subseteq r.consts /\ remade \subseteq turned /\ DOMAIN const = r.consts
       /\ before \subseteq DOMAIN r.align /\ after \subseteq outs /\ enter \subseteq outs
  OBVIOUS
<1> HIDE DEF settled, const, before, after, turned, remade, read, reset, enter
<1>12. /\ DOMAIN vec' = DOMAIN value \cup remade
       /\ \A x \in DOMAIN vec' : x \in Operand /\ IsPermutation(vec'[x], Rank(x))
  <2> DEFINE entries == [k \in remade |-> const[k]]
  <2>1. vec' = With(settled, entries)
    BY <1>1
  <2>2. DOMAIN entries = remade /\ \A k \in remade : entries[k] = const[k]
    OBVIOUS
  <2> HIDE DEF entries
  <2>3. /\ DOMAIN vec' = DOMAIN settled \cup DOMAIN entries
        /\ \A x \in DOMAIN entries : vec'[x] = entries[x]
        /\ \A x \in DOMAIN settled : x \notin DOMAIN entries => vec'[x] = settled[x]
    BY <2>1 DEF With
  <2>4. ASSUME NEW k \in remade PROVE k \in Operand /\ IsPermutation(const[k], Rank(k))
    BY <1>5, <1>9, <1>11
  <2> QED
    BY <1>10, <2>2, <2>3, <2>4
<1>13. \A o \in Known' : origin'[o] \in DOMAIN vec' /\ Rank(origin'[o]) = Rank(o)
  <2> DEFINE entries == [o \in enter |-> object[o]]
  <2>1. origin' = With(origin, entries)
    BY <1>1
  <2>2. DOMAIN entries = enter /\ \A o \in enter : entries[o] = object[o]
    OBVIOUS
  <2> HIDE DEF entries
  <2>3. /\ Known' = Known \cup DOMAIN entries
        /\ \A o \in DOMAIN entries : origin'[o] = entries[o]
        /\ \A o \in Known : o \notin DOMAIN entries => origin'[o] = origin[o]
    BY <2>1 DEF Known, With
  <2>4. ASSUME NEW o \in Known PROVE origin[o] \in DOMAIN vec' /\ Rank(origin[o]) = Rank(o)
    BY <1>6, <1>12 DEF VectorInv
  <2>5. ASSUME NEW o \in enter PROVE object[o] \in DOMAIN vec' /\ Rank(object[o]) = Rank(o)
    BY <1>7, <1>11, <1>12
  <2> QED
    BY <2>2, <2>3, <2>4, <2>5
<1>14. \A k \in DOMAIN perm' : k \in Consts /\ IsPermutation(perm'[k], Rank(k))
  <2>1. /\ DOMAIN perm' = DOMAIN perm \cup r.consts
        /\ \A k \in r.consts : perm'[k] = const[k]
        /\ \A k \in DOMAIN perm : k \notin r.consts => perm'[k] = perm[k]
    BY <1>1, <1>11 DEF With
  <2> QED
    BY <1>5, <1>9, <2>1 DEF VectorInv
<1>15. \A k \in DOMAIN permOf' : k \in DOMAIN perm' /\ permOf'[k] \in DOMAIN vec' /\ Rank(permOf'[k]) = Rank(k)
  <2>1. DOMAIN made = turned /\ \A k \in turned : made[k] = IF k \in remade THEN k ELSE object[ops[c].outs[1]]
    OBVIOUS
  <2> HIDE DEF made
  <2>2. /\ DOMAIN permOf' = DOMAIN permOf \cup turned
        /\ \A k \in turned : permOf'[k] = made[k]
        /\ \A k \in DOMAIN permOf : k \notin turned => permOf'[k] = permOf[k]
    BY <1>1, <2>1 DEF With
  <2>3. DOMAIN perm' = DOMAIN perm \cup r.consts
    BY <1>1, <1>11 DEF With
  <2>4. ASSUME NEW k \in turned PROVE made[k] \in DOMAIN vec' /\ Rank(made[k]) = Rank(k)
    BY <1>3, <1>5, <1>7, <1>11, <1>12, <2>1
  <2>5. ASSUME NEW k \in DOMAIN permOf
        PROVE  k \in DOMAIN perm /\ permOf[k] \in DOMAIN vec' /\ Rank(permOf[k]) = Rank(k)
    BY <1>6, <1>12 DEF VectorInv
  <2> QED
    BY <1>11, <2>2, <2>3, <2>4, <2>5
<1>16. \A p \in permutes' : IsPermutation(p.perm, Rank(IF p.from \in Operand THEN p.from ELSE p.to))
  <2>1. ASSUME NEW p \in permuted PROVE IsPermutation(p.perm, Rank(IF p.from \in Operand THEN p.from ELSE p.to))
    <3>1. PICK o \in before : p = [perm |-> r.align[o], from |-> o, to |-> Clone(c, o)]
      BY <2>1
    <3>2. p.perm = r.align[o] /\ p.from = o
      BY <3>1
    <3> QED
      BY <1>5, <1>11, <3>2
  <2>2. ASSUME NEW p \in undone PROVE IsPermutation(p.perm, Rank(IF p.from \in Operand THEN p.from ELSE p.to))
    <3>1. PICK o \in after : p = [perm |-> reverse(layout(o)), from |-> Clone(c, o), to |-> o]
      BY <2>2
    <3>2. p.perm = reverse(layout(o)) /\ p.from = Clone(c, o) /\ p.to = o
      BY <3>1
    <3>3. o \in outs /\ Clone(c, o) \notin Operand
      BY <1>3, <1>11, Clones
    <3> QED
      BY <1>8, <3>2, <3>3
  <2> HIDE DEF permuted, undone
  <2> QED
    BY <1>1, <2>1, <2>2 DEF VectorInv
<1>17. \A o : Rank(o)' = Rank(o)
  BY DEF Rank
<1> QED
  BY <1>12, <1>13, <1>14, <1>15, <1>16, <1>17 DEF VectorInv

LEMMA InitVectors == Init => VectorInv
<1> SUFFICES ASSUME Init PROVE VectorInv
  OBVIOUS
<1>1. Control
  BY InitControl
<1>2. /\ permutes = {} /\ perm = <<>> /\ permOf = <<>>
      /\ origin = [o \in Inputs |-> o] /\ vec = [o \in Inputs |-> Identity(Rank(o))]
  BY DEF Init, Rank
<1>3. \A o \in Inputs : o \in Operand /\ Rank(o) \in Nat
  BY <1>1, Constants, Ranks DEF Control, Types
<1>4. \A o \in Inputs : IsPermutation(Identity(Rank(o)), Rank(o))
  BY <1>3, IdentityPermutation
<1> QED
  BY <1>2, <1>3, <1>4 DEF VectorInv, Known

LEMMA VectorStep == ASSUME IInv, [Next]_vars PROVE VectorInv'
<1>1. Control /\ VectorInv
  BY DEF IInv
<1>2. ASSUME UNCHANGED <<graph, permutes, perm, permOf, origin, vec>> PROVE VectorInv'
  BY <1>1, <1>2 DEF VectorInv, Known, Rank
<1>3. CASE Pop
  BY <1>2, <1>3, Zenon DEF Pop
<1>4. CASE Visit
  <2>1. PICK c \in todo :
          IF isAllInputTensorSetupWithPermute(c, cached[c] \cup {operand})
          THEN \E first \in cached[c] \cup {operand} : Infer(c, cached[c] \cup {operand}, first)
          ELSE UNCHANGED <<ops, permutes, perm, permOf, origin, vec, queue, inferred, laid, clobbered>>
    BY <1>4, Zenon DEF Visit
  <2>2. UNCHANGED graph
    BY <1>4 DEF Visit
  <2> DEFINE has == cached[c] \cup {operand}
  <2>3. /\ c \in Ops /\ operand \in Data(c) \cap Known /\ inferred[c] = 0 /\ ops[c] = graph.ops[c]
        /\ isAllInputTensorSetupWithPermute(c, has) <=> Data(c) \subseteq has
    BY <1>1, Visited
  <2>4. CASE Data(c) \subseteq has
    <3>1. has = Data(c) /\ Data(c) \subseteq Known
      BY <1>1, <2>3, <2>4 DEF Control, CachedInv
    <3>2. PICK first \in has : Infer(c, has, first)
      BY <2>1, <2>3, <2>4
    <3> HIDE DEF has
    <3> QED
      BY <1>1, <2>2, <2>3, <3>1, <3>2, InferVectors
  <2>5. CASE ~(Data(c) \subseteq has)
    BY <1>2, <2>1, <2>2, <2>3, <2>5
  <2> QED
    BY <2>4, <2>5
<1>5. CASE UNCHANGED vars
  BY <1>2, <1>5 DEF vars
<1> QED
  BY <1>3, <1>4, <1>5 DEF Next

-----------------------------------------------------------------------------
(* What permutations do to each other                                      *)

LEMMA SamePermutation ==
  ASSUME NEW n \in Nat, NEW p, NEW q, IsPermutation(p, n), IsPermutation(q, n),
         \A x \in 0..(n - 1) : p[x] = q[x]
  PROVE  p = q
BY DEF IsPermutation

LEMMA Aligned ==
  ASSUME NEW n \in Nat, NEW p, IsPermutation(p, n)
  PROVE  isAligned(p) <=> p = Identity(n)
<1>1. Cardinality(DOMAIN p) = n
  BY Permutation
<1> QED
  BY <1>1 DEF isAligned

\* Permuting by the identity changes nothing.
LEMMA AddIdentity ==
  ASSUME NEW n \in Nat, NEW p, IsPermutation(p, n)
  PROVE  add(p, Identity(n)) = p /\ add(Identity(n), p) = p
<1>1. IsPermutation(Identity(n), n)
  BY IdentityPermutation
<1>2. \A x \in 0..(n - 1) : p[x] \in 0..(n - 1)
  BY Permutation
<1>3. DOMAIN p = 0..(n - 1) /\ DOMAIN Identity(n) = 0..(n - 1) /\ \A x \in 0..(n - 1) : Identity(n)[x] = x
  BY Permutation DEF Identity
<1>4. IsPermutation(add(p, Identity(n)), n) /\ IsPermutation(add(Identity(n), p), n)
  BY <1>1, AddPermutation
<1>5. \A x \in 0..(n - 1) : add(p, Identity(n))[x] = p[x] /\ add(Identity(n), p)[x] = p[x]
  BY <1>2, <1>3 DEF add
<1> QED
  BY <1>4, <1>5, SamePermutation

\* The reverse undoes a permutation, and what is put in between is what remains.
LEMMA AddReverse ==
  ASSUME NEW n \in Nat, NEW p, NEW q, IsPermutation(p, n), IsPermutation(q, n)
  PROVE  /\ add(p, reverse(p)) = Identity(n)
         /\ add(p, add(reverse(p), q)) = q
<1> DEFINE S == 0..(n - 1)
           r == reverse(p)
           s == add(r, q)
<1>1. IsPermutation(r, n) /\ \A x \in S : r[x] \in S /\ p[r[x]] = x
  BY ReversePermutation
<1>2. DOMAIN r = S /\ DOMAIN q = S /\ \A x \in S : q[x] \in S
  BY <1>1, Permutation
<1> HIDE DEF r
<1>3. IsPermutation(s, n) /\ DOMAIN s = S
  BY <1>1, AddPermutation, Permutation
<1>4. \A x \in S : s[x] = r[q[x]]
  BY <1>2 DEF add
<1> HIDE DEF s
<1>5. IsPermutation(add(p, r), n) /\ IsPermutation(add(p, s), n)
  BY <1>1, <1>3, AddPermutation
<1>6. \A x \in S : add(p, r)[x] = x /\ add(p, s)[x] = q[x]
  BY <1>1, <1>2, <1>3, <1>4 DEF add
<1>7. IsPermutation(Identity(n), n) /\ \A x \in S : Identity(n)[x] = x
  BY IdentityPermutation DEF Identity
<1>8. add(p, r) = Identity(n)
  BY <1>5, <1>6, <1>7, SamePermutation
<1>9. add(p, s) = q
  BY <1>5, <1>6, SamePermutation
<1> QED
  BY <1>8, <1>9 DEF r, s

\* Where the reverse is the identity, so is the permutation.
LEMMA ReverseAligned ==
  ASSUME NEW n \in Nat, NEW p, IsPermutation(p, n), isAligned(reverse(p))
  PROVE  p = Identity(n)
<1>1. reverse(p) = Identity(n)
  BY ReversePermutation, Aligned
<1>2. add(p, reverse(p)) = Identity(n) /\ add(p, Identity(n)) = p
  BY AddReverse, AddIdentity
<1> QED
  BY <1>1, <1>2

\* axisMapTo finds the axis.
LEMMA AxisFound ==
  ASSUME NEW n \in Nat, NEW p, IsPermutation(p, n), NEW axis \in 0..(n - 1)
  PROVE  p[axisMapTo(p, axis)] = axis
<1>1. DOMAIN p = 0..(n - 1) /\ \E x \in 0..(n - 1) : p[x] = axis
  BY Permutation
<1> QED
  BY <1>1 DEF axisMapTo

\* How many axes come before one, when one of them is left out.
LEMMA Counted ==
  ASSUME NEW n \in Nat, NEW a \in 0..(n - 1), NEW y \in 0..(n - 1), y # a
  PROVE  Cardinality({z \in (0..(n - 1)) \ {a} : z < y}) = IF y < a THEN y ELSE y - 1
<1> DEFINE T == 0..(y - 1)
           S == {z \in (0..(n - 1)) \ {a} : z < y}
<1>1. y \in Nat /\ IsFiniteSet(T) /\ Cardinality(T) = y
  BY Axes
<1>2. CASE y < a
  <2>1. S = T
    BY <1>2
  <2> QED
    BY <1>1, <1>2, <2>1
<1>3. CASE ~(y < a)
  <2>1. S = T \ {a} /\ a \in T
    BY <1>3
  <2> HIDE DEF S, T
  <2>2. Cardinality(T \ {a}) = Cardinality(T) - 1
    BY <1>1, <2>1, FS_RemoveElement
  <2> QED
    BY <1>1, <1>3, <2>1, <2>2 DEF S
<1> QED
  BY <1>2, <1>3

\* What an operation that loses an axis hands on is the layout of what is left.
LEMMA WithoutReduced ==
  ASSUME NEW n \in Nat, NEW p, IsPermutation(p, n), NEW axis \in 0..(n - 1)
  PROVE  Without(p, axis) = Reduced(p, axis)
<1> DEFINE S == 0..(n - 1)
           T == 0..(n - 2)
           at == reverse(p)[axis]
           skip(x) == IF x < at THEN x ELSE x + 1
           kept == {x \in S : p[x] # axis}
           Nth(U, y) == Cardinality({z \in U : z < y})
           w == Without(p, axis)
           r == Reduced(p, axis)
<1>1. /\ DOMAIN p = S /\ Cardinality(DOMAIN p) = n /\ \A x \in S : p[x] \in S
      /\ \A x, y \in S : p[x] = p[y] => x = y
  BY Permutation
<1>2. at \in S /\ p[at] = axis
  BY ReversePermutation
<1>3. r = [x \in T |-> IF p[skip(x)] > axis THEN p[skip(x)] - 1 ELSE p[skip(x)]]
  BY <1>1 DEF Reduced
<1>4. w = [x \in T |-> Nth(S \ {axis}, p[CHOOSE y \in kept : Nth(kept, y) = x])]
  BY <1>1 DEF Without
<1>5. kept = S \ {at}
  BY <1>1, <1>2
<1> HIDE DEF at, kept, w, r
<1>6. \A x \in T : skip(x) \in S /\ skip(x) # at /\ skip(x) \in kept
  BY <1>2, <1>5
<1>7. \A y \in kept : Nth(kept, y) = IF y < at THEN y ELSE y - 1
  BY <1>2, <1>5, Counted
<1>8. ASSUME NEW x \in T PROVE (CHOOSE y \in kept : Nth(kept, y) = x) = skip(x)
  <2>1. Nth(kept, skip(x)) = x
    BY <1>2, <1>6, <1>7
  <2>2. ASSUME NEW y \in kept, Nth(kept, y) = x PROVE y = skip(x)
    BY <1>2, <1>5, <1>7, <2>2
  <2> QED
    BY <1>6, <2>1, <2>2
<1>9. ASSUME NEW x \in T
      PROVE  Nth(S \ {axis}, p[skip(x)]) = IF p[skip(x)] > axis THEN p[skip(x)] - 1 ELSE p[skip(x)]
  <2> DEFINE y == p[skip(x)]
  <2>1. y \in S /\ y # axis
    BY <1>1, <1>2, <1>6
  <2> HIDE DEF y
  <2>2. Nth(S \ {axis}, y) = IF y < axis THEN y ELSE y - 1
    BY <2>1, Counted
  <2>3. Nth(S \ {axis}, y) = IF y > axis THEN y - 1 ELSE y
    BY <2>1, <2>2
  <2> QED
    BY <2>3 DEF y
<1> HIDE DEF Nth, skip
<1>10. \A x \in T : w[x] = r[x]
  BY <1>3, <1>4, <1>8, <1>9
<1>11. w = r
  BY <1>3, <1>4, <1>10
<1> QED
  BY <1>11 DEF w, r

\* A clone says of which operand it is, and for which operation.
LEMMA CloneUnique ==
  ASSUME NEW c \in Nat \ {0}, NEW d \in Nat \ {0}, NEW o \in Operand, NEW q \in Operand, Clone(c, o) = Clone(d, q)
  PROVE  c = d /\ o = q
<1>1. /\ Ids \in Nat /\ o \in Nat /\ q \in Nat /\ o > 0 /\ q > 0 /\ o < Ids /\ q < Ids
      /\ c * Ids + o = d * Ids + q
  BY LayoutInferenceAssumption DEF Operand, Clone
<1>2. \A m, k \in Nat : m < k => m * Ids + Ids <= k * Ids
  <2> SUFFICES ASSUME NEW m \in Nat, NEW k \in Nat, m < k PROVE m * Ids + Ids <= k * Ids
    OBVIOUS
  <2>1. PICK e \in Nat : k = (m + 1) + e
    <3>1. k - (m + 1) \in Nat /\ k = (m + 1) + (k - (m + 1))
      OBVIOUS
    <3> QED
      BY <3>1
  <2>2. k * Ids = (m * Ids + Ids) + e * Ids
    BY <1>1, <2>1
  <2>3. e * Ids \in Nat /\ m * Ids \in Nat
    BY <1>1
  <2> QED
    BY <1>1, <2>2, <2>3
<1>3. c * Ids \in Nat /\ d * Ids \in Nat
  BY <1>1
<1>4. ~(c < d) /\ ~(d < c)
  BY <1>1, <1>2, <1>3
<1>5. c = d
  BY <1>4
<1> QED
  BY <1>1, <1>3, <1>5

-----------------------------------------------------------------------------
(* What an operation that is inferred reads and makes                      *)

\* The objects and layouts that are handed on with the outputs of c, when r is what
\* its handler decided.
Objects(c, r, first) == IF r.made = Passed THEN [o \in Out(c) |-> origin[first]] ELSE [o \in Out(c) |-> o]
Handed(c, r, first) == [o \in Out(c) |-> With(vec, r.made)[Objects(c, r, first)[o]]]

\* The layouts the operation reads.
Fed(c, r, first) ==
  [o \in In(c) |->
     IF o \in Consts
     THEN IF o \in r.consts THEN Handed(c, r, first)[graph.ops[c].outs[1]] ELSE Identity(Rank(o))
     ELSE IF o \in DOMAIN r.align THEN add(Held(o), r.align[o]) ELSE Held(o)]

Plain(c) ==
  LET op == graph.ops[c]
  IN  op.kind = "default" \/ (op.kind \in {"pool", "conv", "deconv"} /\ ~ToDriverLayout(c))

\* The kernel of a convolution is as KernelPermuted wants it not to be.
KernelFits(c) ==
  LET op == graph.ops[c]
      k == op.ins[2]
  IN  op.kind \in {"conv", "deconv"} /\ k \notin Consts =>
        IF k = op.ins[1] THEN ~(op.nhwc /\ ToDriverLayout(c))
                         ELSE op.kind = "conv" \/ ToDriverLayout(c) => isAligned(Held(k))

\* Satisfied and Makes for an operation that reads fed and makes handed.
RightlyFed(c, fed, axis) ==
  LET op == graph.ops[c]
  IN  /\ op.kind \in {"axis", "arg", "concat"} => fed[op.ins[1]][axis] = op.axis
      /\ op.kind \in {"elem", "concat"} => \A o \in In(c) : fed[o] = fed[op.ins[1]]
      /\ ToDriverLayout(c) => /\ fed[op.ins[1]] = Required(op)
                              /\ op.kind # "pool" => fed[op.ins[2]] = Required(op)
      /\ Plain(c) => \A o \in In(c) : isAligned(fed[o])

RightlyMade(c, fed, handed) ==
  LET op == graph.ops[c]
  IN  /\ op.kind \in {"elem", "concat", "act", "axis"} => \A o \in Out(c) : handed[o] = fed[op.ins[1]]
      /\ op.kind = "arg" => \A o \in Out(c) : handed[o] = Without(fed[op.ins[1]], op.axis)
      /\ ToDriverLayout(c) => \A o \in Out(c) : handed[o] = Required(op)
      /\ Plain(c) => \A o \in Out(c) : handed[o] = Identity(Rank(o))

LEMMA HandedOn ==
  ASSUME Control, VectorInv, NEW c \in Ops, NEW first \in Data(c) \cap Known, NEW r
  PROVE  /\ r.made = Passed => \A o \in Out(c) : Handed(c, r, first)[o] = Held(first)
         /\ r.made # Passed /\ DOMAIN r.made = Out(c) => \A o \in Out(c) : Handed(c, r, first)[o] = r.made[o]
<1>1. ASSUME r.made = Passed, NEW o \in Out(c) PROVE Handed(c, r, first)[o] = Held(first)
  <2>1. Handed(c, r, first)[o] = With(vec, Passed)[origin[first]]
    BY <1>1 DEF Handed, Objects
  <2>2. origin[first] \in DOMAIN vec
    BY DEF VectorInv
  <2>3. DOMAIN Passed = {}
    BY DEF Passed
  <2>4. With(vec, Passed)[origin[first]] = vec[origin[first]]
    BY <2>2, <2>3 DEF With
  <2> QED
    BY <2>1, <2>4 DEF Held
<1>2. ASSUME r.made # Passed, DOMAIN r.made = Out(c), NEW o \in Out(c) PROVE Handed(c, r, first)[o] = r.made[o]
  <2>1. Handed(c, r, first)[o] = With(vec, r.made)[o]
    BY <1>2 DEF Handed, Objects
  <2> QED
    BY <1>2, <2>1 DEF With
<1> QED
  BY <1>1, <1>2

\* Every handler gives the driver's operation what it needs, and says what comes out.
LEMMA HandledRight ==
  ASSUME Control, VectorInv, NEW c \in Ops, ops[c] = graph.ops[c], Data(c) \subseteq Known,
         NEW first \in Data(c), NEW r, r = handleLayoutInferenceOnInputs(c, Data(c), first), KernelFits(c)
  PROVE  /\ RightlyFed(c, Fed(c, r, first), r.axis)
         /\ RightlyMade(c, Fed(c, r, first), Handed(c, r, first))
         /\ DOMAIN r.align \subseteq Data(c)
<1> DEFINE op == graph.ops[c]
           n == Rank(op.ins[1])
           fed == Fed(c, r, first)
           handed == Handed(c, r, first)
<1>1. Types /\ WellFormed(graph.ops, graph.ndim)
  BY DEF Control, Types
<1>2. \A o \in Data(c) : o \in Operand /\ Rank(o) \in Nat /\ IsPermutation(Held(o), Rank(o))
  BY <1>1, HeldVector
<1>3. Out(c) # {} /\ Out(c) \subseteq Operand /\ In(c) \subseteq Operand /\ ops[c] = op
  BY <1>1, Makers
<1>4. /\ op.kind \in Kinds /\ n \in Nat /\ (op.kind = "arg" => op.axis \in 0..(n - 1))
      /\ op.ins[1] \in In(c) /\ op.outs[1] \in Out(c)
      /\ \A o \in Operand : Rank(o) \in Nat
      /\ op.kind \in {"pool", "act", "axis", "arg"} => In(c) = {op.ins[1]}
      /\ op.kind \in {"conv", "deconv", "depthwise"} => op.ins[2] \in In(c) /\ (n = 4 => Rank(op.ins[2]) = 4)
      /\ op.kind \in {"conv", "deconv"} => op.ins[1] \notin Consts
      /\ op.kind = "depthwise" => n = 4
      /\ op.kind \in {"elem", "concat"} => \A o \in In(c) : Rank(o) = n
      /\ op.kind \notin {"default", "arg"} => \A o \in Out(c) : Rank(o) = n
      /\ op.kind = "arg" => \A o \in Out(c) : Rank(o) = n - 1
  BY <1>1, Operands
<1>5. op.kind \in {"axis", "concat"} => op.axis \in 0..(n - 1)
  BY <1>1, Makers DEF RanksFit, Rank
<1>6. In(c) = ToSet(op.ins) /\ Out(c) = ToSet(op.outs)
  BY DEF In, Out
<1>7. ToDriverLayout(c) <=> op.kind \in {"pool", "conv", "deconv", "depthwise"} /\ n = 4
  BY DEF ToDriverLayout, Rank
<1>8. /\ r.made = Passed => \A o \in Out(c) : handed[o] = Held(first)
      /\ r.made # Passed /\ DOMAIN r.made = Out(c) => \A o \in Out(c) : handed[o] = r.made[o]
  BY HandedOn
<1>9. \A o \in In(c) : fed[o] = IF o \in Consts
                                THEN IF o \in r.consts THEN handed[op.outs[1]] ELSE Identity(Rank(o))
                                ELSE IF o \in DOMAIN r.align THEN add(Held(o), r.align[o]) ELSE Held(o)
  BY DEF Fed
<1>10. \A o \in Data(c) : o \in In(c) /\ o \notin Consts
  BY DEF Data
<1> HIDE DEF op, n, fed, handed
<1>11. \A f : f = [o \in Out(c) |-> f[o]] => f # Passed
  <2>1. DOMAIN Passed = {}
    BY DEF Passed
  <2> QED
    BY <1>3, <2>1
<1>12. DOMAIN <<>> = {}
  OBVIOUS
<1>13. CASE op.kind \in {"elem", "concat"}
  <2> DEFINE align == [o \in Data(c) \ {first} |-> add(reverse(Held(o)), Held(first))]
             kept == {k \in In(c) : IsConst(k)}
             axis == IF op.kind = "concat" THEN axisMapTo(Held(first), op.axis) ELSE op.axis
  <2>1. r = Outcome(align, kept, Passed, axis)
    BY <1>3, <1>6, <1>13, Zenon DEF handleLayoutInferenceOnInputs, AlignInputs
  <2>2. DOMAIN align = Data(c) \ {first} /\ \A o \in DOMAIN align : align[o] = add(reverse(Held(o)), Held(first))
    OBVIOUS
  <2> HIDE DEF align
  <2>3. r.align = align /\ r.consts = kept /\ r.made = Passed /\ r.axis = axis
    BY <2>1 DEF Outcome
  <2>4. \A o \in Data(c) : Rank(o) = n
    BY <1>4, <1>10, <1>13
  <2>5. \A o \in Data(c) : add(Held(o), add(reverse(Held(o)), Held(first))) = Held(first)
    BY <1>2, <1>4, <2>4, AddReverse
  <2>6. \A o \in Out(c) : handed[o] = Held(first)
    BY <1>8, <2>3
  <2>7. ASSUME NEW o \in In(c) PROVE fed[o] = Held(first)
    <3>1. CASE o \in Consts
      BY <1>4, <1>9, <2>3, <2>6, <3>1 DEF IsConst
    <3>2. CASE o \notin Consts
      <4>1. o \in Data(c)
        BY <3>2 DEF Data
      <4> QED
        BY <1>9, <2>2, <2>3, <2>5, <3>2, <4>1
    <3> QED
      BY <3>1, <3>2
  <2>8. op.kind = "concat" => Held(first)[r.axis] = op.axis
    BY <1>2, <1>5, <2>3, <2>4, AxisFound
  <2>9. RightlyFed(c, fed, r.axis)
    BY <1>4, <1>7, <1>13, <2>7, <2>8 DEF RightlyFed, Plain, op
  <2>10. RightlyMade(c, fed, handed)
    BY <1>4, <1>7, <1>13, <2>6, <2>7 DEF RightlyMade, Plain, op
  <2> QED
    BY <2>2, <2>3, <2>9, <2>10 DEF fed, handed
<1>14. CASE op.kind \in {"act", "axis"}
  <2>1. r = Outcome(<<>>, {}, Passed, IF op.kind = "axis" THEN axisMapTo(Held(op.ins[1]), op.axis) ELSE op.axis)
    <3>1. r = PassOn(c)
      BY <1>3, <1>14, Zenon DEF handleLayoutInferenceOnInputs
    <3> QED
      BY <1>3, <3>1, Zenon DEF PassOn
  <2>2. /\ r.align = <<>> /\ r.consts = {} /\ r.made = Passed
        /\ op.kind = "axis" => r.axis = axisMapTo(Held(op.ins[1]), op.axis)
    BY <2>1 DEF Outcome
  <2>3. first = op.ins[1]
    BY <1>4, <1>10, <1>14
  <2>4. fed[first] = Held(first) /\ \A o \in Out(c) : handed[o] = Held(first)
    BY <1>8, <1>9, <1>10, <1>12, <2>2
  <2>5. op.kind = "axis" => Held(first)[r.axis] = op.axis
    BY <1>2, <1>5, <2>2, <2>3, AxisFound DEF n
  <2>6. RightlyFed(c, fed, r.axis)
    BY <1>7, <1>14, <2>3, <2>4, <2>5 DEF RightlyFed, Plain, op
  <2>7. RightlyMade(c, fed, handed)
    BY <1>7, <1>14, <2>3, <2>4 DEF RightlyMade, Plain, op
  <2> QED
    BY <1>12, <2>2, <2>6, <2>7 DEF fed, handed
<1>15. CASE op.kind = "arg"
  <2> DEFINE p == Held(op.ins[1])
             made == [o \in Out(c) |-> Reduced(p, op.axis)]
  <2>1. r = Outcome(<<>>, {}, made, axisMapTo(p, op.axis))
    BY <1>3, <1>6, <1>15, Zenon DEF handleLayoutInferenceOnInputs, ArgXXX
  <2>2. made # Passed /\ DOMAIN made = Out(c) /\ \A o \in Out(c) : made[o] = Reduced(p, op.axis)
    BY <1>11
  <2>3. first = op.ins[1]
    BY <1>4, <1>10, <1>15
  <2> HIDE DEF made
  <2>4. r.align = <<>> /\ r.consts = {} /\ r.made = made /\ r.axis = axisMapTo(p, op.axis)
    BY <2>1 DEF Outcome
  <2>5. fed[first] = p /\ \A o \in Out(c) : handed[o] = Reduced(p, op.axis)
    BY <1>8, <1>9, <1>10, <1>12, <2>2, <2>3, <2>4
  <2>6. p[r.axis] = op.axis /\ Without(p, op.axis) = Reduced(p, op.axis)
    BY <1>2, <1>4, <1>15, <2>3, <2>4, AxisFound, WithoutReduced DEF n
  <2> HIDE DEF p
  <2>7. RightlyFed(c, fed, r.axis)
    BY <1>7, <1>15, <2>3, <2>5, <2>6 DEF RightlyFed, Plain, op
  <2>8. RightlyMade(c, fed, handed)
    BY <1>7, <1>15, <2>3, <2>5, <2>6 DEF RightlyMade, Plain, op
  <2> QED
    BY <1>12, <2>4, <2>7, <2>8 DEF fed, handed
<1>16. CASE op.kind \in {"pool", "conv", "deconv"} /\ n = 4
  <2> DEFINE data == op.ins[1]
             kernels == IF op.kind # "pool" /\ op.nhwc THEN {op.ins[2]} ELSE {}
             needed == add(reverse(Held(data)), Required(op))
             align == [o \in {data} \cup {k \in kernels : ~IsConst(k)} |->
                         CASE o # data -> Required(op)
                           [] o = data /\ o \in kernels -> add(Required(op), needed)
                           [] OTHER -> needed]
             consts == {k \in kernels : IsConst(k)}
             made == [o \in Out(c) |-> Required(op)]
  <2>1. r = Outcome(align, consts, made, op.axis)
    <3>1. r = ToDriver(c)
      BY <1>3, <1>16, Zenon DEF handleLayoutInferenceOnInputs, n, Rank
    <3> QED
      BY <1>3, <1>6, <3>1, Zenon DEF ToDriver
  <2>2. data \in Data(c) /\ data \notin Consts /\ Rank(data) = 4
    BY <1>4, <1>10, <1>16 DEF Data, n
  <2>3. data \notin kernels
    BY <1>7, <1>16, <2>2 DEF KernelFits, op
  <2>4. /\ DOMAIN align = {data} \cup {k \in kernels : k \notin Consts}
        /\ align[data] = needed
        /\ \A k \in DOMAIN align : k # data => align[k] = Required(op)
    BY <2>3 DEF IsConst
  <2>5. made # Passed /\ DOMAIN made = Out(c) /\ \A o \in Out(c) : made[o] = Required(op)
    BY <1>11
  <2>6. kernels \subseteq In(c) /\ \A k \in kernels : k \in Operand /\ Rank(k) = 4
    BY <1>3, <1>4, <1>16
  <2> HIDE DEF align, made
  <2>7. r.align = align /\ r.consts = consts /\ r.made = made
    BY <2>1 DEF Outcome
  <2>8. \A o \in Out(c) : handed[o] = Required(op)
    BY <1>8, <2>5, <2>7
  <2>9. IsPermutation(Required(op), 4)
    BY RequiredPermutation
  <2>10. fed[data] = Required(op)
    <3>1. fed[data] = add(Held(data), add(reverse(Held(data)), Required(op)))
      BY <1>9, <1>10, <2>2, <2>4, <2>7
    <3> QED
      BY <1>2, <2>2, <2>9, <3>1, AddReverse
  <2>11. ASSUME op.kind # "pool" PROVE fed[op.ins[2]] = Required(op)
    <3> DEFINE k == op.ins[2]
    <3>1. k \in In(c) /\ Rank(k) = 4 /\ op.kind \in {"conv", "deconv"} /\ k \in Operand
      BY <1>3, <1>4, <1>16, <2>11
    <3>2. ~op.nhwc => kernels = {} /\ Required(op) = Identity(4)
      BY DEF Required
    <3>3. op.nhwc => kernels = {k}
      BY <2>11
    <3> HIDE DEF k, kernels, needed
    <3>4. CASE k \in Consts
      <4>1. CASE op.nhwc
        BY <1>4, <1>9, <2>7, <2>8, <3>1, <3>3, <3>4, <4>1 DEF IsConst, k
      <4>2. CASE ~op.nhwc
        BY <1>9, <2>7, <3>1, <3>2, <3>4, <4>2 DEF k
      <4> QED
        BY <4>1, <4>2
    <3>5. CASE k = data
      BY <2>10, <3>5 DEF k
    <3>6. CASE k \notin Consts /\ k # data
      <4>1. k \in Data(c) /\ isAligned(Held(k))
        BY <1>7, <1>16, <3>1, <3>6 DEF Data, KernelFits, op, k
      <4>2. Held(k) = Identity(4)
        BY <1>2, <3>1, <4>1, Aligned
      <4>3. CASE op.nhwc
        <5>1. add(Held(k), Required(op)) = Required(op)
          BY <2>9, <4>2, AddIdentity
        <5>2. k \in DOMAIN r.align /\ r.align[k] = Required(op)
          BY <2>4, <2>7, <3>3, <3>6, <4>3
        <5>3. fed[k] = add(Held(k), r.align[k])
          BY <1>9, <3>1, <3>6, <5>2
        <5> QED
          BY <5>1, <5>2, <5>3 DEF k
      <4>4. CASE ~op.nhwc
        <5>1. k \notin DOMAIN r.align
          BY <2>4, <2>7, <3>2, <3>6, <4>4
        <5>2. fed[k] = Held(k)
          BY <1>9, <3>1, <3>6, <5>1
        <5> QED
          BY <3>2, <4>2, <4>4, <5>2 DEF k
      <4> QED
        BY <4>3, <4>4
    <3> QED
      BY <3>4, <3>5, <3>6
  <2>12. DOMAIN r.align \subseteq Data(c)
    BY <2>2, <2>4, <2>6, <2>7 DEF Data
  <2>13. RightlyFed(c, fed, r.axis)
    BY <1>7, <1>16, <2>10, <2>11 DEF RightlyFed, Plain, op
  <2>14. RightlyMade(c, fed, handed)
    BY <1>7, <1>16, <2>8 DEF RightlyMade, Plain, op
  <2> QED
    BY <2>12, <2>13, <2>14 DEF fed, handed
<1>17. CASE op.kind = "default" \/ (op.kind \in {"pool", "deconv"} /\ n # 4)
  <2> DEFINE align == [o \in Data(c) |-> reverse(Held(o))]
             made == [o \in Out(c) |-> Identity(graph.ndim[o])]
  <2>1. r = Outcome(align, {}, made, op.axis)
    <3>1. r = Default(c, Data(c))
      BY <1>3, <1>17 DEF handleLayoutInferenceOnInputs, n, Rank
    <3> QED
      BY <1>3, <1>6, <3>1, Zenon DEF Default
  <2>2. DOMAIN align = Data(c) /\ \A o \in Data(c) : align[o] = reverse(Held(o))
    OBVIOUS
  <2>3. made # Passed /\ DOMAIN made = Out(c) /\ \A o \in Out(c) : made[o] = Identity(Rank(o))
    BY <1>11 DEF Rank
  <2> HIDE DEF made, align
  <2>4. r.align = align /\ r.consts = {} /\ r.made = made
    BY <2>1 DEF Outcome
  <2>5. ASSUME NEW o \in In(c) PROVE isAligned(fed[o])
    <3>1. o \in Operand /\ Rank(o) \in Nat
      BY <1>3, <1>4
    <3>2. fed[o] = Identity(Rank(o))
      <4>1. CASE o \in Consts
        BY <1>9, <2>4, <4>1
      <4>2. CASE o \notin Consts
        <5>1. o \in Data(c)
          BY <4>2 DEF Data
        <5>2. fed[o] = add(Held(o), reverse(Held(o)))
          BY <1>9, <2>2, <2>4, <4>2, <5>1
        <5> QED
          BY <1>2, <5>1, <5>2, AddReverse
      <4> QED
        BY <4>1, <4>2
    <3> QED
      BY <3>1, <3>2, IdentityPermutation, Aligned
  <2>6. \A o \in Out(c) : handed[o] = Identity(Rank(o))
    BY <1>8, <2>3, <2>4
  <2>7. RightlyFed(c, fed, r.axis)
    BY <1>7, <1>17, <2>5 DEF RightlyFed, op
  <2>8. RightlyMade(c, fed, handed)
    BY <1>7, <1>17, <2>6 DEF RightlyMade, op
  <2> QED
    BY <2>2, <2>4, <2>7, <2>8 DEF fed, handed
<1>18. CASE op.kind = "conv" /\ n # 4
  <2> DEFINE data == op.ins[1]
             align == [o \in {data} |-> reverse(Held(o))]
             made == [o \in Out(c) |-> Identity(graph.ndim[o])]
  <2>1. r = Outcome(align, {}, made, op.axis)
    <3>1. r = DataOnly(c)
      BY <1>3, <1>18, Zenon DEF handleLayoutInferenceOnInputs, n, Rank
    <3> QED
      BY <1>3, <1>6, <3>1, Zenon DEF DataOnly
  <2>2. DOMAIN align = {data} /\ align[data] = reverse(Held(data))
    OBVIOUS
  <2>3. made # Passed /\ DOMAIN made = Out(c) /\ \A o \in Out(c) : made[o] = Identity(Rank(o))
    BY <1>11 DEF Rank
  <2> HIDE DEF made, align
  <2>4. r.align = align /\ r.consts = {} /\ r.made = made
    BY <2>1 DEF Outcome
  <2>5. data \in Data(c)
    BY <1>4, <1>18 DEF Data
  <2>6. In(c) = {data, op.ins[2]}
    <3>1. Len(op.ins) = 2 /\ op.ins \in Seq(Operand)
      BY <1>1, <1>18, Makers DEF RanksFit, Op, op
    <3>2. DOMAIN op.ins = {1, 2}
      BY <3>1
    <3> QED
      BY <1>6, <3>2 DEF ToSet
  <2>7. ASSUME NEW o \in In(c) PROVE isAligned(fed[o])
    <3>1. o \in Operand /\ Rank(o) \in Nat
      BY <1>3, <1>4
    <3>2. fed[o] = Identity(Rank(o))
      <4>1. CASE o \in Consts
        BY <1>9, <2>4, <4>1
      <4>2. CASE o = data
        <5>1. fed[o] = add(Held(o), reverse(Held(o)))
          BY <1>9, <1>10, <2>2, <2>4, <2>5, <4>2
        <5> QED
          BY <1>2, <2>5, <4>2, <5>1, AddReverse
      <4>3. CASE o \notin Consts /\ o # data
        <5>1. o = op.ins[2] /\ o \in Data(c)
          BY <2>6, <4>3 DEF Data
        <5>2. isAligned(Held(o))
          BY <1>18, <4>3, <5>1 DEF KernelFits, op
        <5>3. fed[o] = Held(o)
          BY <1>9, <2>2, <2>4, <4>3
        <5> QED
          BY <1>2, <5>1, <5>2, <5>3, Aligned
      <4> QED
        BY <4>1, <4>2, <4>3
    <3> QED
      BY <3>1, <3>2, IdentityPermutation, Aligned
  <2>8. \A o \in Out(c) : handed[o] = Identity(Rank(o))
    BY <1>8, <2>3, <2>4
  <2>9. RightlyFed(c, fed, r.axis)
    BY <1>7, <1>18, <2>7 DEF RightlyFed, op
  <2>10. RightlyMade(c, fed, handed)
    BY <1>7, <1>18, <2>8 DEF RightlyMade, op
  <2> QED
    BY <2>2, <2>4, <2>5, <2>9, <2>10 DEF fed, handed
<1>19. CASE op.kind = "depthwise"
  <2> DEFINE align == [o \in Data(c) |-> add(reverse(Held(o)), Required(op))]
             consts == {k \in In(c) : op.nhwc /\ IsConst(k)}
             made == [o \in Out(c) |-> Required(op)]
  <2>1. r = Outcome(align, consts, made, op.axis)
    <3>1. r = AllToDriver(c, Data(c))
      BY <1>3, <1>19, Zenon DEF handleLayoutInferenceOnInputs
    <3> QED
      BY <1>3, <1>6, <3>1, Zenon DEF AllToDriver
  <2>2. DOMAIN align = Data(c) /\ \A o \in Data(c) : align[o] = add(reverse(Held(o)), Required(op))
    OBVIOUS
  <2>3. made # Passed /\ DOMAIN made = Out(c) /\ \A o \in Out(c) : made[o] = Required(op)
    BY <1>11
  <2> HIDE DEF made, align
  <2>4. r.align = align /\ r.consts = consts /\ r.made = made
    BY <2>1 DEF Outcome
  <2>5. \A o \in In(c) : Rank(o) = 4
    BY <1>1, <1>19, DepthwiseRanks DEF op
  <2>6. IsPermutation(Required(op), 4) /\ (~op.nhwc => Required(op) = Identity(4))
    BY RequiredPermutation DEF Required
  <2>7. \A o \in Out(c) : handed[o] = Required(op)
    BY <1>8, <2>3, <2>4
  <2>8. ASSUME NEW o \in In(c) PROVE fed[o] = Required(op)
    <3>1. CASE o \in Consts
      <4>1. o \in r.consts <=> op.nhwc
        BY <2>4, <3>1 DEF IsConst
      <4> QED
        BY <1>4, <1>9, <2>5, <2>6, <2>7, <3>1, <4>1
    <3>2. CASE o \notin Consts
      <4>1. o \in Data(c) /\ Rank(o) = 4
        BY <2>5, <3>2 DEF Data
      <4>2. fed[o] = add(Held(o), add(reverse(Held(o)), Required(op)))
        BY <1>9, <2>2, <2>4, <3>2, <4>1
      <4> QED
        BY <1>2, <2>6, <4>1, <4>2, AddReverse
    <3> QED
      BY <3>1, <3>2
  <2>9. RightlyFed(c, fed, r.axis)
    BY <1>4, <1>7, <1>19, <2>8 DEF RightlyFed, Plain, op
  <2>10. RightlyMade(c, fed, handed)
    BY <1>7, <1>19, <2>7 DEF RightlyMade, Plain, op
  <2> QED
    BY <2>2, <2>4, <2>9, <2>10 DEF fed, handed
<1>20. \/ op.kind \in {"elem", "concat"}
       \/ op.kind \in {"act", "axis"}
       \/ op.kind = "arg"
       \/ op.kind \in {"pool", "conv", "deconv"} /\ n = 4
       \/ op.kind = "default" \/ (op.kind \in {"pool", "deconv"} /\ n # 4)
       \/ op.kind = "conv" /\ n # 4
       \/ op.kind = "depthwise"
  BY <1>4, Zenon DEF Kinds
<1> QED
  BY <1>13, <1>14, <1>15, <1>16, <1>17, <1>18, <1>19, <1>20

Before(r) == {o \in DOMAIN r.align : ~isAligned(r.align[o])}
After(c, r, first) == {o \in Out(c) \cap graph.outputs : ~isAligned(reverse(Handed(c, r, first)[o]))}

\* The permutes inserted before an operation, and those that undo the layout of its outputs.
Permuted(c, r) == {[perm |-> r.align[o], from |-> o, to |-> Clone(c, o)] : o \in Before(r)}
Undone(c, r, first) ==
  {[perm |-> reverse(Handed(c, r, first)[o]), from |-> Clone(c, o), to |-> o] : o \in After(c, r, first)}

\* What Infer does to the rewritten model.
LEMMA InferEffect ==
  ASSUME Control, NEW c \in Ops, ops[c] = graph.ops[c], NEW first, Infer(c, Data(c), first)
  PROVE  LET r == handleLayoutInferenceOnInputs(c, Data(c), first) IN
         /\ \A x \in DOMAIN graph.ops[c].ins :
              ops'[c].ins[x] = IF graph.ops[c].ins[x] \in Before(r) THEN Clone(c, graph.ops[c].ins[x])
                                                                  ELSE graph.ops[c].ins[x]
         /\ \A x \in DOMAIN graph.ops[c].outs :
              ops'[c].outs[x] = IF graph.ops[c].outs[x] \in After(c, r, first) THEN Clone(c, graph.ops[c].outs[x])
                                                                             ELSE graph.ops[c].outs[x]
         /\ ops'[c].axis = r.axis
         /\ permutes' = permutes \cup Permuted(c, r) \cup Undone(c, r, first)
         /\ perm' = With(perm, [k \in r.consts |-> permuteConst(k, Handed(c, r, first)[graph.ops[c].outs[1]])])
         /\ laid' = With(laid, [o \in Out(c) |-> IF o \in graph.outputs THEN Identity(Rank(o))
                                                                       ELSE Handed(c, r, first)[o]])
<1> DEFINE r == handleLayoutInferenceOnInputs(c, Data(c), first)
           outs == ToSet(ops[c].outs)
           before == {o \in DOMAIN r.align : ~isAligned(r.align[o])}
           object == IF r.made = Passed THEN [o \in outs |-> origin[first]] ELSE [o \in outs |-> o]
           value == With(vec, r.made)
           layout(o) == value[object[o]]
           after == {o \in outs \cap graph.outputs : ~isAligned(reverse(layout(o)))}
           const == [k \in r.consts |-> permuteConst(k, layout(ops[c].outs[1]))]
<1>1. /\ ops' = [ops EXCEPT ![c].ins = Replace(c, @, before), ![c].outs = Replace(c, @, after), ![c].axis = r.axis]
      /\ permutes' = permutes
           \cup {[perm |-> r.align[o], from |-> o, to |-> Clone(c, o)] : o \in before}
           \cup {[perm |-> reverse(layout(o)), from |-> Clone(c, o), to |-> o] : o \in after}
      /\ perm' = With(perm, const)
      /\ laid' = With(laid, [o \in outs |-> IF o \in graph.outputs THEN Identity(graph.ndim[o]) ELSE layout(o)])
  BY Zenon DEF Infer
<1> HIDE DEF r
<1>2. outs = Out(c) /\ ops[c] \in Op /\ c \in DOMAIN ops /\ graph.ops[c] \in Op /\ graph.ops[c].outs[1] \in Out(c)
  BY Makers, Operands DEF Out, Control, Types
<1>3. \A o \in Out(c) : layout(o) = Handed(c, r, first)[o]
  BY <1>2 DEF Handed, Objects
<1>4. before = Before(r) /\ after = After(c, r, first)
  BY <1>2, <1>3 DEF Before, After
<1> HIDE DEF before, after, layout, outs
<1>5. /\ ops'[c].ins = Replace(c, graph.ops[c].ins, before) /\ ops'[c].outs = Replace(c, graph.ops[c].outs, after)
      /\ ops'[c].axis = r.axis
  BY <1>1, <1>2 DEF Op
<1>6. /\ \A x \in DOMAIN graph.ops[c].ins :
           ops'[c].ins[x] = IF graph.ops[c].ins[x] \in before THEN Clone(c, graph.ops[c].ins[x]) ELSE graph.ops[c].ins[x]
      /\ \A x \in DOMAIN graph.ops[c].outs :
           ops'[c].outs[x] = IF graph.ops[c].outs[x] \in after THEN Clone(c, graph.ops[c].outs[x]) ELSE graph.ops[c].outs[x]
  BY <1>5 DEF Replace
<1>7. const = [k \in r.consts |-> permuteConst(k, Handed(c, r, first)[graph.ops[c].outs[1]])]
  BY <1>2, <1>3
<1>8. [o \in outs |-> IF o \in graph.outputs THEN Identity(graph.ndim[o]) ELSE layout(o)]
        = [o \in Out(c) |-> IF o \in graph.outputs THEN Identity(Rank(o)) ELSE Handed(c, r, first)[o]]
  BY <1>2, <1>3 DEF Rank
<1>9. /\ {[perm |-> r.align[o], from |-> o, to |-> Clone(c, o)] : o \in before} = Permuted(c, r)
      /\ {[perm |-> reverse(layout(o)), from |-> Clone(c, o), to |-> o] : o \in after} = Undone(c, r, first)
  <2>1. \A o \in after : layout(o) = Handed(c, r, first)[o]
    BY <1>3, <1>4 DEF After
  <2> QED
    BY <1>4, <2>1 DEF Permuted, Undone
<1> HIDE DEF const
<1> QED
  BY <1>1, <1>4, <1>5, <1>6, <1>7, <1>8, <1>9, Zenon DEF r

\* The objects that Infer resets, and what is in an object afterwards.
Reset(c, r, first) == {Objects(c, r, first)[o] : o \in {p \in Out(c) : getConsumers(p) # {}} \cap graph.outputs}
Settled(c, r, first, x) ==
  LET v == With(vec, r.made)[x] IN IF x \in Reset(c, r, first) THEN Identity(Cardinality(DOMAIN v)) ELSE v

\* Operands that others than c have still to see.
WaitingElse(c) == {o \in Known : \/ o \in ToSet(queue)
                                 \/ o = operand /\ todo # {c}
                                 \/ \E d \in Ops \ {c} : o \in cached[d] /\ inferred[d] = 0}

\* What Infer does to the objects.
LEMMA InferObjects ==
  ASSUME Control, VectorInv, Meaning, NEW c \in Ops, ops[c] = graph.ops[c], inferred[c] = 0,
         Data(c) \subseteq Known, NEW first \in Data(c), Infer(c, Data(c), first)
  PROVE  LET r == handleLayoutInferenceOnInputs(c, Data(c), first) IN
         /\ DOMAIN vec' \subseteq DOMAIN vec \cup Out(c) \cup Consts
         /\ \A x \in DOMAIN vec \cup DOMAIN r.made : x \notin Consts => vec'[x] = Settled(c, r, first, x)
         /\ \A o \in Known : origin'[o] = origin[o]
         /\ \A o \in Enter(c) : origin'[o] = Objects(c, r, first)[o]
         /\ clobbered' = (clobbered
              \/ \E x \in Reset(c, r, first) :
                   /\ ~isAligned(With(vec, r.made)[x])
                   /\ \/ \E o \in WaitingElse(c) : origin[o] = x
                      \/ \E o \in Out(c) \ graph.outputs : Objects(c, r, first)[o] = x)
<1> DEFINE r == handleLayoutInferenceOnInputs(c, Data(c), first)
           outs == ToSet(ops[c].outs)
           object == IF r.made = Passed THEN [o \in outs |-> origin[first]] ELSE [o \in outs |-> o]
           value == With(vec, r.made)
           layout(o) == value[object[o]]
           read == {o \in outs : getConsumers(o) # {}}
           reset == {object[o] : o \in read \cap graph.outputs}
           const == [k \in r.consts |-> permuteConst(k, layout(ops[c].outs[1]))]
           turned == {k \in r.consts : ~isAligned(const[k])}
           remade == turned \cap DOMAIN permOf
           settled == [x \in DOMAIN value |->
                         IF x \in reset THEN Identity(Cardinality(DOMAIN value[x])) ELSE value[x]]
           waiting == {o \in DOMAIN origin :
                         \/ o \in ToSet(queue)
                         \/ o = operand /\ todo # {c}
                         \/ \E d \in DOMAIN ops \ {c} : o \in cached[d] /\ inferred[d] = 0}
           enter == read \cup (outs \ graph.outputs)
<1>1. /\ origin' = With(origin, [o \in enter |-> object[o]])
      /\ vec' = With(settled, [k \in remade |-> const[k]])
      /\ clobbered' = (clobbered
           \/ \E x \in reset : /\ ~isAligned(value[x])
                               /\ \/ \E o \in waiting : origin[o] = x
                                  \/ \E o \in outs \ graph.outputs : object[o] = x)
  BY Zenon DEF Infer
<1>2. outs = Out(c) /\ Ops = DOMAIN ops
  BY DEF Out, Control, Types, Ops
<1>3. HandedOver(c, first, r)
  BY Handled
<1>4. r.consts \subseteq Consts /\ DOMAIN r.made \subseteq Out(c)
  <2>1. DOMAIN Passed = {}
    BY DEF Passed
  <2> HIDE DEF r
  <2> QED
    BY <1>3, <2>1 DEF HandedOver
<1> HIDE DEF r, outs
<1>5. object = Objects(c, r, first) /\ reset = Reset(c, r, first) /\ waiting = WaitingElse(c) /\ enter = Enter(c)
  <2>1. object = Objects(c, r, first)
    BY <1>2 DEF Objects
  <2> HIDE DEF object
  <2>2. reset = Reset(c, r, first)
    BY <1>2, <2>1 DEF Reset
  <2>3. waiting = WaitingElse(c)
    BY <1>2 DEF WaitingElse, Known
  <2>4. enter = Enter(c)
    BY <1>2 DEF Enter
  <2> QED
    BY <2>1, <2>2, <2>3, <2>4
<1>6. Enter(c) \cap Known = {}
  BY Entering
<1>7. remade \subseteq Consts
  BY <1>4
<1> HIDE DEF object, const, remade, reset, waiting, enter
<1>8. DOMAIN value = DOMAIN vec \cup DOMAIN r.made
  BY DEF With
<1>9. DOMAIN vec' \subseteq DOMAIN vec \cup Out(c) \cup Consts
  <2>1. DOMAIN vec' = DOMAIN value \cup remade
    BY <1>1 DEF With
  <2> QED
    BY <1>4, <1>7, <1>8, <2>1
<1>10. ASSUME NEW x \in DOMAIN vec \cup DOMAIN r.made, x \notin Consts PROVE vec'[x] = Settled(c, r, first, x)
  <2>1. vec'[x] = settled[x]
    BY <1>1, <1>7, <1>8, <1>10 DEF With
  <2>2. settled[x] = Settled(c, r, first, x)
    BY <1>5, <1>8 DEF Settled
  <2> QED
    BY <2>1, <2>2
<1>11. \A o \in Known : origin'[o] = origin[o]
  BY <1>1, <1>5, <1>6 DEF With, Known
<1>12. \A o \in Enter(c) : origin'[o] = Objects(c, r, first)[o]
  BY <1>1, <1>5 DEF With
<1> HIDE DEF value
<1>13. clobbered' = (clobbered
              \/ \E x \in Reset(c, r, first) :
                   /\ ~isAligned(value[x])
                   /\ \/ \E o \in WaitingElse(c) : origin[o] = x
                      \/ \E o \in Out(c) \ graph.outputs : Objects(c, r, first)[o] = x)
  BY <1>1, <1>2, <1>5
<1> QED
  BY <1>9, <1>10, <1>11, <1>12, <1>13 DEF r, value

\* What is handed on is a permutation of the axes of what it is handed on with.
LEMMA HandedPermutation ==
  ASSUME Control, VectorInv, NEW c \in Ops, ops[c] = graph.ops[c], Data(c) \subseteq Known, NEW first \in Data(c)
  PROVE  LET r == handleLayoutInferenceOnInputs(c, Data(c), first) IN
         /\ DOMAIN r.made \subseteq Out(c)
         /\ \A o \in Out(c) : /\ Objects(c, r, first)[o] \in DOMAIN vec \cup DOMAIN r.made
                              /\ Handed(c, r, first)[o] = With(vec, r.made)[Objects(c, r, first)[o]]
                              /\ Rank(o) \in Nat /\ IsPermutation(Handed(c, r, first)[o], Rank(o))
<1> DEFINE r == handleLayoutInferenceOnInputs(c, Data(c), first)
<1>1. HandedOver(c, first, r)
  BY Handled
<1>2. DOMAIN Passed = {}
  BY DEF Passed
<1> HIDE DEF r
<1>3. DOMAIN r.made \subseteq Out(c)
  BY <1>1, <1>2 DEF HandedOver
<1>4. \A o \in Out(c) : Rank(o) \in Nat
  BY Makers, Ranks DEF Control, Types
<1>5. /\ r.made = Passed => \A o \in Out(c) : Handed(c, r, first)[o] = Held(first)
      /\ r.made # Passed /\ DOMAIN r.made = Out(c) => \A o \in Out(c) : Handed(c, r, first)[o] = r.made[o]
  BY HandedOn
<1>6. IsPermutation(Held(first), Rank(first)) /\ origin[first] \in DOMAIN vec
  BY HeldVector DEF Control, VectorInv
<1>7. ASSUME NEW o \in Out(c) PROVE IsPermutation(Handed(c, r, first)[o], Rank(o))
  BY <1>1, <1>5, <1>6 DEF HandedOver
<1>8. \A o \in Out(c) : Objects(c, r, first)[o] \in DOMAIN vec \cup DOMAIN r.made
  BY <1>1, <1>6 DEF HandedOver, Objects
<1>9. \A o \in Out(c) : Handed(c, r, first)[o] = With(vec, r.made)[Objects(c, r, first)[o]]
  BY DEF Handed
<1> QED
  BY <1>3, <1>4, <1>7, <1>8, <1>9 DEF r

-----------------------------------------------------------------------------
(* The rewritten model computes what the given one did                     *)

\* Only the constants an operation reads are transposed for it.
LEMMA ConstsRead ==
  ASSUME WellFormed(graph.ops, graph.ndim), NEW c \in Ops, ops[c] = graph.ops[c], NEW has, NEW first
  PROVE  handleLayoutInferenceOnInputs(c, has, first).consts \subseteq In(c)
<1> DEFINE op == graph.ops[c]
           r == handleLayoutInferenceOnInputs(c, has, first)
<1>1. op.kind \in Kinds /\ (op.kind \in {"conv", "deconv"} => op.ins[2] \in In(c)) /\ In(c) = ToSet(op.ins) /\ ops[c] = op
  BY Operands DEF In
<1> SUFFICES r.consts \subseteq In(c)
  OBVIOUS
<1> HIDE DEF op
<1>2. CASE op.kind \in {"elem", "concat"}
  <2>1. r = AlignInputs(c, has, first)
    BY <1>1, <1>2, Zenon DEF handleLayoutInferenceOnInputs
  <2>2. r.consts = {k \in ToSet(op.ins) : IsConst(k)}
    BY <1>1, <2>1 DEF AlignInputs, Outcome
  <2> QED
    BY <1>1, <2>2
<1>3. CASE op.kind = "depthwise"
  <2>1. r = AllToDriver(c, has)
    BY <1>1, <1>3, Zenon DEF handleLayoutInferenceOnInputs
  <2>2. r.consts = {k \in ToSet(op.ins) : op.nhwc /\ IsConst(k)}
    BY <1>1, <2>1 DEF AllToDriver, Outcome
  <2> QED
    BY <1>1, <2>2
<1>4. CASE op.kind \notin {"elem", "concat", "depthwise"}
  <2>1. \/ r \in {PassOn(c), ArgXXX(c), DataOnly(c), Default(c, has)}
        \/ r = ToDriver(c) /\ op.kind \in {"pool", "conv", "deconv"}
    BY <1>1, <1>4, Zenon DEF handleLayoutInferenceOnInputs
  <2>2. /\ PassOn(c).consts = {} /\ ArgXXX(c).consts = {}
        /\ DataOnly(c).consts = {} /\ Default(c, has).consts = {}
    BY DEF PassOn, ArgXXX, DataOnly, Default, Outcome
  <2>3. ToDriver(c).consts = {k \in (IF op.kind # "pool" /\ op.nhwc THEN {op.ins[2]} ELSE {}) : IsConst(k)}
    BY <1>1 DEF ToDriver, Outcome
  <2>4. op.kind \in {"pool", "conv", "deconv"} => ToDriver(c).consts \subseteq In(c)
    BY <1>1, <2>3
  <2> HIDE DEF r
  <2>5. CASE r = ToDriver(c) /\ op.kind \in {"pool", "conv", "deconv"}
    BY <2>4, <2>5
  <2>6. CASE r \in {PassOn(c), ArgXXX(c), DataOnly(c), Default(c, has)}
    <3>1. r.consts = {}
      BY <2>2, <2>6
    <3> QED
      BY <3>1
  <2> QED
    BY <2>1, <2>5, <2>6
<1> QED
  BY <1>2, <1>3, <1>4

\* The step in which the operation c, that has been given all its data, is inferred.
Inferring(c, first) ==
  /\ c \in todo /\ first \in Data(c) /\ Data(c) = cached[c] \cup {operand}
  /\ cached' = [cached EXCEPT ![c] = Data(c)] /\ todo' = todo \ {c}
  /\ UNCHANGED <<graph, operand>> /\ Infer(c, Data(c), first)

LEMMA InferringFacts ==
  ASSUME IInv, NEW c, NEW first, Inferring(c, first)
  PROVE  /\ c \in Ops /\ inferred[c] = 0 /\ ops[c] = graph.ops[c] /\ c \in Nat \ {0}
         /\ Control /\ VectorInv /\ Meaning /\ Types /\ WellFormed(graph.ops, graph.ndim)
         /\ first \in Data(c) /\ Infer(c, Data(c), first)
         /\ Data(c) \subseteq Known /\ Data(c) \subseteq Waiting
         /\ Ops' = Ops /\ \A d : In(d)' = In(d) /\ Out(d)' = Out(d) /\ Data(d)' = Data(d)
         /\ \A o : Rank(o)' = Rank(o)
         /\ \A d \in Ops : d # c => ops'[d] = ops[d]
         /\ Known' = Known \cup Enter(c)
         /\ inferred'[c] = 1 /\ \A d \in Ops : d # c => inferred'[d] = inferred[d]
<1>1. /\ c \in todo /\ first \in Data(c) /\ Data(c) = cached[c] \cup {operand}
      /\ UNCHANGED <<graph, operand>> /\ Infer(c, Data(c), first)
  BY DEF Inferring
<1>2. Control /\ VectorInv /\ Meaning /\ Types /\ WellFormed(graph.ops, graph.ndim)
  BY DEF IInv, Control, Types
<1>3. c \in Ops /\ operand \in Known /\ inferred[c] = 0 /\ ops[c] = graph.ops[c] /\ c \in Nat \ {0}
  BY <1>1, <1>2, Visited, Makers
<1>4. cached[c] \subseteq Known
  BY <1>2, <1>3 DEF Control, CachedInv
<1>5. Data(c) \subseteq Waiting
  BY <1>1, <1>3, <1>4 DEF Waiting
<1>6. /\ \A d \in Ops : d # c => ops'[d] = ops[d]
      /\ Known' = Known \cup Enter(c)
      /\ inferred' = [inferred EXCEPT ![c] = 1]
  BY <1>1, <1>2, <1>3, InferControl
<1>7. inferred'[c] = 1 /\ \A d \in Ops : d # c => inferred'[d] = inferred[d]
  BY <1>2, <1>3, <1>6 DEF Types
<1>8. Ops' = Ops /\ (\A d : In(d)' = In(d) /\ Out(d)' = Out(d) /\ Data(d)' = Data(d)) /\ \A o : Rank(o)' = Rank(o)
  BY <1>1 DEF Ops, In, Out, Data, Rank
<1> QED
  BY <1>1, <1>2, <1>3, <1>4, <1>5, <1>6, <1>7, <1>8

\* The layouts of what the operation makes are laid down, and nothing else.
LEMMA LaidDown ==
  ASSUME IInv, NEW c, NEW first, Inferring(c, first)
  PROVE  /\ DOMAIN laid' = DOMAIN laid \cup Out(c) /\ DOMAIN laid \cap Out(c) = {}
         /\ Known \subseteq DOMAIN laid
         /\ \A o \in DOMAIN laid : laid'[o] = laid[o]
         /\ \A o \in Out(c) : laid'[o] = IF o \in graph.outputs THEN Identity(Rank(o))
                                ELSE Handed(c, handleLayoutInferenceOnInputs(c, Data(c), first), first)[o]
<1> DEFINE r == handleLayoutInferenceOnInputs(c, Data(c), first)
<1>1. /\ c \in Ops /\ inferred[c] = 0 /\ ops[c] = graph.ops[c] /\ Control /\ Meaning
      /\ WellFormed(graph.ops, graph.ndim) /\ Infer(c, Data(c), first)
  BY InferringFacts
<1>2. laid' = With(laid, [o \in Out(c) |-> IF o \in graph.outputs THEN Identity(Rank(o)) ELSE Handed(c, r, first)[o]])
  BY <1>1, InferEffect
<1> HIDE DEF r
<1>3. DOMAIN laid = Inputs \cup UNION {Out(d) : d \in {e \in Ops : inferred[e] = 1}}
  BY <1>1 DEF Meaning, LaidInv
<1>4. DOMAIN laid \cap Out(c) = {}
  <2> SUFFICES ASSUME NEW o \in DOMAIN laid, o \in Out(c) PROVE FALSE
    OBVIOUS
  <2>1. o \notin Inputs
    BY <1>1, Makers
  <2>2. PICK d \in Ops : inferred[d] = 1 /\ o \in Out(d)
    BY <1>3, <2>1
  <2> QED
    BY <1>1, <2>2, Makers
<1>5. ASSUME NEW o \in Known PROVE o \in DOMAIN laid
  <2>1. o \in Inputs \/ \E d \in Ops : inferred[d] = 1 /\ o \in Out(d)
    BY <1>1 DEF Control, KnownInv
  <2> QED
    BY <1>3, <2>1
<1>6. /\ DOMAIN laid' = DOMAIN laid \cup Out(c)
      /\ \A o \in DOMAIN laid : o \notin Out(c) => laid'[o] = laid[o]
      /\ \A o \in Out(c) : laid'[o] = IF o \in graph.outputs THEN Identity(Rank(o)) ELSE Handed(c, r, first)[o]
  BY <1>2 DEF With
<1> QED
  BY <1>4, <1>5, <1>6 DEF r

LEMMA LaidStep == ASSUME IInv, NEW c, NEW first, Inferring(c, first) PROVE LaidInv'
<1> DEFINE r == handleLayoutInferenceOnInputs(c, Data(c), first)
<1>1. /\ c \in Ops /\ inferred[c] = 0 /\ ops[c] = graph.ops[c] /\ Control /\ VectorInv /\ Meaning
      /\ first \in Data(c) /\ Data(c) \subseteq Known
      /\ Ops' = Ops /\ (\A d : Out(d)' = Out(d)) /\ \A o : Rank(o)' = Rank(o)
      /\ inferred'[c] = 1 /\ \A d \in Ops : d # c => inferred'[d] = inferred[d]
  BY InferringFacts
<1>2. graph' = graph
  BY DEF Inferring
<1>3. /\ DOMAIN laid' = DOMAIN laid \cup Out(c) /\ DOMAIN laid \cap Out(c) = {}
      /\ \A o \in DOMAIN laid : laid'[o] = laid[o]
      /\ \A o \in Out(c) : laid'[o] = IF o \in graph.outputs THEN Identity(Rank(o)) ELSE Handed(c, r, first)[o]
  BY LaidDown
<1>4. \A o \in Out(c) : Rank(o) \in Nat /\ IsPermutation(Handed(c, r, first)[o], Rank(o))
  BY <1>1, HandedPermutation
<1> HIDE DEF r
<1>5. /\ DOMAIN laid = Inputs \cup UNION {Out(d) : d \in {e \in Ops : inferred[e] = 1}}
      /\ \A o \in DOMAIN laid : IsPermutation(laid[o], Rank(o))
      /\ \A o \in DOMAIN laid \cap (Inputs \cup graph.outputs) : laid[o] = Identity(Rank(o))
      /\ graph.outputs \subseteq UNION {Out(d) : d \in Ops}
  BY <1>1 DEF Meaning, LaidInv
<1>6. \A o : (\E e \in Ops : inferred'[e] = 1 /\ o \in Out(e))
                <=> o \in Out(c) \/ \E e \in Ops : inferred[e] = 1 /\ o \in Out(e)
  BY <1>1
<1>7. \A o : o \in DOMAIN laid <=> o \in Inputs \/ \E e \in Ops : inferred[e] = 1 /\ o \in Out(e)
  BY <1>5
<1>8. DOMAIN laid' = Inputs \cup UNION {Out(d) : d \in {e \in Ops : inferred'[e] = 1}}
  BY <1>3, <1>6, <1>7
<1>9. \A o \in Out(c) : IsPermutation(laid'[o], Rank(o))
  BY <1>3, <1>4, IdentityPermutation
<1> QED
  BY <1>1, <1>2, <1>3, <1>5, <1>8, <1>9 DEF LaidInv

LEMMA ObjectStep == ASSUME IInv, NEW c, NEW first, Inferring(c, first) PROVE ObjectInv'
<1> DEFINE r == handleLayoutInferenceOnInputs(c, Data(c), first)
<1>1. /\ c \in Ops /\ inferred[c] = 0 /\ ops[c] = graph.ops[c] /\ Control /\ VectorInv /\ Meaning
      /\ WellFormed(graph.ops, graph.ndim) /\ Infer(c, Data(c), first)
      /\ first \in Data(c) /\ Data(c) \subseteq Known /\ Known' = Known \cup Enter(c)
  BY InferringFacts
<1>2. DOMAIN laid' = DOMAIN laid \cup Out(c)
  BY LaidDown
<1>3. /\ DOMAIN vec' \subseteq DOMAIN vec \cup Out(c) \cup Consts
      /\ \A o \in Known : origin'[o] = origin[o]
      /\ \A o \in Enter(c) : origin'[o] = Objects(c, r, first)[o]
  BY <1>1, InferObjects
<1> HIDE DEF r
<1>4. DOMAIN vec \subseteq DOMAIN laid \cup Consts /\ \A o \in Known : origin[o] \notin Consts
  BY <1>1 DEF Meaning, ObjectInv
<1>5. Enter(c) \subseteq Out(c) /\ Out(c) \cap Consts = {}
  BY <1>1, Entering, Makers
<1>6. \A o \in Enter(c) : Objects(c, r, first)[o] \notin Consts
  BY <1>1, <1>4, <1>5 DEF Objects
<1> QED
  BY <1>1, <1>2, <1>3, <1>4, <1>6 DEF ObjectInv

LEMMA OwnStep == ASSUME IInv, NEW c, NEW first, Inferring(c, first) PROVE OwnInv'
<1> DEFINE r == handleLayoutInferenceOnInputs(c, Data(c), first)
<1>1. /\ c \in Ops /\ inferred[c] = 0 /\ ops[c] = graph.ops[c] /\ Control /\ VectorInv /\ Meaning
      /\ WellFormed(graph.ops, graph.ndim) /\ Infer(c, Data(c), first)
      /\ first \in Data(c) /\ Data(c) \subseteq Known
      /\ Ops' = Ops /\ (\A d : In(d)' = In(d))
      /\ \A d \in Ops : d # c => ops'[d] = ops[d]
      /\ inferred'[c] = 1 /\ \A d \in Ops : d # c => inferred'[d] = inferred[d]
  BY InferringFacts
<1>2. graph' = graph
  BY DEF Inferring
<1>3. /\ \A x \in DOMAIN graph.ops[c].ins :
           ops'[c].ins[x] = IF graph.ops[c].ins[x] \in Before(r) THEN Clone(c, graph.ops[c].ins[x])
                                                               ELSE graph.ops[c].ins[x]
      /\ \A x \in DOMAIN graph.ops[c].outs :
           ops'[c].outs[x] = IF graph.ops[c].outs[x] \in After(c, r, first) THEN Clone(c, graph.ops[c].outs[x])
                                                                          ELSE graph.ops[c].outs[x]
      /\ permutes' = permutes \cup Permuted(c, r) \cup Undone(c, r, first)
      /\ perm' = With(perm, [k \in r.consts |-> permuteConst(k, Handed(c, r, first)[graph.ops[c].outs[1]])])
  BY <1>1, InferEffect
<1>4. HandedOver(c, first, r)
  BY <1>1, Handled
<1>5. r.consts \subseteq In(c)
  BY <1>1, ConstsRead
<1> HIDE DEF r
<1>6. Before(r) \subseteq Operand /\ After(c, r, first) \subseteq Operand
  BY <1>1, <1>4, Makers DEF HandedOver, Before, After
<1>7. OwnInv
  BY <1>1, Zenon DEF Meaning
<1>8. \A d \in Ops : \A x \in DOMAIN graph.ops[d].ins : ops'[d].ins[x] \in {graph.ops[d].ins[x], Clone(d, graph.ops[d].ins[x])}
  BY <1>1, <1>3, <1>7 DEF OwnInv
<1>9. \A d \in Ops : \A x \in DOMAIN graph.ops[d].outs : ops'[d].outs[x] \in {graph.ops[d].outs[x], Clone(d, graph.ops[d].outs[x])}
  BY <1>1, <1>3, <1>7 DEF OwnInv
<1>10. \A d \in Ops : inferred[d] = 1 => inferred'[d] = 1
  BY <1>1
<1>11. ASSUME NEW p \in permutes'
       PROVE  \E d \in Ops : inferred'[d] = 1 /\ ((\E o \in Operand : p.to = Clone(d, o)) \/ \E o \in Operand : p.from = Clone(d, o))
  <2>1. CASE p \in permutes
    BY <1>7, <1>10, <2>1 DEF OwnInv
  <2>2. CASE p \in Permuted(c, r)
    <3>1. PICK o \in Before(r) : p = [perm |-> r.align[o], from |-> o, to |-> Clone(c, o)]
      BY <2>2 DEF Permuted
    <3>2. p.to = Clone(c, o)
      BY <3>1
    <3> QED
      BY <1>1, <1>6, <3>2
  <2>3. CASE p \in Undone(c, r, first)
    <3>1. PICK o \in After(c, r, first) : p = [perm |-> reverse(Handed(c, r, first)[o]), from |-> Clone(c, o), to |-> o]
      BY <2>3 DEF Undone
    <3>2. p.from = Clone(c, o)
      BY <3>1
    <3> QED
      BY <1>1, <1>6, <3>2
  <2> QED
    BY <1>3, <2>1, <2>2, <2>3
<1>12. \A k \in DOMAIN perm' : \E d \in Ops : inferred'[d] = 1 /\ k \in In(d)
  <2>1. DOMAIN perm' = DOMAIN perm \cup r.consts
    BY <1>3 DEF With
  <2> QED
    BY <1>1, <1>5, <1>7, <1>10, <2>1 DEF OwnInv
<1>13. \A d, o : Clone(d, o)' = Clone(d, o)
  BY DEF Clone
<1> QED
  BY <1>1, <1>2, <1>8, <1>9, <1>11, <1>12, <1>13 DEF OwnInv

\* Whoever waits after the step has waited for another operation, or has just been made.
LEMMA WaitingAfter ==
  ASSUME IInv, NEW c, NEW first, Inferring(c, first)
  PROVE  Waiting' \subseteq WaitingElse(c) \cup Enter(c) /\ WaitingElse(c) \subseteq Waiting /\ WaitingElse(c) \subseteq Known
<1>1. /\ c \in Ops /\ inferred[c] = 0 /\ ops[c] = graph.ops[c] /\ Control /\ Types
      /\ Infer(c, Data(c), first) /\ Ops' = Ops /\ Known' = Known \cup Enter(c)
      /\ inferred'[c] = 1 /\ \A d \in Ops : d # c => inferred'[d] = inferred[d]
  BY InferringFacts
<1>2. /\ c \in todo /\ todo' = todo \ {c} /\ operand' = operand
      /\ cached' = [cached EXCEPT ![c] = Data(c)]
  BY DEF Inferring
<1>3. \A d \in Ops : d # c => cached'[d] = cached[d]
  BY <1>1, <1>2 DEF Types
<1>4. ToSet(queue') = ToSet(queue) \cup Enter(c)
  <2>1. PICK next \in SetToSeqs(Enter(c)) : queue' = queue \o next
    BY <1>1, InferControl
  <2>2. Enter(c) \cap Known = {} /\ IsFiniteSet(Enter(c)) /\ Enter(c) \subseteq Operand
    BY <1>1, Entering
  <2>3. next \in Seq(Enter(c)) /\ ToSet(next) = Enter(c) /\ \A j, k \in 1..Len(next) : next[j] = next[k] => j = k
    BY <2>2, Enumeration
  <2>4. next \in Seq(Operand)
    BY <2>2, <2>3
  <2>5. /\ queue \in Seq(Operand) /\ ToSet(queue) \cap Enter(c) = {}
        /\ \A j, k \in 1..Len(queue) : queue[j] = queue[k] => j = k
    BY <1>1, <2>2 DEF Control, Types, QueuedOnce
  <2> QED
    BY <2>1, <2>3, <2>4, <2>5, Appended
<1>5. ASSUME NEW o \in Waiting' PROVE o \in WaitingElse(c) \cup Enter(c)
  <2>1. /\ o \in Known \cup Enter(c)
        /\ \/ o \in ToSet(queue) \cup Enter(c)
           \/ o = operand /\ todo \ {c} # {}
           \/ \E d \in Ops : o \in cached'[d] /\ inferred'[d] = 0
    BY <1>1, <1>2, <1>4 DEF Waiting
  <2>2. (\E d \in Ops : o \in cached'[d] /\ inferred'[d] = 0) => \E d \in Ops \ {c} : o \in cached[d] /\ inferred[d] = 0
    BY <1>1, <1>3
  <2>3. todo \ {c} # {} => todo # {c}
    OBVIOUS
  <2> QED
    BY <2>1, <2>2, <2>3 DEF WaitingElse
<1>6. WaitingElse(c) \subseteq Waiting
  BY <1>2 DEF WaitingElse, Waiting
<1> QED
  BY <1>5, <1>6 DEF WaitingElse

LEMMA HeldStep == ASSUME IInv, NEW c, NEW first, Inferring(c, first) PROVE HeldInv'
<1> DEFINE r == handleLayoutInferenceOnInputs(c, Data(c), first)
           v(x) == With(vec, r.made)[x]
<1> SUFFICES ASSUME ~clobbered', NEW o \in Waiting' PROVE Held(o)' = laid'[o]
  BY DEF HeldInv
<1>1. /\ c \in Ops /\ inferred[c] = 0 /\ ops[c] = graph.ops[c] /\ Control /\ VectorInv /\ Meaning
      /\ WellFormed(graph.ops, graph.ndim) /\ Infer(c, Data(c), first)
      /\ first \in Data(c) /\ Data(c) \subseteq Known /\ Known' = Known \cup Enter(c)
  BY InferringFacts
<1>2. /\ DOMAIN laid \cap Out(c) = {} /\ Known \subseteq DOMAIN laid
      /\ \A p \in DOMAIN laid : laid'[p] = laid[p]
      /\ \A p \in Out(c) : laid'[p] = IF p \in graph.outputs THEN Identity(Rank(p)) ELSE Handed(c, r, first)[p]
  BY LaidDown
<1>3. /\ \A x \in DOMAIN vec \cup DOMAIN r.made : x \notin Consts => vec'[x] = Settled(c, r, first, x)
      /\ \A p \in Known : origin'[p] = origin[p]
      /\ \A p \in Enter(c) : origin'[p] = Objects(c, r, first)[p]
      /\ clobbered' = (clobbered
              \/ \E x \in Reset(c, r, first) :
                   /\ ~isAligned(v(x))
                   /\ \/ \E p \in WaitingElse(c) : origin[p] = x
                      \/ \E p \in Out(c) \ graph.outputs : Objects(c, r, first)[p] = x)
  BY <1>1, InferObjects
<1>4. /\ DOMAIN r.made \subseteq Out(c)
      /\ \A p \in Out(c) : /\ Objects(c, r, first)[p] \in DOMAIN vec \cup DOMAIN r.made
                           /\ Handed(c, r, first)[p] = v(Objects(c, r, first)[p])
                           /\ Rank(p) \in Nat /\ IsPermutation(Handed(c, r, first)[p], Rank(p))
  BY <1>1, HandedPermutation
<1> HIDE DEF r
<1>5. \A x : Settled(c, r, first, x) = IF x \in Reset(c, r, first) THEN Identity(Cardinality(DOMAIN v(x))) ELSE v(x)
  BY DEF Settled
<1>6. \A x \in DOMAIN vec : x \notin DOMAIN r.made => v(x) = vec[x]
  BY DEF With
<1> HIDE DEF v
<1>7. \A x \in Reset(c, r, first) : \/ isAligned(v(x))
                                    \/ /\ \A p \in WaitingElse(c) : origin[p] # x
                                       /\ \A p \in Out(c) \ graph.outputs : Objects(c, r, first)[p] # x
  BY <1>3
<1>8. \A x : isAligned(v(x)) => v(x) = Identity(Cardinality(DOMAIN v(x)))
  BY DEF isAligned
<1>9. ~clobbered /\ \A p \in Waiting : Held(p) = laid[p]
  BY <1>1, <1>3 DEF Meaning, HeldInv
<1>10. o \in WaitingElse(c) \cup Enter(c) /\ WaitingElse(c) \subseteq Waiting /\ WaitingElse(c) \subseteq Known
  BY WaitingAfter
<1>11. CASE o \in WaitingElse(c)
  <2> DEFINE x == origin[o]
  <2>1. o \in Known /\ x \in DOMAIN vec /\ x \notin Consts
    BY <1>1, <1>10, <1>11 DEF Meaning, ObjectInv, VectorInv
  <2>2. x \notin DOMAIN r.made
    BY <1>1, <1>2, <1>4, <2>1 DEF Meaning, ObjectInv
  <2>3. vec'[x] = Settled(c, r, first, x) /\ origin'[o] = x
    BY <1>3, <2>1
  <2>4. x \in Reset(c, r, first) => isAligned(v(x))
    BY <1>7, <1>11
  <2>5. vec'[x] = vec[x]
    BY <1>5, <1>6, <1>8, <2>1, <2>2, <2>3, <2>4
  <2>6. vec[x] = laid[o] /\ laid'[o] = laid[o]
    BY <1>2, <1>9, <1>10, <1>11, <2>1 DEF Held
  <2> QED
    BY <2>3, <2>5, <2>6 DEF Held
<1>12. CASE o \in Enter(c)
  <2> DEFINE x == Objects(c, r, first)[o]
  <2>1. o \in Out(c) /\ (o \in graph.outputs => getConsumers(o) # {})
    BY <1>12 DEF Enter
  <2>2. x \in DOMAIN vec \cup DOMAIN r.made /\ v(x) = Handed(c, r, first)[o]
    BY <1>4, <2>1
  <2>3. x \notin Consts
    <3>1. o \notin Consts
      BY <1>1, <2>1, Makers
    <3>2. origin[first] \notin Consts
      BY <1>1 DEF Meaning, ObjectInv
    <3> QED
      BY <2>1, <3>1, <3>2 DEF Objects
  <2>4. vec'[x] = Settled(c, r, first, x) /\ origin'[o] = x
    BY <1>3, <1>12, <2>2, <2>3
  <2> HIDE DEF x
  <2>5. CASE o \in graph.outputs
    <3>1. x \in Reset(c, r, first)
      BY <2>1, <2>5 DEF Reset, x
    <3>2. Cardinality(DOMAIN v(x)) = Rank(o)
      BY <1>4, <2>1, <2>2, Permutation
    <3>3. vec'[x] = Identity(Rank(o))
      BY <1>5, <2>4, <3>1, <3>2
    <3> QED
      BY <1>2, <2>1, <2>4, <2>5, <3>3 DEF Held
  <2>6. CASE o \notin graph.outputs
    <3>1. x \in Reset(c, r, first) => isAligned(v(x))
      BY <1>7, <2>1, <2>6 DEF x
    <3>2. vec'[x] = v(x)
      BY <1>5, <1>8, <2>4, <3>1
    <3> QED
      BY <1>2, <2>1, <2>2, <2>4, <2>6, <3>2 DEF Held
  <2> QED
    BY <2>5, <2>6
<1> QED
  BY <1>10, <1>11, <1>12

\* The permutes between two operands, and one of some.
Between(P, from, to) == {p \in P : p.from = from /\ p.to = to}
OneOf(P) == (CHOOSE p \in P : TRUE).perm

\* The step puts permutes next to the operands of c, and nowhere else.
LEMMA PermutesAfter ==
  ASSUME IInv, NEW c, NEW first, Inferring(c, first)
  PROVE  LET r == handleLayoutInferenceOnInputs(c, Data(c), first) IN
         /\ \A d \in Ops : \A o \in Operand : d # c =>
              /\ PermuteBetween(o, Clone(d, o))' = PermuteBetween(o, Clone(d, o))
              /\ PermuteBetween(Clone(d, o), o)' = PermuteBetween(Clone(d, o), o)
         /\ \A o \in Before(r) : PermuteBetween(o, Clone(c, o))' = r.align[o]
         /\ \A o \in After(c, r, first) : PermuteBetween(Clone(c, o), o)' = reverse(Handed(c, r, first)[o])
<1> DEFINE r == handleLayoutInferenceOnInputs(c, Data(c), first)
           ins(o) == [perm |-> r.align[o], from |-> o, to |-> Clone(c, o)]
           outs(o) == [perm |-> reverse(Handed(c, r, first)[o]), from |-> Clone(c, o), to |-> o]
<1>1. /\ c \in Ops /\ inferred[c] = 0 /\ ops[c] = graph.ops[c] /\ Control /\ VectorInv /\ Meaning
      /\ WellFormed(graph.ops, graph.ndim) /\ Infer(c, Data(c), first)
      /\ first \in Data(c) /\ Data(c) \subseteq Known
  BY InferringFacts
<1>2. permutes' = permutes \cup Permuted(c, r) \cup Undone(c, r, first)
  BY <1>1, InferEffect
<1>3. HandedOver(c, first, r)
  BY <1>1, Handled
<1> HIDE DEF r
<1>4. Before(r) \subseteq Operand /\ After(c, r, first) \subseteq Operand
  BY <1>1, <1>3, Makers DEF HandedOver, Before, After
<1>5. Ops \subseteq Nat \ {0}
  BY <1>1, Makers
<1>6. /\ \A d, e \in Ops : \A o, q \in Operand : Clone(d, o) = Clone(e, q) => d = e /\ o = q
      /\ \A d \in Ops : \A o \in Operand : Clone(d, o) \notin Operand
  BY <1>5, CloneUnique, Clones
<1>7. \A o : /\ ins(o).from = o /\ ins(o).to = Clone(c, o) /\ ins(o).perm = r.align[o]
             /\ outs(o).from = Clone(c, o) /\ outs(o).to = o /\ outs(o).perm = reverse(Handed(c, r, first)[o])
  OBVIOUS
<1>8. permutes' = permutes \cup {ins(o) : o \in Before(r)} \cup {outs(o) : o \in After(c, r, first)}
  BY <1>2 DEF Permuted, Undone
<1> HIDE DEF ins, outs
<1>9. \A from, to : /\ PermuteBetween(from, to) = OneOf(Between(permutes, from, to))
                    /\ PermuteBetween(from, to)' = OneOf(Between(permutes', from, to))
  BY DEF PermuteBetween, OneOf, Between
<1>10. \A p \in permutes : \E d \in Ops :
          d # c /\ ((\E o \in Operand : p.to = Clone(d, o)) \/ \E o \in Operand : p.from = Clone(d, o))
  BY <1>1 DEF Meaning, OwnInv
<1>11. ASSUME NEW d \in Ops, NEW o \in Operand, d # c
       PROVE  /\ Between(permutes', o, Clone(d, o)) = Between(permutes, o, Clone(d, o))
              /\ Between(permutes', Clone(d, o), o) = Between(permutes, Clone(d, o), o)
  <2>1. ASSUME NEW q \in Before(r) PROVE ~(ins(q).from = o /\ ins(q).to = Clone(d, o)) /\ ~(ins(q).from = Clone(d, o) /\ ins(q).to = o)
    BY <1>1, <1>4, <1>6, <1>7, <1>11
  <2>2. ASSUME NEW q \in After(c, r, first) PROVE ~(outs(q).from = o /\ outs(q).to = Clone(d, o)) /\ ~(outs(q).from = Clone(d, o) /\ outs(q).to = o)
    BY <1>1, <1>4, <1>6, <1>7, <1>11
  <2> QED
    BY <1>8, <2>1, <2>2 DEF Between
<1>12. ASSUME NEW o \in Operand, NEW p \in permutes
       PROVE  ~(p.from = o /\ p.to = Clone(c, o)) /\ ~(p.from = Clone(c, o) /\ p.to = o)
  <2>1. PICK d \in Ops : d # c /\ ((\E q \in Operand : p.to = Clone(d, q)) \/ \E q \in Operand : p.from = Clone(d, q))
    BY <1>10
  <2>2. \A q \in Operand : Clone(d, q) # Clone(c, o) /\ Clone(d, q) # o
    BY <1>1, <1>6, <2>1
  <2> QED
    BY <2>1, <2>2
<1>13. ASSUME NEW o \in Before(r) PROVE Between(permutes', o, Clone(c, o)) = {ins(o)}
  <2>1. \A q \in After(c, r, first) : outs(q).from # o
    BY <1>1, <1>4, <1>6, <1>7
  <2>2. \A q \in Before(r) : ins(q).from = o => q = o
    BY <1>7
  <2> QED
    BY <1>8, <1>4, <1>7, <1>12, <2>1, <2>2 DEF Between
<1>14. ASSUME NEW o \in After(c, r, first) PROVE Between(permutes', Clone(c, o), o) = {outs(o)}
  <2>1. \A q \in Before(r) : ins(q).to # o
    BY <1>1, <1>4, <1>6, <1>7
  <2>2. \A q \in After(c, r, first) : outs(q).to = o => q = o
    BY <1>7
  <2> QED
    BY <1>8, <1>4, <1>7, <1>12, <2>1, <2>2 DEF Between
<1>15. \A p : OneOf({p}) = p.perm
  BY DEF OneOf
<1> QED
  BY <1>7, <1>9, <1>11, <1>13, <1>14, <1>15 DEF r

\* What others read and make stays as it was.
LEMMA OthersKept ==
  ASSUME IInv, NEW c, NEW first, Inferring(c, first), ~ConstReadTwice, NEW d \in Ops, d # c, inferred[d] = 1
  PROVE  (Agrees(laid, d) /\ Satisfied(laid, d)) => Agrees(laid, d)' /\ Satisfied(laid, d)'
<1> DEFINE r == handleLayoutInferenceOnInputs(c, Data(c), first)
           op == graph.ops[d]
<1>1. /\ c \in Ops /\ inferred[c] = 0 /\ ops[c] = graph.ops[c] /\ Control /\ VectorInv /\ Meaning
      /\ WellFormed(graph.ops, graph.ndim) /\ Infer(c, Data(c), first) /\ ops'[d] = ops[d]
  BY InferringFacts
<1>2. graph' = graph
  BY DEF Inferring
<1>3. Known \subseteq DOMAIN laid /\ \A o \in DOMAIN laid : laid'[o] = laid[o]
  BY LaidDown
<1>4. perm' = With(perm, [k \in r.consts |-> permuteConst(k, Handed(c, r, first)[graph.ops[c].outs[1]])])
  BY <1>1, InferEffect
<1>5. r.consts \subseteq In(c) /\ r.consts \subseteq Consts
  BY <1>1, ConstsRead, Handled, InferringFacts DEF HandedOver
<1> HIDE DEF r
<1>6. \A o \in Operand : /\ PermuteBetween(o, Clone(d, o))' = PermuteBetween(o, Clone(d, o))
                         /\ PermuteBetween(Clone(d, o), o)' = PermuteBetween(Clone(d, o), o)
  BY PermutesAfter
<1>7. \A o \in In(d) \cap Consts : o \notin r.consts
  BY <1>1, <1>5 DEF ConstReadTwice, In, Control, Types
<1>8. ASSUME NEW o \in In(d) \cap Consts PROVE (o \in DOMAIN perm' <=> o \in DOMAIN perm) /\ (o \in DOMAIN perm => perm'[o] = perm[o])
  BY <1>4, <1>7 DEF With
<1>9. In(d) \subseteq Operand /\ Out(d) \subseteq Operand
  BY <1>1, Makers
<1>10. Data(d) \subseteq DOMAIN laid /\ Out(d) \subseteq DOMAIN laid
  <2>1. Data(d) \subseteq Known
    BY <1>1 DEF Control, ReadyInv, CachedInv
  <2> QED
    BY <1>1, <1>3, <2>1 DEF Meaning, LaidInv
<1>11. \A x \in DOMAIN op.ins : op.ins[x] \in In(d) /\ ops[d].ins[x] \in {op.ins[x], Clone(d, op.ins[x])}
  BY <1>1 DEF In, ToSet, Meaning, OwnInv
<1>12. \A x \in DOMAIN op.outs : op.outs[x] \in Out(d) /\ ops[d].outs[x] \in {op.outs[x], Clone(d, op.outs[x])}
  BY <1>1 DEF Out, ToSet, Meaning, OwnInv
<1>13. ASSUME NEW x \in DOMAIN op.ins PROVE Reads(laid, d, x)' = Reads(laid, d, x)
  <2>1. PICK o, to : o = op.ins[x] /\ to = ops[d].ins[x]
    OBVIOUS
  <2>2. o \in In(d) /\ o \in Operand /\ to \in {o, Clone(d, o)} /\ (o \notin Consts => o \in DOMAIN laid)
    BY <1>9, <1>10, <1>11, <2>1 DEF Data
  <2>3. Reads(laid, d, x) = CASE IsConst(o) -> IF o \in DOMAIN perm THEN perm[o] ELSE Identity(graph.ndim[o])
                              [] ~IsConst(o) /\ to = o -> laid[o]
                              [] OTHER -> add(laid[o], PermuteBetween(o, to))
    BY <2>1 DEF Reads
  <2>4. Reads(laid, d, x)' = CASE IsConst(o) -> IF o \in DOMAIN perm' THEN perm'[o] ELSE Identity(graph.ndim[o])
                               [] ~IsConst(o) /\ to = o -> laid'[o]
                               [] OTHER -> add(laid'[o], PermuteBetween(o, to)')
    BY <1>1, <1>2, <2>1 DEF Reads, IsConst, add, Identity, PermuteBetween
  <2>5. CASE IsConst(o)
    BY <1>8, <2>2, <2>3, <2>4, <2>5 DEF IsConst
  <2>6. CASE ~IsConst(o) /\ to = o
    BY <1>3, <2>2, <2>3, <2>4, <2>6 DEF IsConst
  <2>7. CASE ~IsConst(o) /\ to # o
    <3>1. to = Clone(d, o) /\ PermuteBetween(o, to)' = PermuteBetween(o, to) /\ laid'[o] = laid[o]
      BY <1>3, <1>6, <2>2, <2>7 DEF IsConst
    <3> QED
      BY <2>3, <2>4, <2>7, <3>1
  <2> QED
    BY <2>5, <2>6, <2>7
<1>14. \A o \in In(d) : IsConst(o) => o \in Consts
  BY DEF IsConst
<1>15. op \in Op /\ 1 \in DOMAIN op.ins /\ \A o \in Out(d) : PermuteBetween(Clone(d, o), o)' = PermuteBetween(Clone(d, o), o)
  <2>1. In(d) # {} /\ op \in Op
    BY <1>1, Makers DEF Data
  <2> QED
    BY <1>6, <1>9, <2>1 DEF In, ToSet, Op
<1>16. ASSUME NEW o PROVE Makes(laid, d, o)' = Makes(laid, d, o)
  <2>1. Reads(laid, d, 1)' = Reads(laid, d, 1)
    BY <1>13, <1>15
  <2>2. ToDriverLayout(d)' = ToDriverLayout(d)
    BY <1>2 DEF ToDriverLayout
  <2> QED
    BY <1>2, <2>1, <2>2, Zenon DEF Makes, Without, Required, Identity
<1>17. Agrees(laid, d) => Agrees(laid, d)'
  <2> SUFFICES ASSUME Agrees(laid, d) PROVE Agrees(laid, d)'
    OBVIOUS
  <2> SUFFICES ASSUME NEW x \in DOMAIN op.outs, NEW o, NEW from, o = op.outs[x], from = ops[d].outs[x]
               PROVE  laid'[o] = IF from = o THEN Makes(laid, d, o)'
                                             ELSE add(Makes(laid, d, o)', PermuteBetween(from, o)')
    BY <1>1, <1>2 DEF Agrees, add
  <2>1. laid[o] = IF from = o THEN Makes(laid, d, o) ELSE add(Makes(laid, d, o), PermuteBetween(from, o))
    BY DEF Agrees
  <2>2. o \in Out(d) /\ from \in {o, Clone(d, o)}
    BY <1>12
  <2>3. laid'[o] = laid[o] /\ Makes(laid, d, o)' = Makes(laid, d, o)
    BY <1>3, <1>10, <1>16, <2>2
  <2>4. from # o => PermuteBetween(from, o)' = PermuteBetween(from, o)
    BY <1>15, <2>2
  <2> QED
    BY <2>1, <2>3, <2>4
<1>18. Satisfied(laid, d) => Satisfied(laid, d)'
  <2> DEFINE read == Reads(laid, d, 1)
             axisMoved == read[ops[d].axis] = op.axis
             oneLayout == \A x \in DOMAIN op.ins : Reads(laid, d, x) = read
             needs == CASE op.kind = "act" -> TRUE
                        [] op.kind \in {"axis", "arg"} -> axisMoved
                        [] op.kind = "elem" -> oneLayout
                        [] op.kind = "concat" -> oneLayout /\ axisMoved
                        [] ToDriverLayout(d) -> /\ read = Required(op)
                                                /\ op.kind # "pool" => Reads(laid, d, 2) = Required(op)
                        [] OTHER -> \A x \in DOMAIN op.ins : isAligned(Reads(laid, d, x))
  <2>1. Satisfied(laid, d) = needs
    BY DEF Satisfied
  <2>2. Satisfied(laid, d)' = needs'
    BY <1>2 DEF Satisfied
  <2>3. op' = op /\ ops'[d] = ops[d] /\ ToDriverLayout(d)' = ToDriverLayout(d) /\ Required(op)' = Required(op)
    BY <1>1, <1>2 DEF ToDriverLayout, Required, Identity
  <2>4. \A x \in DOMAIN op.ins : Reads(laid, d, x)' = Reads(laid, d, x) /\ isAligned(Reads(laid, d, x))' = isAligned(Reads(laid, d, x))
    BY <1>13 DEF isAligned, Identity
  <2>5. read' = read /\ axisMoved' = axisMoved /\ oneLayout' = oneLayout
    BY <1>13, <1>15, <2>3
  <2>6. ToDriverLayout(d) /\ op.kind # "pool" => 2 \in DOMAIN op.ins
    BY <1>1, <1>15, Makers DEF RanksFit, Op, ToDriverLayout
  <2> HIDE DEF op, read, axisMoved, oneLayout
  <2>7. needs' = needs
    BY <2>3, <2>4, <2>5, <2>6
  <2> QED
    BY <2>1, <2>2, <2>7
<1> QED
  BY <1>17, <1>18

\* After the step c reads what its handler was promised, if nothing excuses it.
LEMMA ReadsFed ==
  ASSUME IInv, NEW c, NEW first, Inferring(c, first), ~clobbered, ~ConstReadTwice, NEW x \in DOMAIN graph.ops[c].ins
  PROVE  Reads(laid, c, x)' = Fed(c, handleLayoutInferenceOnInputs(c, Data(c), first), first)[graph.ops[c].ins[x]]
<1> DEFINE op == graph.ops[c]
           r == handleLayoutInferenceOnInputs(c, Data(c), first)
<1> SUFFICES Reads(laid, c, x)' = Fed(c, r, first)[op.ins[x]]
  OBVIOUS
<1>1. /\ c \in Ops /\ inferred[c] = 0 /\ ops[c] = graph.ops[c] /\ Control /\ VectorInv /\ Meaning /\ Types
      /\ WellFormed(graph.ops, graph.ndim) /\ Infer(c, Data(c), first) /\ c \in Nat \ {0}
      /\ first \in Data(c) /\ Data(c) \subseteq Known /\ Data(c) \subseteq Waiting
  BY InferringFacts
<1>2. graph' = graph
  BY DEF Inferring
<1>3. Known \subseteq DOMAIN laid /\ \A o \in DOMAIN laid : laid'[o] = laid[o]
  BY LaidDown
<1>4. /\ \A y \in DOMAIN op.ins : ops'[c].ins[y] = IF op.ins[y] \in Before(r) THEN Clone(c, op.ins[y]) ELSE op.ins[y]
      /\ perm' = With(perm, [k \in r.consts |-> permuteConst(k, Handed(c, r, first)[op.outs[1]])])
  <2>1. Control /\ c \in Ops /\ ops[c] = graph.ops[c] /\ Infer(c, Data(c), first)
    BY <1>1
  <2> QED
    BY <2>1, InferEffect
<1>5. HandedOver(c, first, r) /\ r.consts \subseteq In(c)
  BY <1>1, Handled, ConstsRead
<1>6. \A o \in Before(r) : PermuteBetween(o, Clone(c, o))' = r.align[o]
  BY PermutesAfter
<1> HIDE DEF r
<1>7. PICK o, to : o = op.ins[x] /\ to = ops'[c].ins[x]
  OBVIOUS
<1>8. o \in In(c) /\ o \in Operand /\ Rank(o) \in Nat
  <2>1. o \in In(c)
    BY <1>7 DEF In, ToSet
  <2> QED
    BY <1>1, <2>1, Makers, Ranks
<1>9. Fed(c, r, first)[o] = IF o \in Consts
                            THEN IF o \in r.consts THEN Handed(c, r, first)[op.outs[1]] ELSE Identity(Rank(o))
                            ELSE IF o \in DOMAIN r.align THEN add(Held(o), r.align[o]) ELSE Held(o)
  BY <1>8 DEF Fed
<1>10. Reads(laid, c, x)' = CASE IsConst(o) -> IF o \in DOMAIN perm' THEN perm'[o] ELSE Identity(graph.ndim[o])
                              [] ~IsConst(o) /\ to = o -> laid'[o]
                              [] OTHER -> add(laid'[o], PermuteBetween(o, to)')
  BY <1>2, <1>7 DEF Reads, IsConst, add, Identity, PermuteBetween
<1>11. CASE o \in Consts
  <2>1. o \notin DOMAIN perm
    <3> SUFFICES ASSUME o \in DOMAIN perm PROVE FALSE
      OBVIOUS
    <3>1. PICK d \in Ops : inferred[d] = 1 /\ o \in In(d)
      BY <1>1 DEF Meaning, OwnInv
    <3>2. d # c /\ o \in In(d) \cap In(c) \cap Consts
      BY <1>1, <1>8, <1>11, <3>1
    <3> QED
      BY <1>1, <3>1, <3>2 DEF ConstReadTwice, In, Control, Types
  <2>2. o \notin DOMAIN permOf
    BY <1>1, <2>1 DEF VectorInv
  <2>3. o \in r.consts => o \in DOMAIN perm' /\ perm'[o] = Handed(c, r, first)[op.outs[1]]
    BY <1>4, <2>2 DEF With, permuteConst
  <2>4. o \notin r.consts => o \notin DOMAIN perm'
    BY <1>4, <2>1 DEF With
  <2> QED
    BY <1>7, <1>9, <1>10, <1>11, <2>3, <2>4 DEF IsConst, Rank
<1>12. CASE o \notin Consts
  <2>1. o \in Data(c)
    BY <1>8, <1>12 DEF Data
  <2>2. laid'[o] = Held(o) /\ IsPermutation(Held(o), Rank(o))
    BY <1>1, <1>3, <2>1, HeldVector, Zenon DEF Meaning, HeldInv
  <2>3. CASE o \in Before(r)
    <3>1. to = Clone(c, o) /\ o \in DOMAIN r.align
      BY <1>4, <1>7, <2>3 DEF Before
    <3>2. to # o
      BY <1>1, <1>8, <3>1, Clones
    <3>3. PermuteBetween(o, to)' = r.align[o]
      BY <1>6, <2>3, <3>1
    <3> QED
      BY <1>7, <1>9, <1>10, <1>12, <2>2, <3>1, <3>2, <3>3 DEF IsConst
  <2>4. CASE o \notin Before(r)
    <3>1. Reads(laid, c, x)' = Held(o)
      BY <1>4, <1>7, <1>10, <1>12, <2>2, <2>4 DEF IsConst
    <3>2. ASSUME o \in DOMAIN r.align PROVE add(Held(o), r.align[o]) = Held(o)
      <4>1. isAligned(r.align[o]) /\ IsPermutation(r.align[o], Rank(o))
        BY <1>5, <2>4, <3>2 DEF Before, HandedOver
      <4>2. r.align[o] = Identity(Rank(o))
        BY <1>8, <4>1, Aligned
      <4> QED
        BY <1>8, <2>2, <4>2, AddIdentity
    <3> QED
      BY <1>7, <1>9, <1>12, <3>1, <3>2, Zenon
  <2> QED
    BY <2>3, <2>4
<1> QED
  BY <1>11, <1>12

\* So the operation that is inferred does what it did.
LEMMA InferredDone ==
  ASSUME IInv, NEW c, NEW first, Inferring(c, first), ~clobbered, ~ConstReadTwice, ~KernelPermuted'
  PROVE  Agrees(laid, c)' /\ Satisfied(laid, c)'
<1> DEFINE op == graph.ops[c]
           r == handleLayoutInferenceOnInputs(c, Data(c), first)
           fed == Fed(c, r, first)
           handed == Handed(c, r, first)
<1>1. /\ c \in Ops /\ inferred[c] = 0 /\ ops[c] = graph.ops[c] /\ Control /\ VectorInv /\ Meaning /\ Types
      /\ WellFormed(graph.ops, graph.ndim) /\ Infer(c, Data(c), first) /\ c \in Nat \ {0}
      /\ first \in Data(c) /\ Data(c) \subseteq Known /\ Data(c) \subseteq Waiting /\ Ops' = Ops
  BY InferringFacts
<1>2. graph' = graph
  BY DEF Inferring
<1>3. /\ Known \subseteq DOMAIN laid /\ DOMAIN laid' = DOMAIN laid \cup Out(c)
      /\ \A o \in DOMAIN laid : laid'[o] = laid[o]
      /\ \A o \in Out(c) : laid'[o] = IF o \in graph.outputs THEN Identity(Rank(o)) ELSE handed[o]
  BY LaidDown
<1>4. /\ \A x \in DOMAIN op.outs : ops'[c].outs[x] = IF op.outs[x] \in After(c, r, first) THEN Clone(c, op.outs[x]) ELSE op.outs[x]
      /\ ops'[c].axis = r.axis
  BY <1>1, InferEffect
<1>5. \A o \in After(c, r, first) : PermuteBetween(Clone(c, o), o)' = reverse(handed[o])
  BY PermutesAfter
<1>6. \A o \in Out(c) : Rank(o) \in Nat /\ IsPermutation(handed[o], Rank(o))
  BY <1>1, HandedPermutation
<1>7. \A x \in DOMAIN op.ins : Reads(laid, c, x)' = fed[op.ins[x]]
  BY ReadsFed
<1>8. KernelFits(c)
  <2> SUFFICES ASSUME op.kind \in {"conv", "deconv"}, op.ins[2] \notin Consts
               PROVE  IF op.ins[2] = op.ins[1] THEN ~(op.nhwc /\ ToDriverLayout(c))
                      ELSE op.kind = "conv" \/ ToDriverLayout(c) => isAligned(Held(op.ins[2]))
    BY DEF KernelFits
  <2>1. op.ins[2] \in Data(c)
    BY <1>1, Operands DEF Data
  <2>2. op.ins[2] \in DOMAIN laid /\ laid'[op.ins[2]] = Held(op.ins[2])
    BY <1>1, <1>3, <2>1 DEF Meaning, HeldInv
  <2>3. c \in DOMAIN ops'
    BY <1>1, InferringFacts, InferControl DEF Ops
  <2>4. \A p : isAligned(p)' = isAligned(p) /\ ToDriverLayout(c)' = ToDriverLayout(c)
    BY <1>2 DEF isAligned, Identity, ToDriverLayout
  <2>5. ~(IF op.ins[2] = op.ins[1]
          THEN op.nhwc /\ ToDriverLayout(c)'
          ELSE /\ op.kind = "conv" \/ ToDriverLayout(c)'
               /\ op.ins[2] \in DOMAIN laid' /\ ~isAligned(laid[op.ins[2]])')
    BY <1>2, <2>3 DEF KernelPermuted
  <2>6. op.ins[2] \in DOMAIN laid' /\ (isAligned(laid[op.ins[2]])' <=> isAligned(laid'[op.ins[2]]))
    BY <1>2, <1>3, <2>2, <2>4 DEF isAligned, Identity
  <2> QED
    BY <2>2, <2>4, <2>5, <2>6
<1>9. RightlyFed(c, fed, r.axis) /\ RightlyMade(c, fed, handed)
  BY <1>1, <1>8, HandledRight
<1> HIDE DEF r, fed, handed
<1>10. /\ op \in Op /\ op.kind \in Kinds /\ 1 \in DOMAIN op.ins
       /\ op.kind \in {"conv", "deconv", "depthwise"} => 2 \in DOMAIN op.ins
       /\ \A x \in DOMAIN op.ins : op.ins[x] \in In(c)
       /\ ToDriverLayout(c) => op.kind \in {"pool", "conv", "deconv", "depthwise"}
       /\ op.kind \in {"act", "axis", "arg", "elem", "concat"} \/ ToDriverLayout(c) \/ Plain(c)
  <2>1. op \in Op /\ In(c) # {} /\ RanksFit(graph.ndim, op)
    BY <1>1, Makers DEF Data
  <2>2. op.kind = "depthwise" => ToDriverLayout(c)
    BY <1>1, Operands DEF ToDriverLayout, Rank
  <2>3. op.kind \in Kinds
    BY <2>1 DEF Op
  <2>4. ToDriverLayout(c) => op.kind \in {"pool", "conv", "deconv", "depthwise"}
    BY DEF ToDriverLayout
  <2>5. op.kind \in {"act", "axis", "arg", "elem", "concat"} \/ ToDriverLayout(c) \/ Plain(c)
    BY <2>2, <2>3 DEF Kinds, Plain
  <2>6. /\ 1 \in DOMAIN op.ins
        /\ op.kind \in {"conv", "deconv", "depthwise"} => 2 \in DOMAIN op.ins
        /\ \A x \in DOMAIN op.ins : op.ins[x] \in In(c)
    BY <2>1 DEF RanksFit, Op, In, ToSet
  <2> QED
    BY <2>1, <2>3, <2>4, <2>5, <2>6
<1>11. /\ \A x \in DOMAIN op.outs : op.outs[x] \in Out(c)
  BY DEF Out, ToSet
<1>12. Satisfied(laid, c)'
  <2> DEFINE read(x) == Reads(laid, c, x)'
             axisMoved == read(1)[r.axis] = op.axis
             oneLayout == \A x \in DOMAIN op.ins : read(x) = read(1)
             needs == CASE op.kind = "act" -> TRUE
                        [] op.kind \in {"axis", "arg"} -> axisMoved
                        [] op.kind = "elem" -> oneLayout
                        [] op.kind = "concat" -> oneLayout /\ axisMoved
                        [] ToDriverLayout(c) -> /\ read(1) = Required(op)
                                                /\ op.kind # "pool" => read(2) = Required(op)
                        [] OTHER -> \A x \in DOMAIN op.ins : isAligned(read(x))
  <2>1. Satisfied(laid, c)' = needs
    BY <1>2, <1>4 DEF Satisfied, ToDriverLayout, Required, isAligned, Identity
  <2>2. needs
    <3>1. \A x \in DOMAIN op.ins : read(x) = fed[op.ins[x]]
      BY <1>7
    <3>2. CASE op.kind \in {"act", "axis", "arg", "elem", "concat"}
      BY <1>9, <1>10, <3>1, <3>2 DEF RightlyFed
    <3>3. CASE op.kind \notin {"act", "axis", "arg", "elem", "concat"} /\ ToDriverLayout(c)
      BY <1>9, <1>10, <3>1, <3>3 DEF RightlyFed
    <3>4. CASE op.kind \notin {"act", "axis", "arg", "elem", "concat"} /\ ~ToDriverLayout(c)
      BY <1>9, <1>10, <3>1, <3>4 DEF RightlyFed
    <3> QED
      BY <3>2, <3>3, <3>4
  <2> QED
    BY <2>1, <2>2
<1>13. ASSUME NEW o \in Out(c) PROVE Makes(laid, c, o)' = handed[o]
  <2> DEFINE read == Reads(laid, c, 1)'
  <2>1. Makes(laid, c, o)' = CASE op.kind \in {"elem", "concat", "act", "axis"} -> read
                               [] op.kind = "arg" -> Without(read, op.axis)
                               [] ToDriverLayout(c) -> Required(op)
                               [] OTHER -> Identity(graph.ndim[o])
    BY <1>2 DEF Makes, ToDriverLayout, Without, Required, Identity
  <2> QED
    <3>1. read = fed[op.ins[1]]
      BY <1>7, <1>10
    <3>2. CASE op.kind \in {"act", "axis", "arg", "elem", "concat"}
      BY <1>9, <1>10, <2>1, <3>1, <3>2 DEF RightlyMade
    <3>3. CASE op.kind \notin {"act", "axis", "arg", "elem", "concat"} /\ ToDriverLayout(c)
      BY <1>9, <1>10, <2>1, <3>3 DEF RightlyMade
    <3>4. CASE op.kind \notin {"act", "axis", "arg", "elem", "concat"} /\ ~ToDriverLayout(c)
      BY <1>9, <1>10, <2>1, <3>4 DEF RightlyMade, Rank
    <3> QED
      BY <3>2, <3>3, <3>4
<1>14. Agrees(laid, c)'
  <2> SUFFICES ASSUME NEW x \in DOMAIN op.outs, NEW o, NEW from, o = op.outs[x], from = ops'[c].outs[x]
               PROVE  laid'[o] = IF from = o THEN Makes(laid, c, o)'
                                             ELSE add(Makes(laid, c, o)', PermuteBetween(from, o)')
    BY <1>2 DEF Agrees, add
  <2>1. o \in Out(c) /\ Makes(laid, c, o)' = handed[o]
    BY <1>11, <1>13
  <2>2. o \in Operand
    BY <1>1, <2>1, Makers
  <2>3. CASE o \in After(c, r, first)
    <3>1. from = Clone(c, o) /\ o \in graph.outputs
      BY <1>4, <2>3 DEF After
    <3>2. from # o
      BY <1>1, <2>2, <3>1, Clones
    <3>3. laid'[o] = add(handed[o], reverse(handed[o]))
      BY <1>3, <1>6, <2>1, <3>1, AddReverse
    <3> QED
      BY <1>5, <2>1, <2>3, <3>1, <3>2, <3>3
  <2>4. CASE o \notin After(c, r, first)
    <3>1. from = o
      BY <1>4, <2>4
    <3>2. o \in graph.outputs => handed[o] = Identity(Rank(o))
      BY <1>6, <2>1, <2>4, ReverseAligned DEF After, handed
    <3> QED
      BY <1>3, <2>1, <3>1, <3>2
  <2> QED
    BY <2>3, <2>4
<1> QED
  BY <1>12, <1>14

LEMMA DoneStep == ASSUME IInv, NEW c, NEW first, Inferring(c, first) PROVE DoneInv'
<1>1. /\ c \in Ops /\ inferred[c] = 0 /\ ops[c] = graph.ops[c] /\ Control /\ VectorInv /\ Meaning /\ Types
      /\ Infer(c, Data(c), first) /\ first \in Data(c) /\ Data(c) \subseteq Known /\ Ops' = Ops
      /\ inferred'[c] = 1 /\ \A d \in Ops : d # c => inferred'[d] = inferred[d]
  BY InferringFacts
<1>2. graph' = graph
  BY DEF Inferring
<1>3. DOMAIN laid' = DOMAIN laid \cup Out(c) /\ \A o \in DOMAIN laid : laid'[o] = laid[o]
  BY LaidDown
<1>4. clobbered => clobbered'
  <2>1. clobbered' = (clobbered
              \/ \E x \in Reset(c, handleLayoutInferenceOnInputs(c, Data(c), first), first) :
                   /\ ~isAligned(With(vec, handleLayoutInferenceOnInputs(c, Data(c), first).made)[x])
                   /\ \/ \E o \in WaitingElse(c) : origin[o] = x
                      \/ \E o \in Out(c) \ graph.outputs : Objects(c, handleLayoutInferenceOnInputs(c, Data(c), first), first)[o] = x)
    BY <1>1, InferObjects
  <2> QED
    BY <2>1
<1>5. DOMAIN ops' = Ops /\ DOMAIN ops = Ops
  BY <1>1, InferControl DEF Types
<1>6. ConstReadTwice' = ConstReadTwice
  BY <1>2, <1>5 DEF ConstReadTwice
<1>7. KernelPermuted => KernelPermuted'
  <2>1. /\ \A d : ToDriverLayout(d)' = ToDriverLayout(d)
        /\ \A p : isAligned(p)' = isAligned(p)
    BY <1>2 DEF ToDriverLayout, isAligned, Identity
  <2> SUFFICES ASSUME KernelPermuted PROVE KernelPermuted'
    OBVIOUS
  <2> DEFINE Wrong(d, L) ==
               /\ graph.ops[d].kind \in {"conv", "deconv"}
               /\ IF graph.ops[d].ins[2] = graph.ops[d].ins[1]
                  THEN graph.ops[d].nhwc /\ ToDriverLayout(d)
                  ELSE /\ graph.ops[d].kind = "conv" \/ ToDriverLayout(d)
                       /\ graph.ops[d].ins[2] \in DOMAIN L /\ ~isAligned(L[graph.ops[d].ins[2]])
  <2>2. PICK d \in Ops : Wrong(d, laid)
    BY <1>5 DEF KernelPermuted
  <2>3. Wrong(d, laid')
    BY <1>3, <2>2
  <2>4. KernelPermuted' = \E e \in Ops : /\ graph.ops[e].kind \in {"conv", "deconv"}
                                       /\ IF graph.ops[e].ins[2] = graph.ops[e].ins[1]
                                          THEN graph.ops[e].nhwc /\ ToDriverLayout(e)'
                                          ELSE /\ graph.ops[e].kind = "conv" \/ ToDriverLayout(e)'
                                               /\ graph.ops[e].ins[2] \in DOMAIN laid'
                                               /\ ~isAligned(laid[graph.ops[e].ins[2]])'
    BY <1>2, <1>5 DEF KernelPermuted
  <2>5. /\ graph.ops[d].kind \in {"conv", "deconv"}
        /\ IF graph.ops[d].ins[2] = graph.ops[d].ins[1]
           THEN graph.ops[d].nhwc /\ ToDriverLayout(d)'
           ELSE /\ graph.ops[d].kind = "conv" \/ ToDriverLayout(d)'
                /\ graph.ops[d].ins[2] \in DOMAIN laid'
                /\ ~isAligned(laid[graph.ops[d].ins[2]])'
    <3> DEFINE k == graph.ops[d].ins[2]
    <3>1. ToDriverLayout(d)' = ToDriverLayout(d) /\ isAligned(laid[k])' = isAligned(laid'[k])
      BY <1>2 DEF ToDriverLayout, isAligned, Identity
    <3>2. /\ graph.ops[d].kind \in {"conv", "deconv"}
          /\ IF k = graph.ops[d].ins[1]
             THEN graph.ops[d].nhwc /\ ToDriverLayout(d)
             ELSE /\ graph.ops[d].kind = "conv" \/ ToDriverLayout(d)
                  /\ k \in DOMAIN laid' /\ ~isAligned(laid'[k])
      BY <2>3
    <3> QED
      BY <3>1, <3>2
  <2> QED
    BY <2>2, <2>4, <2>5
<1> SUFFICES ASSUME NEW d \in Ops, inferred'[d] = 1, ~Excused' PROVE Agrees(laid, d)' /\ Satisfied(laid, d)'
  BY <1>1 DEF DoneInv
<1>8. ~clobbered /\ ~ConstReadTwice /\ ~KernelPermuted /\ ~KernelPermuted' /\ ~Excused
  BY <1>4, <1>6, <1>7 DEF Excused
<1>9. CASE d = c
  BY <1>8, <1>9, InferredDone
<1>10. CASE d # c
  <2>1. inferred[d] = 1 /\ Agrees(laid, d) /\ Satisfied(laid, d)
    BY <1>1, <1>8, <1>10 DEF Meaning, DoneInv
  <2> QED
    BY <1>8, <1>10, <2>1, OthersKept
<1> QED
  BY <1>9, <1>10

\* Nothing is said anew while no operation is inferred.
LEMMA MeaningKept ==
  ASSUME Meaning, Waiting' \subseteq Waiting,
         UNCHANGED <<graph, ops, permutes, perm, permOf, origin, vec, inferred, laid, clobbered>>
  PROVE  Meaning'
<1>1. LaidInv'
  BY DEF Meaning, LaidInv, Ops, Out, Rank
<1>2. ObjectInv'
  BY DEF Meaning, ObjectInv, Known
<1>3. OwnInv'
  BY DEF Meaning, OwnInv, Ops, In, Clone
<1>4. HeldInv'
  BY DEF Meaning, HeldInv, Held
<1>5. /\ \A d : Agrees(laid, d)' = Agrees(laid, d) /\ Satisfied(laid, d)' = Satisfied(laid, d)
      /\ Excused' = Excused
  <2>1. \A d, x : Reads(laid, d, x)' = Reads(laid, d, x)
    BY DEF Reads, PermuteBetween
  <2>2. \A d, o : Makes(laid, d, o)' = Makes(laid, d, o)
    BY <2>1 DEF Makes, ToDriverLayout
  <2>3. \A d : Agrees(laid, d)' = Agrees(laid, d)
    <3> DEFINE Same(d, x) == laid[graph.ops[d].outs[x]] =
                 IF ops[d].outs[x] = graph.ops[d].outs[x]
                   THEN Makes(laid, d, graph.ops[d].outs[x])
                   ELSE add(Makes(laid, d, graph.ops[d].outs[x]),
                            PermuteBetween(ops[d].outs[x], graph.ops[d].outs[x]))
    <3>1. \A f, o : PermuteBetween(f, o)' = PermuteBetween(f, o)
      BY DEF PermuteBetween
    <3>2. \A d : Agrees(laid, d) <=> \A x \in DOMAIN graph.ops[d].outs : Same(d, x)
      BY Zenon DEF Agrees
    <3>3. \A d : Agrees(laid, d)' <=> \A x \in DOMAIN graph'.ops[d].outs : Same(d, x)'
      BY Zenon DEF Agrees
    <3>4. \A d, x : Same(d, x)' <=> Same(d, x)
      BY <2>2, <3>1
    <3> HIDE DEF Same
    <3>5. \A d : Agrees(laid, d)' <=> Agrees(laid, d)
      BY <3>2, <3>3, <3>4
    <3>6. \A d : Agrees(laid, d) \in BOOLEAN /\ Agrees(laid, d)' \in BOOLEAN
      BY Zenon DEF Agrees
    <3> QED
      BY <3>5, <3>6, Zenon
  <2>4. \A d : Satisfied(laid, d)' = Satisfied(laid, d)
    <3> SUFFICES ASSUME NEW d PROVE Satisfied(laid, d)' = Satisfied(laid, d)
      OBVIOUS
    <3>1. /\ graph'.ops[d] = graph.ops[d] /\ ops'[d] = ops[d]
          /\ Reads(laid, d, 1)' = Reads(laid, d, 1) /\ Reads(laid, d, 2)' = Reads(laid, d, 2)
          /\ ToDriverLayout(d)' = ToDriverLayout(d)
      BY <2>1 DEF ToDriverLayout
    <3>2. (\A x \in DOMAIN graph.ops[d].ins : Reads(laid, d, x) = Reads(laid, d, 1))'
            = (\A x \in DOMAIN graph.ops[d].ins : Reads(laid, d, x) = Reads(laid, d, 1))
      BY <2>1, <3>1
    <3>3. (\A x \in DOMAIN graph.ops[d].ins : isAligned(Reads(laid, d, x)))'
            = (\A x \in DOMAIN graph.ops[d].ins : isAligned(Reads(laid, d, x)))
      BY <2>1, <3>1 DEF isAligned, Identity
    <3> QED
      BY <3>1, <3>2, <3>3, Zenon DEF Satisfied
  <2>5. Excused' = Excused
    BY DEF Excused, ConstReadTwice, KernelPermuted, ToDriverLayout
  <2> QED
    BY <2>3, <2>4, <2>5
<1>6. DoneInv'
  BY <1>5 DEF Meaning, DoneInv, Ops
<1> QED
  BY <1>1, <1>2, <1>3, <1>4, <1>6 DEF Meaning

LEMMA InitMeaning == Init => Meaning
<1> SUFFICES ASSUME Init PROVE Meaning
  OBVIOUS
<1>1. Control /\ VectorInv /\ Types /\ WellFormed(graph.ops, graph.ndim)
  BY InitControl, InitVectors DEF Control, Types
<1>2. /\ permutes = {} /\ perm = <<>> /\ ops = graph.ops
      /\ origin = [o \in Inputs |-> o] /\ vec = [o \in Inputs |-> Identity(Rank(o))] /\ laid = vec
      /\ inferred = [c \in Ops |-> 0]
  BY DEF Init, Rank, Ops
<1>3. graph.outputs \subseteq UNION {Out(c) : c \in Ops}
  <2>1. PICK g \in Graphs :
          LET made == UNION {ToSet(g.ops[c].outs) : c \in DOMAIN g.ops}
              read == UNION {ToSet(g.ops[c].ins) : c \in DOMAIN g.ops}
          IN  \E also \in {{}} \cup {{o} : o \in made \cap read} :
                graph = [ops |-> g.ops, ndim |-> g.ndim, outputs |-> (made \ read) \cup also]
    BY Zenon DEF Init
  <2>2. graph.ops = g.ops /\ graph.outputs \subseteq UNION {ToSet(g.ops[c].outs) : c \in DOMAIN g.ops}
    BY <2>1
  <2> QED
    BY <2>2 DEF Ops, Out
<1>4. Known = Inputs /\ DOMAIN laid = Inputs
  BY <1>2 DEF Known
<1>5. LaidInv
  <2>1. \A o \in Inputs : IsPermutation(laid[o], Rank(o)) /\ laid[o] = Identity(Rank(o))
    BY <1>1, <1>2 DEF VectorInv
  <2> QED
    BY <1>2, <1>3, <1>4, <2>1 DEF LaidInv
<1>6. ObjectInv
  BY <1>2, <1>4, Constants DEF ObjectInv
<1>7. OwnInv
  BY <1>2 DEF OwnInv
<1>8. HeldInv
  BY <1>2, <1>4 DEF HeldInv, Held, Waiting
<1>9. DoneInv
  BY <1>2 DEF DoneInv
<1> QED
  BY <1>5, <1>6, <1>7, <1>8, <1>9 DEF Meaning

LEMMA MeaningStep == ASSUME IInv, [Next]_vars PROVE Meaning'
<1>1. Control /\ VectorInv /\ Meaning /\ Types
  BY DEF IInv, Control
<1>2. CASE Pop
  <2>1. /\ todo = {} /\ queue # <<>> /\ operand' = Head(queue) /\ queue' = Tail(queue)
        /\ UNCHANGED <<graph, ops, permutes, perm, permOf, origin, vec, cached, inferred, laid, clobbered>>
    BY <1>2, Zenon DEF Pop
  <2>2. Head(queue) \in ToSet(queue) /\ ToSet(queue') \subseteq ToSet(queue)
    BY <1>1, <2>1, Taken DEF Control, Types, QueuedOnce
  <2>3. Waiting' \subseteq Waiting
    BY <2>1, <2>2 DEF Waiting, Known, Ops
  <2> QED
    BY <1>1, <2>1, <2>3, MeaningKept
<1>3. CASE Visit
  <2>1. PICK c \in todo :
          /\ cached' = [cached EXCEPT ![c] = cached[c] \cup {operand}]
          /\ todo' = todo \ {c}
          /\ IF isAllInputTensorSetupWithPermute(c, cached[c] \cup {operand})
             THEN \E first \in cached[c] \cup {operand} : Infer(c, cached[c] \cup {operand}, first)
             ELSE UNCHANGED <<ops, permutes, perm, permOf, origin, vec, queue, inferred, laid, clobbered>>
    BY <1>3, Zenon DEF Visit
  <2>2. UNCHANGED <<graph, operand>>
    BY <1>3 DEF Visit
  <2>3. /\ c \in Ops /\ operand \in Data(c)
        /\ isAllInputTensorSetupWithPermute(c, cached[c] \cup {operand}) <=> Data(c) \subseteq cached[c] \cup {operand}
    BY <1>1, Visited
  <2>4. cached[c] \subseteq Data(c)
    BY <1>1, <2>3 DEF Control, CachedInv
  <2>5. CASE Data(c) \subseteq cached[c] \cup {operand}
    <3>1. Data(c) = cached[c] \cup {operand}
      BY <2>3, <2>4, <2>5
    <3>2. PICK first \in Data(c) : Infer(c, Data(c), first)
      BY <2>1, <2>3, <3>1
    <3>3. Inferring(c, first)
      BY <2>1, <2>2, <3>1, <3>2 DEF Inferring
    <3> QED
      BY <3>3, LaidStep, ObjectStep, OwnStep, HeldStep, DoneStep DEF Meaning
  <2>6. CASE ~(Data(c) \subseteq cached[c] \cup {operand})
    <3>1. UNCHANGED <<ops, permutes, perm, permOf, origin, vec, queue, inferred, laid, clobbered>>
      BY <2>1, <2>3, <2>6
    <3>2. Known' = Known /\ Ops' = Ops
      BY <2>2, <3>1 DEF Known, Ops
    <3>3. cached'[c] = cached[c] \cup {operand} /\ \A d \in Ops : d # c => cached'[d] = cached[d]
      BY <1>1, <2>1, <2>3 DEF Types
    <3>4. Waiting' \subseteq Waiting
      BY <2>1, <2>2, <3>1, <3>2, <3>3 DEF Waiting
    <3> QED
      BY <1>1, <2>2, <3>1, <3>4, MeaningKept
  <2> QED
    BY <2>5, <2>6
<1>4. CASE UNCHANGED vars
  <2>1. Waiting' = Waiting
    BY <1>4 DEF vars, Waiting, Known, Ops
  <2> QED
    BY <1>1, <1>4, <2>1, MeaningKept DEF vars
<1> QED
  BY <1>2, <1>3, <1>4 DEF Next

THEOREM Invariance == Spec => []IInv
<1>1. Init => IInv
  BY InitControl, InitVectors, InitMeaning DEF IInv
<1>2. IInv /\ [Next]_vars => IInv'
  <2> SUFFICES ASSUME IInv, [Next]_vars PROVE IInv'
    OBVIOUS
  <2>1. Control'
    BY ControlStep DEF IInv
  <2>2. VectorInv'
    BY VectorStep
  <2>3. Meaning'
    BY MeaningStep
  <2> QED
    BY <2>1, <2>2, <2>3 DEF IInv
<1> QED
  BY <1>1, <1>2, PTL DEF Spec

\* Whatever the models, every vector is a permutation of the axes of the operands
\* that have it, and every permute is one of the axes of the operand it reads.
THEOREM TypeOKThm == Spec => []TypeOK
<1>1. IInv => TypeOK
  <2> SUFFICES ASSUME IInv PROVE TypeOK
    OBVIOUS
  <2>1. Control /\ VectorInv /\ Types
    BY DEF IInv, Control
  <2>2. DOMAIN ops = DOMAIN graph.ops /\ todo \subseteq DOMAIN ops
    BY <2>1 DEF Types, Ops
  <2>3. \A o \in DOMAIN origin : origin[o] \in DOMAIN vec /\ IsPermutation(Held(o), graph.ndim[o])
    BY <2>1, HeldVector DEF VectorInv, Known, Rank
  <2>4. \A c \in DOMAIN ops : cached[c] \subseteq DOMAIN origin
    BY <2>1, <2>2 DEF Control, CachedInv, Known, Ops
  <2>5. ToSet(queue) \subseteq DOMAIN origin
    BY <2>1 DEF Control, QueuedOnce, Known
  <2>6. \A p \in permutes : IsPermutation(p.perm, graph.ndim[IF p.from \in Operand THEN p.from ELSE p.to])
    BY <2>1 DEF VectorInv, Rank
  <2>7. /\ \A k \in DOMAIN perm : IsConst(k) /\ IsPermutation(perm[k], graph.ndim[k])
        /\ DOMAIN permOf \subseteq DOMAIN perm
    BY <2>1 DEF VectorInv, Rank, IsConst
  <2> QED
    BY <2>2, <2>3, <2>4, <2>5, <2>6, <2>7 DEF TypeOK
<1> QED
  BY <1>1, Invariance, PTL

LEMMA PreservedAtTheEnd == ASSUME IInv PROVE Preserved
<1> SUFFICES ASSUME todo = {}, queue = <<>>, ~Excused
             PROVE  /\ \A c \in DOMAIN ops : Agrees(laid, c) /\ Satisfied(laid, c)
                    /\ \A o \in Inputs \cup graph.outputs : isAligned(laid[o])
  BY DEF Preserved, Excused
<1>1. Control /\ Meaning /\ Types /\ WellFormed(graph.ops, graph.ndim)
  BY DEF IInv, Control, Types
<1>2. DOMAIN ops = Ops /\ \A c \in Ops : inferred[c] = 1
  BY <1>1, OnceInferred DEF InferredOnce, Types
<1>3. \A c \in DOMAIN ops : Agrees(laid, c) /\ Satisfied(laid, c)
  BY <1>1, <1>2 DEF Meaning, DoneInv
<1>4. ASSUME NEW o \in Inputs \cup graph.outputs PROVE isAligned(laid[o])
  <2>1. o \in DOMAIN laid
    BY <1>1, <1>2 DEF Meaning, LaidInv
  <2>2. laid[o] = Identity(Rank(o)) /\ IsPermutation(laid[o], Rank(o))
    BY <1>1, <2>1, <1>4 DEF Meaning, LaidInv
  <2>3. o \in Operand
    BY <1>1, <1>2, Makers, Constants DEF Meaning, LaidInv
  <2>4. Rank(o) \in Nat
    BY <1>1, <2>3, Ranks
  <2> QED
    BY <2>2, <2>4, Aligned
<1> QED
  BY <1>3, <1>4

\* For every well-formed model of the kinds of operations modelled, and but for the
\* three cases Preserved names, the rewritten model computes what the given one did.
THEOREM PreservedThm == Spec => []Preserved
<1>1. IInv => Preserved
  BY PreservedAtTheEnd
<1> QED
  BY <1>1, Invariance, PTL

\* The rewritten model lays out its operands in one way only, which is laid: whatever L
\* agrees with its operations and permutes and has the inputs as they are given is laid.
OneLayout ==
  (todo = {} /\ queue = <<>> /\ ~Excused)
  => \A L : (\A o \in Inputs : L[o] = Identity(Rank(o))) /\ (\A c \in DOMAIN ops : Agrees(L, c))
           => \A o \in Inputs \cup UNION {Out(c) : c \in DOMAIN ops} : L[o] = laid[o]

\* What an operation makes depends on the layouts of what it reads only.
LEMMA MakesTheSame ==
  ASSUME IInv, NEW c \in Ops, NEW L, \A o \in Data(c) : L[o] = laid[o], Agrees(L, c), Agrees(laid, c)
  PROVE  \A o \in Out(c) : L[o] = laid[o]
<1>1. graph.ops[c] \in Op /\ In(c) # {}
  BY Makers DEF IInv, Control, Types, Data
<1>2. 1 \in DOMAIN graph.ops[c].ins /\ graph.ops[c].ins[1] \in In(c)
  BY <1>1 DEF Op, In, ToSet
<1>3. Reads(L, c, 1) = Reads(laid, c, 1)
  BY <1>2 DEF Reads, IsConst, Data
<1>4. \A o : Makes(L, c, o) = Makes(laid, c, o)
  BY <1>3 DEF Makes
<1> SUFFICES ASSUME NEW o \in Out(c) PROVE L[o] = laid[o]
  OBVIOUS
<1>5. PICK x \in DOMAIN graph.ops[c].outs : o = graph.ops[c].outs[x]
  BY DEF Out, ToSet
<1> QED
  BY <1>4, <1>5 DEF Agrees

LEMMA OneLayoutAtTheEnd == ASSUME IInv PROVE OneLayout
<1> SUFFICES ASSUME todo = {}, queue = <<>>, ~Excused, NEW L,
                    \A o \in Inputs : L[o] = Identity(Rank(o)), \A c \in DOMAIN ops : Agrees(L, c)
             PROVE  \A o \in Inputs \cup UNION {Out(c) : c \in DOMAIN ops} : L[o] = laid[o]
  BY DEF OneLayout
<1>1. Control /\ Meaning /\ Types /\ WellFormed(graph.ops, graph.ndim) /\ DOMAIN ops = Ops
  BY DEF IInv, Control, Types
<1>2. \A c \in Ops : Agrees(laid, c)
  BY <1>1, OnceInferred DEF InferredOnce, Types, Meaning, DoneInv
<1>3. \A o \in Inputs : L[o] = laid[o]
  BY <1>1 DEF Meaning, LaidInv
<1> DEFINE wrong == {c \in Ops : \E o \in Out(c) : L[o] # laid[o]}
<1>4. ASSUME wrong # {} PROVE FALSE
  <2>1. wrong \subseteq Nat
    BY <1>1, Makers
  <2>2. PICK c \in wrong : \A d \in wrong : ~(d < c)
    BY <1>4, <2>1, Earliest
  <2>3. \A o \in Data(c) : o \in Inputs \/ \E d \in Ops : d < c /\ o \in Out(d)
    BY <1>1, <2>2, Makers
  <2>4. \A o \in Data(c) : L[o] = laid[o]
    BY <1>3, <2>2, <2>3
  <2>5. \A o \in Out(c) : L[o] = laid[o]
    BY <1>1, <1>2, <2>2, <2>4, MakesTheSame
  <2> QED
    BY <2>2, <2>5
<1> QED
  BY <1>1, <1>3, <1>4

\* The layouts the proof reasons with are those of the rewritten model.
THEOREM OneLayoutThm == Spec => []OneLayout
<1>1. IInv => OneLayout
  BY OneLayoutAtTheEnd
<1> QED
  BY <1>1, Invariance, PTL
=============================================================================
