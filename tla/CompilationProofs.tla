-------------------------- MODULE CompilationProofs --------------------------
(***************************************************************************)
(* Proofs about Compilation, for any number of threads, Compilations,      *)
(* shapes and operations, and whatever may fail.                           *)
(*                                                                         *)
(* None of the properties is inductive: that a graph is built once rests   *)
(* on the lock and on what the cache holds while a thread is between its   *)
(* lookup and its insertion; that an operation is converted once on where  *)
(* the converting thread stands; that the assertion holds on every key,    *)
(* in the cache or on its way to it, being a shape the operand has had.    *)
(***************************************************************************)
EXTENDS Compilation, TLAPS

InPrepare(t) == pc[t] # "ready"

\* A thread inside prepareModel holds the lock of its Compilation.
Locks ==
  \A t \in Thread :
    /\ InPrepare(t) <=> comp[t] # None
    /\ comp[t] # None => cache_mutex_[comp[t]] = t

\* A Compilation that has built a graph has it in its cache, or a thread is about to
\* put it there.
Builds ==
  /\ \A t \in Thread : pc[t] \in {"convert", "transform", "build"} => builds[comp[t]] = 0
  /\ \A t \in Thread : pc[t] = "cache" => got[t] # None
  /\ \A c \in Compilations :
       \/ builds[c] = 0
       \/ /\ builds[c] = 1
          /\ \/ Cached(c) # {}
             \/ \E t \in Thread : pc[t] = "cache" /\ comp[t] = c

\* The compiled Model is complete, and so is one that is about to be compiled.
Whole ==
  /\ compiled_ => transformed # 0 /\ \A i \in 1..NumOps : converted[i] # 0
  /\ \A t \in Thread :
       /\ pc[t] \in {"build", "cache"} => compiled_
       /\ pc[t] = "convert" => \A i \in 1..NumOps : i < op[t] => converted[i] # 0
       /\ pc[t] = "transform" => \A i \in 1..NumOps : converted[i] # 0

\* A conversion begins with the first operation.
FromOne == \A t \in Thread : pc[t] \in {"ready", "lookup"} => op[t] = 1

\* One thread converts, and only what has not been converted.
Single ==
  /\ \A t, u \in Thread : Converting(t) /\ Converting(u) => t = u
  /\ \A t \in Thread : Converting(t) => ~compiled_ /\ transformed = 0
  /\ \A t \in Thread : pc[t] = "convert" =>
       \A i \in 1..NumOps : converted[i] = (IF i < op[t] THEN 1 ELSE 0)
  /\ (~compiled_ /\ \A t \in Thread : ~Converting(t)) =>
       transformed = 0 /\ \A i \in 1..NumOps : converted[i] = 0
  /\ transformed <= 1
  /\ \A i \in 1..NumOps : converted[i] <= 1

\* That holds until a conversion fails or two overlap.
Progress == FromOne /\ (~reconverts => Single)

\* Keys are shapes the operand has had; a compiled Model has one as its signature.
Keys ==
  /\ operand \in shapes
  /\ compiled_ => signature_ \in shapes
  /\ \A t \in Thread :
       /\ pc[t] = "lookup" => key[t] \in shapes
       /\ pc[t] \in {"build", "cache"} => compiled_
  /\ \A c \in Compilations : Cached(c) \subseteq shapes
  /\ NoAbort

IInv == TypeOK /\ Locks /\ Builds /\ Whole /\ Progress /\ Keys

-----------------------------------------------------------------------------
LEMMA NumOpsPositive == NumOps \in Nat /\ 1 \in 1..NumOps + 1
  BY CompilationAssumption

LEMMA OnceType == ASSUME NEW n \in 0..2 PROVE Once(n) \in 0..2
  BY DEF Once

\* The type invariant, numbers and the rest apart.
Counters ==
  /\ converted \in [1..NumOps -> 0..2]
  /\ transformed \in 0..2
  /\ op \in [Thread -> 1..NumOps + 1]

Others ==
  /\ operand \in Dims
  /\ compiled_ \in BOOLEAN
  /\ signature_ \in Dims \cup {None}
  /\ cache_mutex_ \in [Compilations -> Thread \cup {None}]
  /\ prepared_models_ \in [Compilations -> [Dims \cup {None} -> Dims \cup {None}]]
  /\ builds \in [Compilations -> Nat]
  /\ pc \in [Thread -> PC]
  /\ comp \in [Thread -> Compilations \cup {None}]
  /\ key \in [Thread -> Dims \cup {None}]
  /\ bound \in [Thread -> Dims \cup {None}]
  /\ got \in [Thread -> Dims \cup {None}]
  /\ shapes \subseteq Dims
  /\ reconverts \in BOOLEAN

LEMMA TypeParts == (TypeOK <=> Counters /\ Others) /\ (TypeOK' <=> Counters' /\ Others')
  BY DEF TypeOK, Counters, Others

LEMMA CountersStep == Counters /\ [Next]_vars => Counters'
<1> SUFFICES ASSUME Counters, [Next]_vars PROVE Counters'
  OBVIOUS
<1> USE NumOpsPositive, OnceType DEF Counters, modelVars, history
<1>1. CASE UNCHANGED vars
  BY <1>1 DEF vars
<1>2. ASSUME NEW t \in Thread, NEW d \in Dims, setInput(t, d) PROVE Counters'
  BY <1>2 DEF setInput
<1>3. ASSUME NEW t \in Thread, NEW c \in Compilations, prepareModel(t, c) PROVE Counters'
  BY <1>3 DEF prepareModel
<1>4. ASSUME NEW t \in Thread, PrepareStep(t) PROVE Counters'
  <2>1. CASE Hit(t) \/ BuildFails(t) \/ ConvertFails(t) \/ cachePreparedModel(t)
    BY <2>1 DEF Hit, BuildFails, ConvertFails, cachePreparedModel, Return
  <2>2. CASE AssertFails(t) \/ Miss(t) \/ ConvertDone(t) \/ Build(t)
    BY <2>2 DEF AssertFails, Miss, ConvertDone, Build
  <2>3. CASE Convert(t)
    <3>1. op[t] \in 1..NumOps
      BY <2>3 DEF Convert
    <3>2. converted' \in [1..NumOps -> 0..2]
      BY <2>3, <3>1 DEF Convert
    <3>3. op' \in [Thread -> 1..NumOps + 1]
      BY <2>3, <3>1 DEF Convert
    <3> QED
      BY <2>3, <3>2, <3>3 DEF Convert
  <2>4. CASE Transform(t)
    BY <2>4 DEF Transform
  <2>5. CASE TransformFails(t)
    BY <2>5 DEF TransformFails, Return
  <2> QED
    BY <1>4, <2>1, <2>2, <2>3, <2>4, <2>5 DEF PrepareStep
<1> QED
  BY <1>1, <1>2, <1>3, <1>4 DEF Next

\* Returning from prepareModel frees the lock of the Compilation that was locked.
LEMMA ReturnTypes ==
  ASSUME Others, NEW t \in Thread, NEW p \in Dims \cup {None}, Return(t, p)
  PROVE  /\ cache_mutex_' \in [Compilations -> Thread \cup {None}]
         /\ pc' \in [Thread -> PC]
         /\ comp' \in [Thread -> Compilations \cup {None}]
         /\ key' \in [Thread -> Dims \cup {None}]
         /\ bound' \in [Thread -> Dims \cup {None}]
         /\ got' \in [Thread -> Dims \cup {None}]
  BY DEF Others, Return, Goto, PC

LEMMA OthersStep == Others /\ Locks /\ [Next]_vars => Others'
<1> SUFFICES ASSUME Others, Locks, [Next]_vars PROVE Others'
  OBVIOUS
<1> USE DEF modelVars, cacheVars, history
<1>1. CASE UNCHANGED vars
  BY <1>1 DEF Others, vars
<1>2. ASSUME NEW t \in Thread, NEW d \in Dims, setInput(t, d) PROVE Others'
  BY <1>2 DEF Others, setInput
<1>3. ASSUME NEW t \in Thread, NEW c \in Compilations, prepareModel(t, c) PROVE Others'
  BY <1>3 DEF Others, prepareModel, Goto, generateSignature, PC
<1>4. ASSUME NEW t \in Thread, PrepareStep(t) PROVE Others'
  <2>1. pc[t] # "ready" => comp[t] \in Compilations
    BY DEF Others, Locks, InPrepare
  <2>2. CASE Hit(t)
    <3>1. prepared_models_[comp[t]][key[t]] \in Dims \cup {None}
      BY <2>1, <2>2 DEF Others, Hit, At
    <3> QED
      BY <2>2, <3>1, ReturnTypes DEF Others, Hit
  <2>3. CASE AssertFails(t) \/ Miss(t) \/ ConvertDone(t)
    BY <2>3 DEF Others, AssertFails, Miss, ConvertDone, Goto, PC
  <2>4. CASE Convert(t)
    BY <2>4 DEF Others, Convert
  <2>5. CASE ConvertFails(t) \/ BuildFails(t)
    BY <2>5, ReturnTypes DEF Others, ConvertFails, BuildFails
  <2>6. CASE Transform(t)
    BY <2>6 DEF Others, Transform, freezeCompile, generateSignature, Goto, PC
  <2>7. CASE TransformFails(t)
    BY <2>7, ReturnTypes DEF Others, TransformFails, freezeCompile, generateSignature
  <2>8. CASE Build(t)
    <3>1. builds' \in [Compilations -> Nat]
      BY <2>1, <2>8 DEF Others, Build, At
    <3> QED
      BY <2>8, <3>1 DEF Others, Build, Goto, PC
  <2>9. CASE cachePreparedModel(t)
    <3>1. got[t] \in Dims \cup {None} /\ comp[t] \in Compilations /\ signature_ \in Dims \cup {None}
      BY <2>1, <2>9 DEF Others, cachePreparedModel, At
    <3>2. prepared_models_' \in [Compilations -> [Dims \cup {None} -> Dims \cup {None}]]
      BY <2>9, <3>1 DEF Others, cachePreparedModel
    <3> QED
      BY <2>9, <3>1, <3>2, ReturnTypes DEF Others, cachePreparedModel
  <2> QED
    BY <1>4, <2>2, <2>3, <2>4, <2>5, <2>6, <2>7, <2>8, <2>9 DEF PrepareStep
<1> QED
  BY <1>1, <1>2, <1>3, <1>4 DEF Next

-----------------------------------------------------------------------------
\* A lock that is held is held by the thread that works on its Compilation.
LEMMA LocksStep == TypeOK /\ Locks /\ [Next]_vars => Locks'
<1> SUFFICES ASSUME TypeOK, Locks, [Next]_vars PROVE Locks'
  OBVIOUS
<1> USE DEF modelVars, cacheVars, history, InPrepare
<1>0. /\ pc \in [Thread -> PC]
      /\ comp \in [Thread -> Compilations \cup {None}]
      /\ cache_mutex_ \in [Compilations -> Thread \cup {None}]
      /\ None \notin Compilations \cup Thread
  BY CompilationAssumption DEF TypeOK
<1>1. CASE UNCHANGED vars
  BY <1>1 DEF Locks, vars
<1>2. ASSUME NEW t \in Thread, NEW d \in Dims, setInput(t, d) PROVE Locks'
  BY <1>2 DEF Locks, setInput
<1>3. ASSUME NEW t \in Thread, NEW c \in Compilations, prepareModel(t, c) PROVE Locks'
  BY <1>0, <1>3 DEF Locks, prepareModel, Goto, At
<1>4. ASSUME NEW t \in Thread, PrepareStep(t) PROVE Locks'
  <2>1. CASE AssertFails(t) \/ Miss(t) \/ ConvertDone(t) \/ Transform(t) \/ Build(t)
    BY <1>0, <2>1 DEF Locks, AssertFails, Miss, ConvertDone, Transform, Build, At, Goto
  <2>2. CASE Convert(t)
    BY <2>2 DEF Locks, Convert
  <2>3. ASSUME NEW p, Return(t, p), pc[t] # "ready" PROVE Locks'
    BY <1>0, <2>3 DEF Locks, Return, Goto
  <2>4. CASE Hit(t) \/ ConvertFails(t) \/ TransformFails(t) \/ BuildFails(t) \/ cachePreparedModel(t)
    BY <2>3, <2>4 DEF Hit, ConvertFails, TransformFails, BuildFails, cachePreparedModel, At
  <2> QED
    BY <1>4, <2>1, <2>2, <2>4 DEF PrepareStep
<1> QED
  BY <1>1, <1>2, <1>3, <1>4 DEF Next

\* Two threads inside prepareModel work on different Compilations.
LEMMA LocksExclude ==
  ASSUME Locks, NEW t \in Thread, NEW u \in Thread, comp[t] = comp[u], comp[t] # None
  PROVE  t = u
  BY DEF Locks

\* A graph is built only for a Compilation that has none.
LEMMA BuildsStep == TypeOK /\ Locks /\ Builds /\ [Next]_vars => Builds'
<1> SUFFICES ASSUME TypeOK, Locks, Builds, [Next]_vars PROVE Builds'
  OBVIOUS
<1> USE DEF modelVars, cacheVars, history
<1>0. /\ pc \in [Thread -> PC]
      /\ comp \in [Thread -> Compilations \cup {None}]
      /\ builds \in [Compilations -> Nat]
      /\ got \in [Thread -> Dims \cup {None}]
      /\ key \in [Thread -> Dims \cup {None}]
      /\ signature_ \in Dims \cup {None}
      /\ prepared_models_ \in [Compilations -> [Dims \cup {None} -> Dims \cup {None}]]
  BY DEF TypeOK
<1>1. CASE UNCHANGED vars
  BY <1>1 DEF Builds, Cached, vars
<1>2. ASSUME NEW t \in Thread, NEW d \in Dims, setInput(t, d) PROVE Builds'
  BY <1>0, <1>2 DEF Builds, Cached, setInput, At
<1>3. ASSUME NEW t \in Thread, NEW c \in Compilations, prepareModel(t, c) PROVE Builds'
  BY <1>0, <1>3 DEF Builds, Cached, prepareModel, Goto, At
<1>4. ASSUME NEW t \in Thread, PrepareStep(t) PROVE Builds'
  <2>0. pc[t] # "ready" => comp[t] \in Compilations
    BY <1>0 DEF Locks, InPrepare
  <2>1. CASE Miss(t)
    <3>1. \A u \in Thread : pc[u] = "cache" => comp[u] # comp[t]
      BY <2>1, LocksExclude DEF Locks, InPrepare, Miss, At
    <3>2. builds[comp[t]] = 0
      BY <2>0, <2>1, <3>1 DEF Builds, Miss, At
    <3> QED
      BY <1>0, <2>1, <3>2 DEF Builds, Cached, Miss, At, Goto
  <2>2. CASE AssertFails(t) \/ ConvertDone(t) \/ Transform(t)
    BY <1>0, <2>2 DEF Builds, Cached, AssertFails, ConvertDone, Transform, At, Goto
  <2>3. CASE Convert(t)
    BY <2>3 DEF Builds, Cached, Convert
  <2>4. ASSUME NEW p \in Dims \cup {None}, Return(t, p), pc[t] # "cache",
               UNCHANGED <<prepared_models_, builds>>
        PROVE  Builds'
    BY <1>0, <2>4 DEF Builds, Cached, Return, Goto
  <2>5. CASE Hit(t) \/ ConvertFails(t) \/ TransformFails(t) \/ BuildFails(t)
    <3>1. Hit(t) => prepared_models_[comp[t]][key[t]] \in Dims \cup {None}
      BY <1>0, <2>0 DEF Hit, At
    <3> QED
      BY <2>4, <2>5, <3>1 DEF Hit, ConvertFails, TransformFails, BuildFails, At
  <2>6. CASE Build(t)
    <3>1. operand # None
      BY CompilationAssumption DEF TypeOK
    <3>2. \A u \in Thread : u # t /\ pc[u] \in {"convert", "transform", "build"} => comp[u] # comp[t]
      BY <2>6, LocksExclude DEF Locks, InPrepare, Build, At
    <3>3. builds[comp[t]] = 0 /\ comp[t] \in Compilations
      BY <2>0, <2>6 DEF Builds, Build, At
    <3>4. /\ builds' = [builds EXCEPT ![comp[t]] = 1]
          /\ pc' = [pc EXCEPT ![t] = "cache"]
          /\ got' = [got EXCEPT ![t] = operand]
          /\ UNCHANGED <<comp, prepared_models_>>
      BY <1>0, <2>6, <3>3 DEF Build, Goto
    <3>5. \A u \in Thread : pc'[u] \in {"convert", "transform", "build"} => builds'[comp'[u]] = 0
      BY <1>0, <3>2, <3>4 DEF Builds
    <3>6. \A u \in Thread : pc'[u] = "cache" => got'[u] # None
      BY <1>0, <3>1, <3>4 DEF Builds
    <3>7. ASSUME NEW c \in Compilations
          PROVE  \/ builds'[c] = 0
                 \/ /\ builds'[c] = 1
                    /\ \/ Cached(c)' # {}
                       \/ \E u \in Thread : pc'[u] = "cache" /\ comp'[u] = c
      <4>1. CASE c = comp[t]
        BY <1>0, <3>3, <3>4, <4>1
      <4>2. CASE c # comp[t]
        BY <1>0, <2>6, <3>4, <4>2 DEF Builds, Cached, Build, At
      <4> QED
        BY <4>1, <4>2
    <3> QED
      BY <3>5, <3>6, <3>7 DEF Builds
  <2>7. CASE cachePreparedModel(t)
    <3>1. PICK k \in Compilations : k = comp[t]
      BY <2>0, <2>7 DEF cachePreparedModel, At
    <3>2. got[t] # None /\ got[t] \in Dims \cup {None}
      BY <1>0, <2>7 DEF Builds, cachePreparedModel, At
    <3>3. prepared_models_' = [prepared_models_ EXCEPT ![k][signature_] = got[t]]
      BY <2>7, <3>1 DEF cachePreparedModel
    <3>4. Cached(k)' # {}
      BY <1>0, <3>2, <3>3 DEF Cached
    <3>5. \A c \in Compilations : c # k => Cached(c)' = Cached(c)
      BY <1>0, <3>3 DEF Cached
    <3>6. \A u \in Thread : u # t => pc'[u] = pc[u] /\ comp'[u] = comp[u] /\ got'[u] = got[u]
      BY <1>0, <2>7 DEF cachePreparedModel, Return, Goto
    <3>7. pc'[t] = "ready" /\ builds' = builds
      BY <1>0, <2>7 DEF cachePreparedModel, Return, Goto
    <3>8. builds[k] \in {0, 1}
      BY DEF Builds
    <3> QED
      BY <3>1, <3>4, <3>5, <3>6, <3>7, <3>8 DEF Builds
  <2> QED
    BY <1>4, <2>1, <2>2, <2>3, <2>5, <2>6, <2>7 DEF PrepareStep
<1> QED
  BY <1>1, <1>2, <1>3, <1>4 DEF Next

-----------------------------------------------------------------------------
LEMMA OnceNotZero == ASSUME NEW n \in 0..2 PROVE Once(n) # 0 /\ (n = 0 => Once(n) = 1)
  BY DEF Once

\* What is built from has been converted and transformed.
LEMMA WholeStep == TypeOK /\ Progress /\ Whole /\ [Next]_vars => Whole'
<1> SUFFICES ASSUME TypeOK, Progress, Whole, [Next]_vars PROVE Whole'
  OBVIOUS
<1> USE DEF modelVars, cacheVars, history
<1>0. /\ pc \in [Thread -> PC]
      /\ Counters
      /\ \A t \in Thread : pc[t] = "lookup" => op[t] = 1
  BY TypeParts DEF TypeOK, Progress, FromOne
<1>1. CASE UNCHANGED vars
  BY <1>1 DEF Whole, vars
<1>2. ASSUME NEW t \in Thread, NEW d \in Dims, setInput(t, d) PROVE Whole'
  BY <1>2 DEF Whole, setInput
<1>3. ASSUME NEW t \in Thread, NEW c \in Compilations, prepareModel(t, c) PROVE Whole'
  BY <1>0, <1>3 DEF Whole, prepareModel, Goto
<1>4. ASSUME NEW t \in Thread, PrepareStep(t) PROVE Whole'
  <2>1. CASE Miss(t)
    BY <1>0, <2>1 DEF Whole, Miss, At, Goto
  <2>2. CASE AssertFails(t)
    BY <1>0, <2>2 DEF Whole, AssertFails, Goto
  <2>3. CASE Convert(t)
    <3>1. op[t] \in 1..NumOps
      BY <1>0, <2>3, NumOpsPositive DEF Counters, Convert
    <3>2. \A i \in 1..NumOps : converted'[i] # 0 <=> i = op[t] \/ converted[i] # 0
      BY <1>0, <2>3, <3>1, OnceNotZero DEF Counters, Convert
    <3>3. \A u \in Thread : op'[u] = IF u = t THEN op[t] + 1 ELSE op[u]
      BY <1>0, <2>3 DEF Counters, Convert
    <3>4. UNCHANGED <<pc, compiled_, transformed>>
      BY <2>3 DEF Convert
    <3>5. ASSUME NEW u \in Thread, pc'[u] = "convert", NEW i \in 1..NumOps, i < op'[u]
          PROVE  converted'[i] # 0
      <4>1. u = t => i = op[t] \/ i < op[t]
        BY <3>1, <3>3, <3>5, NumOpsPositive
      <4> QED
        BY <3>2, <3>3, <3>4, <3>5, <4>1 DEF Whole
    <3> QED
      BY <3>2, <3>4, <3>5 DEF Whole
  <2>4. CASE ConvertDone(t)
    <3>1. \A i \in 1..NumOps : i < op[t]
      BY <2>4, NumOpsPositive DEF ConvertDone
    <3>2. \A i \in 1..NumOps : converted[i] # 0
      BY <2>4, <3>1 DEF Whole, ConvertDone, At
    <3> QED
      BY <1>0, <2>4, <3>2 DEF Whole, ConvertDone, Goto
  <2>5. CASE Transform(t) \/ TransformFails(t)
    <3>1. transformed' # 0 /\ compiled_' = TRUE /\ converted' = converted
      BY <1>0, <2>5, OnceNotZero DEF Counters, Transform, TransformFails, freezeCompile
    <3>2. \A i \in 1..NumOps : converted[i] # 0
      BY <2>5 DEF Whole, Transform, TransformFails, At
    <3>3. \A u \in Thread : u # t => pc'[u] = pc[u] /\ op'[u] = op[u]
      BY <1>0, <2>5 DEF Counters, Transform, TransformFails, Return, Goto
    <3>4. pc'[t] \in {"ready", "build"}
      BY <1>0, <2>5 DEF Transform, TransformFails, Return, Goto
    <3> QED
      BY <3>1, <3>2, <3>3, <3>4 DEF Whole
  <2>6. CASE Build(t)
    BY <1>0, <2>6 DEF Whole, Build, At, Goto
  <2>7. ASSUME NEW p, Return(t, p), UNCHANGED <<compiled_, converted, transformed>> PROVE Whole'
    BY <1>0, <2>7 DEF Whole, Counters, Return, Goto
  <2>8. CASE Hit(t) \/ ConvertFails(t) \/ BuildFails(t) \/ cachePreparedModel(t)
    BY <2>7, <2>8 DEF Hit, ConvertFails, BuildFails, cachePreparedModel
  <2> QED
    BY <1>4, <2>1, <2>2, <2>3, <2>4, <2>5, <2>6, <2>8 DEF PrepareStep
<1> QED
  BY <1>1, <1>2, <1>3, <1>4 DEF Next

\* Keys of the cache, and on their way to it, are shapes the operand has had.
LEMMA KeysStep == TypeOK /\ Locks /\ Keys /\ [Next]_vars => Keys'
<1> SUFFICES ASSUME TypeOK, Locks, Keys, [Next]_vars PROVE Keys'
  OBVIOUS
<1> USE DEF modelVars, cacheVars, history
<1>0. /\ pc \in [Thread -> PC]
      /\ comp \in [Thread -> Compilations \cup {None}]
      /\ key \in [Thread -> Dims \cup {None}]
      /\ prepared_models_ \in [Compilations -> [Dims \cup {None} -> Dims \cup {None}]]
      /\ shapes \subseteq Dims
      /\ None \notin Dims
  BY CompilationAssumption DEF TypeOK
<1>a. UNCHANGED <<pc, shapes>> => NoAbort'
  BY DEF Keys, NoAbort, Aborted
<1>b. ASSUME NEW t \in Thread, NEW label \in PC, label # "abort", pc' = [pc EXCEPT ![t] = label],
             shapes' = shapes
      PROVE  NoAbort'
  BY <1>0, <1>b DEF Keys, NoAbort, Aborted
<1>c. UNCHANGED prepared_models_ => \A c \in Compilations : Cached(c)' = Cached(c)
  BY DEF Cached
<1>1. CASE UNCHANGED vars
  BY <1>1, <1>a, <1>c DEF Keys, vars
<1>2. ASSUME NEW t \in Thread, NEW d \in Dims, setInput(t, d) PROVE Keys'
  <2>1. d \in shapes' /\ shapes \subseteq shapes'
    BY <1>2 DEF setInput
  <2>2. ~Aborted'
    BY <1>2 DEF setInput, At, Aborted
  <2> QED
    BY <1>2, <1>c, <2>1, <2>2 DEF Keys, NoAbort, setInput
<1>3. ASSUME NEW t \in Thread, NEW c \in Compilations, prepareModel(t, c) PROVE Keys'
  BY <1>0, <1>3, <1>b, <1>c DEF Keys, prepareModel, Goto, generateSignature, PC
<1>4. ASSUME NEW t \in Thread, PrepareStep(t) PROVE Keys'
  <2>0. pc[t] # "ready" => comp[t] \in Compilations
    BY <1>0 DEF Locks, InPrepare
  <2>1. CASE Miss(t) \/ ConvertDone(t) \/ Build(t)
    BY <1>0, <2>1, <1>b, <1>c DEF Keys, Miss, ConvertDone, Build, At, Goto, PC
  <2>2. CASE AssertFails(t)
    <3>1. PICK d \in Cached(comp[t]) : TRUE
      BY <2>2 DEF AssertFails
    <3>2. d \in shapes /\ key[t] \in shapes /\ d # key[t]
      BY <2>0, <2>2, <3>1 DEF Keys, AssertFails, At
    <3>3. NoAbort'
      BY <2>2, <3>2 DEF NoAbort, AssertFails
    <3> QED
      BY <1>0, <2>2, <1>c, <3>3 DEF Keys, AssertFails, Goto
  <2>3. CASE Convert(t)
    BY <2>3, <1>a, <1>c DEF Keys, Convert
  <2>4. CASE Transform(t)
    BY <1>0, <2>4, <1>b, <1>c DEF Keys, Transform, freezeCompile, generateSignature, Goto, PC
  <2>5. ASSUME NEW p, Return(t, p), UNCHANGED <<operand, prepared_models_, shapes>>,
               compiled_ => compiled_', compiled_' => signature_' \in shapes
        PROVE  Keys'
    BY <1>0, <2>5, <1>b, <1>c DEF Keys, Return, Goto, PC
  <2>6. CASE Hit(t) \/ ConvertFails(t) \/ BuildFails(t)
    BY <2>5, <2>6 DEF Hit, ConvertFails, BuildFails, Keys
  <2>7. CASE TransformFails(t)
    BY <2>5, <2>7 DEF TransformFails, freezeCompile, generateSignature, Keys
  <2>8. CASE cachePreparedModel(t)
    <3>1. PICK k \in Compilations : k = comp[t]
      BY <2>0, <2>8 DEF cachePreparedModel, At
    <3>2. signature_ \in shapes
      BY <2>8 DEF Keys, cachePreparedModel, At
    <3>3. prepared_models_' = [prepared_models_ EXCEPT ![k][signature_] = got[t]]
      BY <2>8, <3>1 DEF cachePreparedModel
    <3>4. \A c \in Compilations : Cached(c)' \subseteq Cached(c) \cup {signature_}
      BY <1>0, <3>2, <3>3 DEF Cached
    <3>5. \A c \in Compilations : Cached(c)' \subseteq shapes'
      BY <2>8, <3>2, <3>4 DEF Keys, cachePreparedModel
    <3> QED
      BY <1>0, <2>8, <3>5, <1>b DEF Keys, cachePreparedModel, Return, Goto, PC
  <2> QED
    BY <1>4, <2>1, <2>2, <2>3, <2>4, <2>6, <2>7, <2>8 DEF PrepareStep
<1> QED
  BY <1>1, <1>2, <1>3, <1>4 DEF Next

-----------------------------------------------------------------------------
LEMMA FromOneStep == TypeOK /\ FromOne /\ [Next]_vars => FromOne'
<1> SUFFICES ASSUME TypeOK, FromOne, [Next]_vars PROVE FromOne'
  OBVIOUS
<1> USE DEF FromOne
<1>0. pc \in [Thread -> PC] /\ DOMAIN op = Thread
  BY DEF TypeOK
<1>1. CASE UNCHANGED vars
  BY <1>1 DEF vars
<1>2. ASSUME NEW t \in Thread, NEW d \in Dims, setInput(t, d) PROVE FromOne'
  BY <1>2 DEF setInput
<1>3. ASSUME NEW t \in Thread, NEW c \in Compilations, prepareModel(t, c) PROVE FromOne'
  BY <1>0, <1>3 DEF prepareModel, Goto, At
<1>4. ASSUME NEW t \in Thread, PrepareStep(t) PROVE FromOne'
  <2>1. CASE AssertFails(t) \/ Miss(t) \/ ConvertDone(t) \/ Transform(t) \/ Build(t)
    BY <1>0, <2>1 DEF AssertFails, Miss, ConvertDone, Transform, Build, Goto
  <2>2. CASE Convert(t)
    BY <1>0, <2>2 DEF Convert, At
  <2>3. CASE Hit(t) \/ ConvertFails(t) \/ TransformFails(t) \/ BuildFails(t) \/ cachePreparedModel(t)
    BY <1>0, <2>3 DEF Hit, ConvertFails, TransformFails, BuildFails, cachePreparedModel, Return, Goto
  <2> QED
    BY <1>4, <2>1, <2>2, <2>3 DEF PrepareStep
<1> QED
  BY <1>1, <1>2, <1>3, <1>4 DEF Next

LEMMA ProgressStep == TypeOK /\ Progress /\ [Next]_vars => Progress'
<1> SUFFICES ASSUME TypeOK, FromOne, ~reconverts => Single, [Next]_vars, ~reconverts'
             PROVE  Single'
  BY FromOneStep DEF Progress
<1> USE DEF Single, Converting, modelVars, cacheVars, history
<1>0. pc \in [Thread -> PC] /\ Counters /\ reconverts \in BOOLEAN
  BY TypeParts DEF TypeOK
<1>1. CASE UNCHANGED vars
  BY <1>1 DEF vars
<1>2. ASSUME NEW t \in Thread, NEW d \in Dims, setInput(t, d) PROVE Single'
  BY <1>2 DEF setInput
<1>3. ASSUME NEW t \in Thread, NEW c \in Compilations, prepareModel(t, c) PROVE Single'
  BY <1>0, <1>3 DEF prepareModel, Goto, At
<1>4. ASSUME NEW t \in Thread, PrepareStep(t) PROVE Single'
  <2>1. CASE Miss(t)
    <3>1. ~reconverts /\ Single /\ (~compiled_ => \A u \in Thread : ~Converting(u))
      BY <1>0, <2>1 DEF Miss
    <3>2. op[t] = 1 /\ UNCHANGED <<converted, transformed, compiled_, op>>
      BY <2>1 DEF Miss, At, FromOne
    <3>3. CASE compiled_
      BY <1>0, <2>1, <3>1, <3>2, <3>3 DEF Miss, At, Goto
    <3>4. CASE ~compiled_
      <4>1. pc' = [pc EXCEPT ![t] = "convert"]
        BY <2>1, <3>4 DEF Miss, Goto
      <4>2. \A u \in Thread : Converting(u)' => u = t
        BY <1>0, <3>1, <3>4, <4>1
      <4>3. transformed' = 0 /\ \A i \in 1..NumOps : converted'[i] = 0
        BY <3>1, <3>2, <3>4
      <4>4. \A i \in 1..NumOps : ~(i < op[t])
        BY <3>2
      <4> QED
        BY <1>0, <3>2, <3>4, <4>1, <4>2, <4>3, <4>4
    <3> QED
      BY <3>3, <3>4
  <2>2. CASE AssertFails(t) \/ Build(t)
    BY <1>0, <2>2 DEF AssertFails, Build, Goto, At
  <2>3. CASE Convert(t)
    <3>1. Single /\ Converting(t) /\ op[t] \in 1..NumOps
      BY <1>0, <2>3, NumOpsPositive DEF Counters, Convert, At
    <3>2. \A u \in Thread : Converting(u) => u = t
      BY <3>1
    <3>3. \A i \in 1..NumOps : converted'[i] = IF i = op[t] THEN 1 ELSE converted[i]
      BY <1>0, <2>3, <3>1, OnceNotZero DEF Counters, Convert, At
    <3>4. op'[t] = op[t] + 1
      BY <1>0, <2>3 DEF Counters, Convert
    <3>5. UNCHANGED <<pc, compiled_, transformed>>
      BY <2>3 DEF Convert
    <3>6. \A i \in 1..NumOps : converted'[i] = IF i < op'[t] THEN 1 ELSE 0
      BY <2>3, <3>1, <3>3, <3>4, NumOpsPositive DEF Convert, At
    <3>7. \A i \in 1..NumOps : converted'[i] <= 1
      BY <3>6
    <3> QED
      BY <3>1, <3>2, <3>5, <3>6, <3>7
  <2>4. CASE ConvertDone(t)
    BY <1>0, <2>4 DEF ConvertDone, Goto, At
  <2>5. CASE Transform(t) \/ TransformFails(t)
    <3>1. Single /\ Converting(t)
      BY <2>5 DEF Transform, TransformFails, At
    <3>2. transformed' = 1 /\ compiled_' = TRUE /\ converted' = converted
      BY <1>0, <2>5, <3>1, OnceNotZero DEF Counters, Transform, TransformFails, freezeCompile
    <3>3. \A u \in Thread : ~Converting(u)'
      BY <1>0, <2>5, <3>1 DEF Transform, TransformFails, Return, Goto
    <3> QED
      BY <3>1, <3>2, <3>3
  <2>6. ConvertFails(t) => reconverts'
    BY DEF ConvertFails
  <2>7. ASSUME NEW p, Return(t, p), ~Converting(t), Single,
               UNCHANGED <<compiled_, converted, transformed>>
        PROVE  Single'
    <3>1. \A u \in Thread : u # t => pc'[u] = pc[u] /\ op'[u] = op[u]
      BY <1>0, <2>7 DEF Counters, Return, Goto
    <3>2. pc'[t] = "ready"
      BY <1>0, <2>7 DEF Return, Goto
    <3>3. \A u \in Thread : Converting(u)' <=> Converting(u)
      BY <2>7, <3>1, <3>2
    <3> QED
      BY <2>7, <3>1, <3>2, <3>3
  <2>8. CASE Hit(t) \/ BuildFails(t) \/ cachePreparedModel(t)
    BY <2>7, <2>8 DEF Hit, BuildFails, cachePreparedModel, At
  <2> QED
    BY <1>4, <2>1, <2>2, <2>3, <2>4, <2>5, <2>6, <2>8 DEF PrepareStep
<1> QED
  BY <1>1, <1>2, <1>3, <1>4 DEF Next

-----------------------------------------------------------------------------
LEMMA InitIInv == Init => IInv
<1> SUFFICES ASSUME Init PROVE IInv
  OBVIOUS
<1>1. TypeOK
  <2>1. Counters
    BY NumOpsPositive DEF Init, Counters
  <2>2. Others
    BY DEF Init, Others, PC
  <2> QED
    BY <2>1, <2>2, TypeParts
<1>2. Locks /\ Builds /\ Whole
  BY DEF Init, Locks, InPrepare, Builds, Whole
<1>3. Progress
  <2>1. FromOne
    BY DEF Init, FromOne
  <2>2. Single
    BY DEF Init, Single, Converting
  <2> QED
    BY <2>1, <2>2 DEF Progress
<1>4. Keys
  BY DEF Init, Keys, Cached, NoAbort, Aborted
<1> QED
  BY <1>1, <1>2, <1>3, <1>4 DEF IInv

LEMMA IInvStep == IInv /\ [Next]_vars => IInv'
  BY TypeParts, CountersStep, OthersStep, LocksStep, BuildsStep, WholeStep, ProgressStep, KeysStep DEF IInv

\* The inductive invariant of Compilation holds in every reachable state.
THEOREM Invariance == Spec => []IInv
  BY InitIInv, IInvStep, PTL DEF Spec

\* The types of Compilation.
THEOREM TypeOKThm == Spec => []TypeOK
<1>1. IInv => TypeOK
  BY DEF IInv
<1> QED
  BY <1>1, Invariance, PTL

\* Each operation is converted and the model is transformed at most once, unless a
\* conversion fails or two overlap.
THEOREM ConvertedOnceThm == Spec => []ConvertedOnce
<1>1. IInv => ConvertedOnce
  BY DEF IInv, Progress, Single, ConvertedOnce
<1> QED
  BY <1>1, Invariance, PTL

\* A graph is built only from a model that is converted and transformed.
THEOREM BuiltFromWholeModelThm == Spec => []BuiltFromWholeModel
<1>1. IInv => BuiltFromWholeModel
  BY DEF IInv, Whole, BuiltFromWholeModel
<1> QED
  BY <1>1, Invariance, PTL

\* A Compilation builds at most one graph.
THEOREM BuiltOnceThm == Spec => []BuiltOnce
<1>1. IInv => BuiltOnce
  BY DEF IInv, Builds, BuiltOnce
<1> QED
  BY <1>1, Invariance, PTL

\* The assertion of prepareModel holds as long as the operand has one shape.
THEOREM NoAbortThm == Spec => []NoAbort
<1>1. IInv => NoAbort
  BY DEF IInv, Keys
<1> QED
  BY <1>1, Invariance, PTL
=============================================================================
