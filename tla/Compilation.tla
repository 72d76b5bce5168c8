----------------------------- MODULE Compilation -----------------------------
(***************************************************************************)
(* nnrt/compilation.cpp and PreparedModel::prepare of prepared_model.cpp,  *)
(* with the parts of nnrt/model.cpp they change: the cache of prepared     *)
(* models of each Compilation, keyed by the signature of the Model, and    *)
(* the one-time conversion of the Model that the first prepare performs.   *)
(*                                                                         *)
(* Threads bind an input (Execution::setInput, which writes the shape into *)
(* the operand of the shared Model) and call prepareModel, which holds the *)
(* Compilation's cache_mutex_.  Nothing protects the Model itself: several *)
(* Compilations of one Model, and setInput of other executions, run        *)
(* concurrently with a prepare.                                            *)
(***************************************************************************)
EXTENDS Naturals

CONSTANTS
  Thread,       \* application threads and the Executions they use
  Compilations, \* the Compilation objects created from the Model
  Dims,         \* dimensions an input may be given
  NumOps,       \* operations of the Model, converted in the order of their ids
  MayFail,      \* which of "convert", "transform", "build" may fail
  None

ASSUME CompilationAssumption ==
  /\ NumOps \in Nat \ {0}
  /\ MayFail \subseteq {"convert", "transform", "build"}
  /\ None \notin Dims \cup Compilations \cup Thread

VARIABLES
  operand,           \* dimensions of the input operand of the Model
  compiled_,         \* Model::compiled_
  signature_,        \* Model::signature_, None before freezeCompile
  converted,         \* how often each operation was rewritten: 0, 1, 2 or more
  transformed,       \* how often the transformations ran: 0, 1, 2 or more
  cache_mutex_,      \* per Compilation
  prepared_models_,  \* per Compilation: signature -> what the graph was built for
  builds,            \* per Compilation: graphs ever built
  pc, comp, key, op, \* per thread: control, Compilation, model_signature, next op
  bound,             \* per thread: the shape its execution has bound, or None
  got,               \* per thread: the prepared model prepareModel returned, or None
  shapes,            \* history: the dimensions the operand has had
  reconverts         \* history: a conversion failed, or two have overlapped

modelVars == <<operand, compiled_, signature_, converted, transformed>>
cacheVars == <<cache_mutex_, prepared_models_, builds>>
history == <<shapes, reconverts>>
vars == <<modelVars, cacheVars, pc, comp, key, op, bound, got, history>>

PC == {"ready", "lookup", "convert", "transform", "build", "cache", "abort"}

TypeOK ==
  /\ operand \in Dims
  /\ compiled_ \in BOOLEAN
  /\ signature_ \in Dims \cup {None}
  /\ converted \in [1..NumOps -> 0..2]
  /\ transformed \in 0..2
  /\ cache_mutex_ \in [Compilations -> Thread \cup {None}]
  /\ prepared_models_ \in [Compilations -> [Dims \cup {None} -> Dims \cup {None}]]
  /\ builds \in [Compilations -> Nat]
  /\ pc \in [Thread -> PC]
  /\ comp \in [Thread -> Compilations \cup {None}]
  /\ key \in [Thread -> Dims \cup {None}]
  /\ op \in [Thread -> 1..NumOps + 1]
  /\ bound \in [Thread -> Dims \cup {None}]
  /\ got \in [Thread -> Dims \cup {None}]
  /\ shapes \subseteq Dims
  /\ reconverts \in BOOLEAN

Init ==
  /\ operand \in Dims
  /\ compiled_ = FALSE
  /\ signature_ = None
  /\ converted = [i \in 1..NumOps |-> 0]
  /\ transformed = 0
  /\ cache_mutex_ = [c \in Compilations |-> None]
  /\ prepared_models_ = [c \in Compilations |-> [d \in Dims \cup {None} |-> None]]
  /\ builds = [c \in Compilations |-> 0]
  /\ pc = [t \in Thread |-> "ready"]
  /\ comp = [t \in Thread |-> None]
  /\ key = [t \in Thread |-> None]
  /\ op = [t \in Thread |-> 1]
  /\ bound = [t \in Thread |-> None]
  /\ got = [t \in Thread |-> None]
  /\ shapes = {operand}
  /\ reconverts = FALSE

\* A counter that only tells 0, 1 and more.
Once(n) == IF n = 2 THEN 2 ELSE n + 1

Aborted == \E t \in Thread : pc[t] = "abort"

At(t, label) == pc[t] = label /\ ~Aborted
Goto(t, label) == pc' = [pc EXCEPT ![t] = label]

\* Model::generateSignature: the dimensions of the inputs and nothing else.
generateSignature == operand

Cached(c) == {d \in Dims \cup {None} : prepared_models_[c][d] # None}

-----------------------------------------------------------------------------
\* Execution::setInput on the execution of thread t, which writes the dimensions into
\* the operand.  Without a buffer the input is omitted and the operand keeps those it has.
setInput(t, dims) ==
  /\ At(t, "ready")
  /\ operand' = dims
  /\ bound' = [bound EXCEPT ![t] = operand']
  /\ got' = [got EXCEPT ![t] = None]
  /\ shapes' = shapes \cup {operand'}
  /\ UNCHANGED <<compiled_, signature_, converted, transformed, cacheVars, pc, comp, key, op, reconverts>>

\* Mutant: prepareModel without the lock.
prepareUnlocked(t, c) ==
  /\ At(t, "ready")
  /\ bound[t] # None
  /\ cache_mutex_' = [cache_mutex_ EXCEPT ![c] = t]
  /\ comp' = [comp EXCEPT ![t] = c]
  /\ key' = [key EXCEPT ![t] = generateSignature]
  /\ got' = [got EXCEPT ![t] = None]
  /\ Goto(t, "lookup")
  /\ UNCHANGED <<modelVars, prepared_models_, builds, op, bound, history>>

\* startCompute or compute calls prepareModel: lock, compute the key.
prepareModel(t, c) ==
  /\ At(t, "ready")
  /\ bound[t] # None
  /\ cache_mutex_[c] = None
  /\ cache_mutex_' = [cache_mutex_ EXCEPT ![c] = t]
  /\ comp' = [comp EXCEPT ![t] = c]
  /\ key' = [key EXCEPT ![t] = generateSignature]
  /\ got' = [got EXCEPT ![t] = None]
  /\ Goto(t, "lookup")
  /\ UNCHANGED <<modelVars, prepared_models_, builds, op, bound, history>>

\* Return from prepareModel with what it found, or None and an error.
Return(t, prepared) ==
  /\ got' = [got EXCEPT ![t] = prepared]
  /\ cache_mutex_' = [cache_mutex_ EXCEPT ![comp[t]] = None]
  /\ comp' = [comp EXCEPT ![t] = None]
  /\ key' = [key EXCEPT ![t] = None]
  /\ op' = [op EXCEPT ![t] = 1]
  /\ Goto(t, "ready")
  /\ UNCHANGED bound

Hit(t) ==
  /\ At(t, "lookup")
  /\ key[t] \in Cached(comp[t])
  /\ Return(t, prepared_models_[comp[t]][key[t]])
  /\ UNCHANGED <<modelVars, prepared_models_, builds, history>>

\* assert(prepared_models_.size() == 0)
AssertFails(t) ==
  /\ At(t, "lookup")
  /\ key[t] \notin Cached(comp[t])
  /\ Cached(comp[t]) # {}
  /\ Goto(t, "abort")
  /\ UNCHANGED <<modelVars, cacheVars, comp, key, op, bound, got, history>>

\* prepare looks at isCompiled without a lock.
Converting(u) == pc[u] \in {"convert", "transform"}

Miss(t) ==
  /\ At(t, "lookup")
  /\ Cached(comp[t]) = {}
  /\ Goto(t, IF compiled_ THEN "build" ELSE "convert")
  /\ reconverts' = (reconverts \/ (~compiled_ /\ \E u \in Thread : Converting(u)))
  /\ UNCHANGED <<modelVars, cacheVars, comp, key, op, bound, got, shapes>>

-----------------------------------------------------------------------------
(* PreparedModel::prepare                                                  *)

\* One round of NnApiInterpreter::run: operation op[t] is replaced.
Convert(t) ==
  /\ At(t, "convert")
  /\ op[t] <= NumOps
  /\ converted' = [converted EXCEPT ![op[t]] = Once(@)]
  /\ op' = [op EXCEPT ![t] = @ + 1]
  /\ UNCHANGED <<operand, compiled_, signature_, transformed, cacheVars, pc, comp, key, bound, got, history>>

\* A conversion returned no operation: those before it stay converted.
ConvertFails(t) ==
  /\ At(t, "convert")
  /\ op[t] <= NumOps
  /\ "convert" \in MayFail
  /\ Return(t, None)
  /\ reconverts' = TRUE
  /\ UNCHANGED <<modelVars, prepared_models_, builds, shapes>>

\* Mutant: the last operation is left out.
ConvertDoneEarly(t) ==
  /\ At(t, "convert")
  /\ op[t] >= NumOps
  /\ Goto(t, "transform")
  /\ UNCHANGED <<modelVars, cacheVars, comp, key, op, bound, got, history>>

ConvertDone(t) ==
  /\ At(t, "convert")
  /\ op[t] = NumOps + 1
  /\ Goto(t, "transform")
  /\ UNCHANGED <<modelVars, cacheVars, comp, key, op, bound, got, history>>

\* Mutant: the model is not marked compiled.
freezeSignatureOnly == signature_' = generateSignature /\ UNCHANGED compiled_

\* Mutant: the signature is not recorded.
freezeNoSignature == compiled_' = TRUE /\ UNCHANGED signature_

freezeCompile == signature_' = generateSignature /\ compiled_' = TRUE

\* transformations.once, then freezeCompile whatever it returned.
Transform(t) ==
  /\ At(t, "transform")
  /\ transformed' = Once(transformed)
  /\ freezeCompile
  /\ Goto(t, "build")
  /\ UNCHANGED <<operand, converted, cacheVars, comp, key, op, bound, got, history>>

TransformFails(t) ==
  /\ At(t, "transform")
  /\ "transform" \in MayFail
  /\ transformed' = Once(transformed)
  /\ freezeCompile
  /\ Return(t, None)
  /\ UNCHANGED <<operand, converted, prepared_models_, builds, history>>

\* OvxlibDelegate::process: the graph is built for the operand as it is now.
Build(t) ==
  /\ At(t, "build")
  /\ got' = [got EXCEPT ![t] = operand]
  /\ builds' = [builds EXCEPT ![comp[t]] = @ + 1]
  /\ Goto(t, "cache")
  /\ UNCHANGED <<modelVars, cache_mutex_, prepared_models_, comp, key, op, bound, history>>

BuildFails(t) ==
  /\ At(t, "build")
  /\ "build" \in MayFail
  /\ Return(t, None)
  /\ UNCHANGED <<modelVars, prepared_models_, builds, history>>

\* cachePreparedModel under the Model's signature.  The eviction loop before it
\* finds nothing: the assertion let only an empty cache pass.
cachePreparedModel(t) ==
  /\ At(t, "cache")
  /\ prepared_models_' = [prepared_models_ EXCEPT ![comp[t]][signature_] = got[t]]
  /\ Return(t, got[t])
  /\ UNCHANGED <<modelVars, builds, history>>

-----------------------------------------------------------------------------
PrepareStep(t) ==
  \/ Hit(t) \/ AssertFails(t) \/ Miss(t)
  \/ Convert(t) \/ ConvertFails(t) \/ ConvertDone(t)
  \/ Transform(t) \/ TransformFails(t)
  \/ Build(t) \/ BuildFails(t) \/ cachePreparedModel(t)

Next ==
  \E t \in Thread :
    \/ \E d \in Dims : setInput(t, d)
    \/ \E c \in Compilations : prepareModel(t, c)
    \/ PrepareStep(t)

Spec == Init /\ [][Next]_vars

-----------------------------------------------------------------------------
(* Properties                                                              *)

\* The conversion and the transformations rewrite the Model in place and are
\* not idempotent: each operation must be converted at most once, and the
\* transformations run at most once, however often a prepare is retried after a
\* transformation or a build has failed, and by however many Compilations.  Only
\* a failed conversion, which leaves a part converted, and two Compilations that
\* convert at the same time, which no lock prevents, break that.
ConvertedOnce ==
  ~reconverts =>
    /\ \A i \in 1..NumOps : converted[i] <= 1
    /\ transformed <= 1

\* A graph is built only from a completely converted and transformed Model.
BuiltFromWholeModel ==
  \A t \in Thread : pc[t] \in {"build", "cache"} =>
    /\ \A i \in 1..NumOps : converted[i] # 0
    /\ transformed # 0

\* All executions of a Compilation share one graph: it is never built twice.
BuiltOnce == \A c \in Compilations : builds[c] <= 1

\* As long as every execution binds the same dimensions the assertion of prepareModel
\* holds, also when a first prepare failed and is retried, and with other Compilations.
NoAbort == Aborted => \E d, e \in shapes : d # e
=============================================================================
