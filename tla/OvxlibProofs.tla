---------------------------- MODULE OvxlibProofs ----------------------------
(***************************************************************************)
(* Proofs about two parts of ovxlib that share nothing: RnnFeedback and    *)
(* Containers.                                                             *)
(*                                                                         *)
(* RnnFeedback, for any connections, any number of runs and failures: a    *)
(* precompiled node never runs on memory that its tensors were swapped     *)
(* away from, and the recurrent inputs hold what they are to hold.         *)
(*                                                                         *)
(* The swaps and the setting of parameters are phases of different calls,  *)
(* with failed calls between them, so what holds at all times is weaker    *)
(* than the first: a tensor that is not marked swapped has the memory that *)
(* the first parameter it is knows.  That is all the check of the          *)
(* parameters relies on: a mark it clears is one whose first parameter has *)
(* been set, now or earlier in the same check.  The processing comes       *)
(* directly after it.                                                      *)
(*                                                                         *)
(* The second follows a state through a call: from the outputs, which are  *)
(* the last run's while states are saved, to the buffers, which are never  *)
(* older than the last call that succeeded, or through the swap, to the    *)
(* inputs of the connections that have been fed.  A connection that is fed *)
(* does not disturb those before it, as the tensors have different memory. *)
(* What is swapped stays among the tensors of swapped connections, so that *)
(* a parameter left on old memory harms no copied connection.              *)
(*                                                                         *)
(* Containers, for any keys, values and finitely many items: the tree is a *)
(* search tree at all times and every walk down it ends, the list and the  *)
(* tree hold the same keys, no node points to the string of a freed item,  *)
(* and both containers implement a finite map.                             *)
(*                                                                         *)
(* A search tree is one in which any two nodes have different keys and one *)
(* is on the proper side of the other, or of the place where the ways to   *)
(* them part.  A search therefore ends at the node that has the key, the   *)
(* walk to the left ends at the least node, and the deletion of a node     *)
(* moves up a subtree all of which lies on one side of every node that is  *)
(* left.  The keys of a hash map's tree are read through its items, so all *)
(* this is said of the keys as they are read, and a step that frees an     *)
(* item has to have taken its key out of the tree before.                  *)
(***************************************************************************)
EXTENDS RnnFeedback, Containers, FiniteSetTheorems, SequenceTheorems, WellFoundedInduction, TLAPS

Handles ==
  /\ slots \in SlotLists
  /\ handle = [t \in Tensor |-> handle[t]]
  /\ param = [s \in Slot |-> param[s]]
  /\ is_swapped \in [Tensor -> BOOLEAN]
  /\ idx \in Nat \ {0}

\* The first parameter that a tensor is knows its memory, or the tensor is marked.
Marked == \A s \in Slot : First(s) => is_swapped[slots[s].tensor] \/ param[s] = handle[slots[s].tensor]

\* So far the check has found or made the parameters right.
CheckedSoFar ==
  Phase("check") => \A s \in Slot : s < idx /\ First(s) => param[s] = handle[slots[s].tensor]

\* A call processes the graph directly after the check of the parameters, and
\* begins with something else.
CheckedFirst(phases) ==
  /\ phases \in Seq({"feed", "check", "process", "save"})
  /\ \A p \in 1..Len(phases) - 1 : phases[p + 1] = "process" => phases[p] = "check"

IInv == Handles /\ Marked /\ CheckedSoFar /\ CheckedFirst(todo) /\ ParamsCurrent

-----------------------------------------------------------------------------
\* When the check has been done, the graph may be processed.
LEMMA NextPhase ==
  ASSUME CheckedFirst(todo), ~Idle, todo' = Tail(todo)
  PROVE  /\ CheckedFirst(todo)'
         /\ Phase("process")' => Phase("check")
<1>1. todo \in Seq({"feed", "check", "process", "save"}) /\ todo # <<>>
  BY DEF CheckedFirst, Idle
<1>2. /\ todo' \in Seq({"feed", "check", "process", "save"})
      /\ Len(todo') = Len(todo) - 1
      /\ \A p \in 1..Len(todo') : todo'[p] = todo[p + 1]
  BY <1>1
<1>3. CheckedFirst(todo)'
  <2>1. ASSUME NEW p \in 1..Len(todo') - 1, todo'[p + 1] = "process"
        PROVE  todo'[p] = "check"
    <3>1. Len(todo) \in Nat /\ p + 1 \in 1..Len(todo) - 1
      BY <1>1, <1>2
    <3>2. todo'[p] = todo[p + 1] /\ todo'[p + 1] = todo[(p + 1) + 1]
      BY <1>2, <3>1
    <3> QED
      BY <2>1, <3>1, <3>2 DEF CheckedFirst
  <2> QED
    BY <1>2, <2>1 DEF CheckedFirst
<1>4. ASSUME Phase("process")' PROVE Phase("check")
  <2>1. todo' # <<>> /\ Head(todo') = "process"
    BY <1>4 DEF Phase, Idle
  <2>2. 1 \in 1..Len(todo') /\ 1 \in 1..Len(todo) - 1
    BY <1>1, <1>2, <2>1
  <2>3. todo'[1] = "process" /\ todo'[1] = todo[2]
    BY <1>2, <2>1, <2>2
  <2>4. todo[1] = "check"
    BY <2>2, <2>3 DEF CheckedFirst
  <2> QED
    BY <1>1, <2>4 DEF Phase, Idle
<1> QED
  BY <1>3, <1>4

\* Another feed before, and another save after.
LEMMA Wrapped ==
  ASSUME NEW s, CheckedFirst(s), s[1] # "process"
  PROVE  /\ CheckedFirst(<<"feed">> \o s \o <<"save">>)
         /\ (<<"feed">> \o s \o <<"save">>)[1] # "process"
<1> DEFINE P == {"feed", "check", "process", "save"}
           A == <<"feed">> \o s
           B == A \o <<"save">>
<1>1. s \in Seq(P) /\ <<"feed">> \in Seq(P) /\ <<"save">> \in Seq(P)
  BY DEF CheckedFirst
<1>2. /\ A \in Seq(P) /\ Len(A) = Len(s) + 1
      /\ \A p \in 1..Len(s) + 1 : A[p] = IF p <= 1 THEN "feed" ELSE s[p - 1]
  <2>1. /\ A \in Seq(P) /\ Len(A) = Len(<<"feed">>) + Len(s)
        /\ \A p \in 1..Len(<<"feed">>) + Len(s) :
             A[p] = IF p <= Len(<<"feed">>) THEN <<"feed">>[p] ELSE s[p - Len(<<"feed">>)]
    BY <1>1, ConcatProperties, Zenon
  <2> QED
    BY <1>1, <2>1
<1> HIDE DEF A
<1>3. /\ B \in Seq(P) /\ Len(B) = Len(s) + 2
      /\ \A p \in 1..Len(s) + 2 : B[p] = IF p <= Len(s) + 1 THEN A[p] ELSE "save"
  <2>1. /\ B \in Seq(P) /\ Len(B) = Len(A) + Len(<<"save">>)
        /\ \A p \in 1..Len(A) + Len(<<"save">>) :
             B[p] = IF p <= Len(A) THEN A[p] ELSE <<"save">>[p - Len(A)]
    BY <1>1, <1>2, ConcatProperties, Zenon
  <2> QED
    BY <1>1, <1>2, <2>1
<1> HIDE DEF B
<1>4. Len(s) \in Nat
  BY <1>1
<1>5. B[1] = "feed"
  BY <1>2, <1>3, <1>4
<1>6. ASSUME NEW p \in 1..Len(B) - 1, B[p + 1] = "process" PROVE B[p] = "check"
  <2>1. p + 1 <= Len(s) + 1 /\ A[p + 1] = "process"
    BY <1>3, <1>4, <1>6
  <2>2. A[p + 1] = s[p] /\ p \in 1..Len(s)
    BY <1>2, <1>4, <2>1
  <2>3. p # 1
    BY <2>1, <2>2
  <2>4. p - 1 \in 1..Len(s) - 1 /\ s[(p - 1) + 1] = "process"
    BY <1>4, <2>1, <2>2, <2>3
  <2>5. s[p - 1] = "check"
    BY <2>4 DEF CheckedFirst
  <2> QED
    BY <1>2, <1>3, <1>4, <2>2, <2>3, <2>5
<1> QED
  BY <1>3, <1>5, <1>6 DEF CheckedFirst, B, A

\* The phases of the calls.
LEMMA CallPhases ==
  /\ CheckedFirst(<<>>)
  /\ CheckedFirst(RunPhases) /\ RunPhases[1] # "process"
  /\ HasRNN => LET phases == <<"feed">> \o RunPhases \o <<"save">>
               IN  CheckedFirst(phases) /\ phases[1] # "process"
<1>1. /\ CheckedFirst(<<"check", "process">>)
      /\ CheckedFirst(<<"feed", "check", "process", "save">>)
      /\ CheckedFirst(<<"feed", "feed", "check", "process", "save", "save">>)
  BY DEF CheckedFirst
<1>2. CheckedFirst(<<>>)
  BY DEF CheckedFirst
<1>3. CheckedFirst(RunPhases) /\ RunPhases[1] # "process"
  BY <1>1 DEF RunPhases
<1>4. HasRNN => CheckedFirst(<<"feed">> \o RunPhases \o <<"save">>)
                  /\ (<<"feed">> \o RunPhases \o <<"save">>)[1] # "process"
  <2>1. HasRNN => RunPhases = <<"feed", "check", "process", "save">>
    BY DEF RunPhases
  <2>2. <<"feed", "check", "process", "save">>[1] # "process"
    OBVIOUS
  <2> QED
    BY <1>1, <2>1, <2>2, Wrapped, Zenon
<1> QED
  BY <1>2, <1>3, <1>4, Zenon

-----------------------------------------------------------------------------
LEMMA Slots ==
  ASSUME slots \in SlotLists
  PROVE  /\ Slot = 1..Len(slots) /\ Len(slots) \in Nat /\ Slot \subseteq Nat \ {0}
         /\ \A s \in Slot : slots[s].tensor \in Tensor
<1>1. slots \in Seq(Parameter)
  BY RnnAssumption
<1> HIDE DEF Parameter
<1>2. Len(slots) \in Nat /\ DOMAIN slots = 1..Len(slots) /\ \A s \in 1..Len(slots) : slots[s] \in Parameter
  BY <1>1
<1> QED
  BY <1>2 DEF Slot, Parameter

LEMMA InitIInv == Init => IInv
<1> SUFFICES ASSUME Init PROVE IInv
  OBVIOUS
<1>1. Handles /\ Marked
  BY Slots DEF Init, Handles, Marked, Slot
<1>2. CheckedFirst(todo) /\ CheckedSoFar /\ ParamsCurrent
  BY CallPhases DEF Init, CheckedSoFar, ParamsCurrent, Phase, Idle
<1> QED
  BY <1>1, <1>2 DEF IInv

\* A call starts, ends, fails or goes on and leaves the tensors alone.
LEMMA QuietStep ==
  ASSUME IInv, UNCHANGED <<slots, handle, is_swapped, param>>,
         \/ UNCHANGED todo /\ (UNCHANGED idx \/ (idx' = idx + 1 /\ ~Phase("check")))
         \/ todo' = <<>> /\ idx' = 1
         \/ ~Idle /\ ~Phase("check") /\ todo' = Tail(todo) /\ idx' = 1
         \/ CheckedFirst(todo)' /\ todo'[1] # "process" /\ idx' = 1
  PROVE  IInv'
<1>1. Handles' /\ Marked'
  BY DEF IInv, Handles, Marked, Slot, First
<1>2. CASE UNCHANGED todo /\ (UNCHANGED idx \/ (idx' = idx + 1 /\ ~Phase("check")))
  BY <1>1, <1>2 DEF IInv, ParamsCurrent, CheckedSoFar, Phase, Idle, CheckedFirst, Slot, First
<1>3. CASE todo' = <<>>
  BY <1>1, <1>3, CallPhases DEF IInv, ParamsCurrent, CheckedSoFar, Phase, Idle, CheckedFirst
<1>4. idx' = 1 => CheckedSoFar'
  <2>1. \A s \in Slot' : ~(s < 1)
    BY <1>1, Slots DEF Handles, Slot, IInv
  <2> QED
    BY <2>1 DEF CheckedSoFar
<1>5. CASE ~Idle /\ ~Phase("check") /\ todo' = Tail(todo) /\ idx' = 1
  BY <1>1, <1>4, <1>5, NextPhase DEF IInv, ParamsCurrent
<1>6. CASE CheckedFirst(todo)' /\ todo'[1] # "process" /\ idx' = 1
  BY <1>1, <1>4, <1>6 DEF IInv, ParamsCurrent, Phase, Idle, CheckedFirst
<1> QED
  BY <1>2, <1>3, <1>5, <1>6

LEMMA FeedSwapStep == IInv /\ FeedSwap => IInv'
<1> SUFFICES ASSUME IInv, FeedSwap PROVE IInv'
  OBVIOUS
<1>1. /\ Handles /\ Marked /\ UNCHANGED <<slots, param, todo>> /\ Head(todo) = "feed"
      /\ idx' = idx + 1
  BY DEF IInv, FeedSwap, Phase
<1>2. PICK t, u : SwapTensorHandle(t, u)
  BY DEF FeedSwap
<1>3. Handles'
  <2>1. handle' = [x \in Tensor |-> handle'[x]] /\ is_swapped' \in [Tensor -> BOOLEAN]
    BY <1>1, <1>2 DEF Handles, SwapTensorHandle
  <2>2. idx' \in Nat \ {0}
    BY <1>1 DEF Handles
  <2> QED
    BY <1>1, <2>1, <2>2 DEF Handles, Slot
<1>4. ASSUME NEW x \in Tensor
      PROVE  is_swapped'[x] \/ (is_swapped'[x] = is_swapped[x] /\ handle'[x] = handle[x])
  BY <1>1, <1>2 DEF Handles, SwapTensorHandle
<1>5. Marked'
  <2>1. \A s \in Slot : slots[s].tensor \in Tensor
    BY <1>1, Slots DEF Handles
  <2> QED
    BY <1>1, <1>4, <2>1 DEF Marked, Slot, First
<1> QED
  BY <1>1, <1>3, <1>5 DEF IInv, CheckedFirst, ParamsCurrent, CheckedSoFar, Phase

\* The mark goes with the first parameter of the tensor, or after it.
LEMMA SetParameterStep == IInv /\ SetParameter => IInv'
<1> SUFFICES ASSUME IInv, SetParameter PROVE IInv'
  OBVIOUS
<1> DEFINE t == slots[idx].tensor
<1>1. /\ Phase("check") /\ idx \in Slot /\ idx' = idx + 1 /\ UNCHANGED <<slots, handle, todo>>
      /\ \/ is_swapped[t] /\ param' = [param EXCEPT ![idx] = handle[t]]
                         /\ is_swapped' = [is_swapped EXCEPT ![t] = FALSE]
         \/ ~is_swapped[t] /\ UNCHANGED <<param, is_swapped>>
  BY DEF SetParameter
<1>2. Handles /\ Marked /\ CheckedSoFar
  BY DEF IInv
<1>3. /\ Slot = 1..Len(slots) /\ Len(slots) \in Nat /\ Slot \subseteq Nat \ {0}
      /\ \A s \in Slot : slots[s].tensor \in Tensor
  BY <1>2, Slots DEF Handles
<1>4. Handles'
  <2>1. param' = [s \in Slot |-> param'[s]] /\ is_swapped' \in [Tensor -> BOOLEAN]
    BY <1>1, <1>2 DEF Handles
  <2>2. idx' \in Nat \ {0}
    BY <1>1, <1>2 DEF Handles
  <2> QED
    BY <1>1, <1>2, <2>1, <2>2 DEF Handles, Slot
<1>5. ASSUME NEW s \in Slot, First(s), slots[s].tensor = t
      PROVE  param'[s] = handle[t]
  <2>1. ~(idx < s)
    <3>1. idx < s => idx \in 1..s - 1
      BY <1>1, <1>3
    <3> QED
      BY <1>5, <3>1 DEF First
  <2>2. CASE s = idx
    BY <1>1, <1>2, <1>5, <2>2 DEF Handles, Marked
  <2>3. CASE s < idx
    <3>1. param[s] = handle[t]
      BY <1>1, <1>2, <1>5, <2>3 DEF CheckedSoFar
    <3>2. param'[s] = param[s]
      BY <1>1, <1>2, <1>3, <2>3 DEF Handles
    <3> QED
      BY <3>1, <3>2
  <2> QED
    BY <1>1, <1>3, <2>1, <2>2, <2>3
<1>6. ASSUME NEW s \in Slot, slots[s].tensor # t
      PROVE  param'[s] = param[s] /\ is_swapped'[slots[s].tensor] = is_swapped[slots[s].tensor]
  BY <1>1, <1>2, <1>3, <1>6 DEF Handles
<1> HIDE DEF t
<1>7. Marked'
  <2> SUFFICES ASSUME NEW s \in Slot, First(s)
               PROVE  is_swapped'[slots[s].tensor] \/ param'[s] = handle[slots[s].tensor]
    BY <1>1 DEF Marked, Slot, First
  <2> QED
    BY <1>2, <1>5, <1>6 DEF Marked
<1>8. CheckedSoFar'
  <2> SUFFICES ASSUME NEW s \in Slot, s < idx + 1, First(s)
               PROVE  param'[s] = handle[slots[s].tensor]
    BY <1>1 DEF CheckedSoFar, Slot, First
  <2>1. CASE slots[s].tensor = t
    BY <1>5, <2>1
  <2>2. CASE slots[s].tensor # t
    <3>1. s # idx
      BY <2>2 DEF t
    <3>2. s < idx
      BY <1>1, <1>3, <3>1
    <3> QED
      BY <1>1, <1>2, <1>6, <2>2, <3>2 DEF CheckedSoFar
  <2> QED
    BY <2>1, <2>2
<1> QED
  BY <1>1, <1>4, <1>7, <1>8 DEF IInv, CheckedFirst, ParamsCurrent, Phase

LEMMA CheckDoneStep == IInv /\ CheckDone => IInv'
<1> SUFFICES ASSUME IInv, CheckDone PROVE IInv'
  OBVIOUS
<1>1. /\ UNCHANGED <<slots, handle, is_swapped, param>> /\ ~Idle /\ todo' = Tail(todo) /\ idx' = 1
      /\ Phase("check") /\ idx \notin Slot
  BY DEF CheckDone, Phase, Advance, tensors
<1>2. Handles' /\ Marked'
  BY <1>1 DEF IInv, Handles, Marked, Slot, First
<1>3. Slot = 1..Len(slots) /\ Len(slots) \in Nat /\ idx \in Nat \ {0}
  BY Slots DEF IInv, Handles
<1>4. \A s \in Slot : First(s) => param[s] = handle[slots[s].tensor]
  BY <1>1, <1>3 DEF IInv, CheckedSoFar
<1>5. ParamsCurrent'
  BY <1>1, <1>4 DEF ParamsCurrent, Slot, First
<1>6. CheckedSoFar'
  BY <1>1, <1>3 DEF CheckedSoFar, Slot
<1> QED
  BY <1>1, <1>2, <1>5, <1>6, NextPhase DEF IInv

LEMMA IInvStep == IInv /\ [Next]_vars => IInv'
<1> SUFFICES ASSUME IInv, [Next]_vars PROVE IInv'
  OBVIOUS
<1> USE QuietStep
<1>1. CASE UNCHANGED vars
  BY <1>1 DEF vars, tensors
<1>2. CASE \E k \in NoWksp..N, lost \in SUBSET (1..N) : InitWksp(k, lost)
  BY <1>2 DEF InitWksp, tensors
<1>3. CASE ResetBuffers \/ \E c \in 1..N : ResetFails(c)
  BY <1>3 DEF ResetBuffers, ResetFails, Reset, tensors
<1>4. CASE WriteInputs
  BY <1>4 DEF WriteInputs
<1>5. CASE RunGraph \/ rnn_RunGraph
  <2>1. UNCHANGED <<slots, handle, is_swapped, param>> /\ idx' = 1
    BY <1>5 DEF RunGraph, rnn_RunGraph, Call, tensors
  <2>2. CheckedFirst(todo)' /\ todo'[1] # "process"
    BY <1>5, CallPhases DEF RunGraph, rnn_RunGraph, Call, CheckedFirst
  <2> QED
    BY <2>1, <2>2
<1>6. CASE FeedSwap
  BY <1>6, FeedSwapStep
<1>7. CASE SetParameter
  BY <1>7, SetParameterStep
<1>8. CASE CheckDone
  BY <1>8, CheckDoneStep
<1>9. CASE FeedCopy
  BY <1>9 DEF FeedCopy, Phase
<1>10. CASE FeedFails \/ SetParameterFails \/ ProcessFails \/ SaveFails
  BY <1>10 DEF FeedFails, SetParameterFails, ProcessFails, SaveFails, Fail, Stop, tensors
<1>11. CASE FeedLost \/ SaveLost
  BY <1>11 DEF FeedLost, SaveLost, Stop, tensors
<1>12. CASE FeedFirst \/ FeedDone \/ Process \/ SaveDone
  BY <1>12 DEF FeedFirst, FeedDone, Process, SaveDone, Advance, Phase, tensors
<1>13. CASE Save
  BY <1>13 DEF Save, Phase, tensors
<1> QED
  BY <1>1, <1>2, <1>3, <1>4, <1>5, <1>6, <1>7, <1>8, <1>9, <1>10, <1>11, <1>12, <1>13 DEF Next, Step

\* For any connections, any precompiled nodes and any history of failed calls and swaps,
\* vxProcessGraph is only reached with the first parameter that each tensor is at the
\* memory the tensor has now (_check_swapped_tensors); of further parameters with the
\* same tensor nothing is said.
THEOREM ParamsCurrentThm == Spec => []ParamsCurrent
<1>1. IInv => ParamsCurrent
  BY DEF IInv
<1> QED
  BY <1>1, InitIInv, IInvStep, PTL DEF Spec

-----------------------------------------------------------------------------
(* What the memory holds                                                   *)

Plain == {<<>>, <<"process">>, <<"check", "process">>}
Once ==
  {<<>>, <<"save">>, <<"process", "save">>, <<"check", "process", "save">>,
   <<"feed", "check", "process", "save">>}
Twice ==
  {<<"save", "save">>, <<"process", "save", "save">>, <<"check", "process", "save", "save">>,
   <<"feed", "check", "process", "save", "save">>,
   <<"feed", "feed", "check", "process", "save", "save">>}

\* What may be left of a call; a call that has the graph still to process has counted
\* on a run for that.
CallInv ==
  /\ todo \in (IF ~HasRNN THEN Plain ELSE IF wrapped THEN Once \cup Twice ELSE Once)
  /\ ~Idle /\ ~Phase("save") => runs < MaxRuns

\* The tensors have different blocks.
Apart == \A t, u \in Tensor : handle[t] = handle[u] => t = u

\* Only the first call, and before it has fed anything, finds a workspace in which
\* nothing has been saved.
FirstInv ==
  /\ calls = 0 => Idle
  /\ HasRNN /\ calls = 0 => is_first_run
  /\ HasRNN /\ calls # 0 /\ is_first_run => calls = 1 /\ Phase("feed")
  /\ HasRNN /\ calls = 1 /\ ~wrapped /\ Phase("feed") => is_first_run

\* What is swapped stays among the tensors of the swapped connections.
Moves(t) == \E c \in 1..N : Swappable(c) /\ (t = Out(c) \/ t = In(c, 1))

AtHome(t, b) == IF Moves(t) THEN Moves(b) ELSE b = t

Still ==
  /\ \A t \in Tensor : AtHome(t, handle[t])
  /\ \A s \in Slot : AtHome(slots[s].tensor, param[s])

\* While the states are saved, the outputs are those of the run just done.
SavedInv ==
  Phase("save") =>
    /\ \A c \in 1..N : Distinct \/ ~Swappable(c) => mem[handle[Out(c)]] = runs
    /\ \A c \in 1..idx - 1 : Swappable(c) \/ buffer[c] = runs

\* A buffer is not older than the last call that succeeded, if there is one.
BuffersInv ==
  /\ lastOk <= runs
  /\ \A c \in 1..connected : Swappable(c) \/ buffer[c] \in (lastOk..runs) \cup {NoBuffer}

\* The inputs of the copied connections 1..n hold what is in the buffers.
Fed(n) == \A c \in 1..n : Swappable(c) \/ \A j \in 1..Len(Conns[c].ins) : mem[handle[In(c, j)]] = buffer[c]

FedInv ==
  calls = 2 /\ HasRNN =>
    /\ Phase("feed") => Fed(idx - 1)
    /\ Phase("check") \/ Phase("process") => Fed(connected)

\* The inputs of the connections 1..n hold the state of the last call.
Carried(n) == \A c \in 1..n : \A j \in 1..Len(Conns[c].ins) : mem[handle[In(c, j)]] = lastOk

Calling == Phase("feed") \/ Phase("check") \/ Phase("process")

\* As long as no call has failed, what is saved is the state of the last call, and what
\* is read is that, or what the application wrote.
CarriedInv ==
  HasRNN /\ ~failed /\ ~wrapped /\ Distinct =>
    /\ calls = 1 /\ Calling => \A t \in Ins : mem[handle[t]] = expected[t]
    /\ calls = 2 /\ Calling => \A t \in Ins : expected[t] = lastOk
    /\ calls # 0 /\ Idle => \A c \in 1..N : mem[handle[Out(c)]] = lastOk
    /\ (calls # 0 /\ Idle) \/ (calls = 2 /\ Phase("feed")) =>
         \A c \in 1..connected : Swappable(c) \/ buffer[c] = lastOk
    /\ calls = 2 /\ Phase("feed") =>
         Carried(idx - 1) /\ \A c \in idx..connected : mem[handle[Out(c)]] = lastOk
    /\ calls = 2 /\ (Phase("check") \/ Phase("process")) => Carried(connected)

MInv ==
  TypeOK /\ CallInv /\ Apart /\ Still /\ FirstInv /\ SavedInv /\ BuffersInv /\ FedInv /\ CarriedInv

-----------------------------------------------------------------------------
LEMMA Connections ==
  /\ N \in Nat /\ MaxRuns \in Nat /\ MaxFails \in Nat /\ MaxSetups \in Nat
  /\ Ins \subseteq Tensor /\ Outs \subseteq Tensor
  /\ \A c \in 1..N : Out(c) \in Outs /\ Len(Conns[c].ins) \in Nat \ {0}
  /\ \A c \in 1..N : \A j \in 1..Len(Conns[c].ins) : In(c, j) \in Ins
  /\ \A c, d \in 1..N : c # d => Out(c) # Out(d)
  /\ \A c, d \in 1..N : \A j \in 1..Len(Conns[c].ins) : In(c, j) # Out(d)
  /\ \A c, d \in 1..N : c # d =>
       \A j \in 1..Len(Conns[c].ins), k \in 1..Len(Conns[d].ins) : In(c, j) # In(d, k)
<1>1. N \in Nat /\ \A c \in 1..N : Conns[c] \in [out : Outs, ins : Seq(Ins), handles : BOOLEAN]
  <2> DEFINE Conn == [out : Outs, ins : Seq(Ins), handles : BOOLEAN]
  <2>1. Conns \in Seq(Conn)
    BY RnnAssumption
  <2> HIDE DEF Conn
  <2>2. Len(Conns) \in Nat /\ \A c \in 1..Len(Conns) : Conns[c] \in Conn
    BY <2>1
  <2> QED
    BY <2>2 DEF N, Conn
<1>2. \A c \in 1..N : Out(c) \in Outs /\ Len(Conns[c].ins) \in Nat /\ Len(Conns[c].ins) > 0
  BY <1>1, RnnAssumption DEF Out
<1>3. \A c \in 1..N : \A j \in 1..Len(Conns[c].ins) : In(c, j) \in Ins
  BY <1>1 DEF In
<1>4. \A c, d \in 1..N : \A j \in 1..Len(Conns[c].ins) : In(c, j) # Out(d)
  BY <1>2, <1>3, RnnAssumption
<1>5. \A c, d \in 1..N : c # d => Out(c) # Out(d)
  BY RnnAssumption DEF Out
<1>6. \A c, d \in 1..N : c # d =>
        \A j \in 1..Len(Conns[c].ins), k \in 1..Len(Conns[d].ins) : In(c, j) # In(d, k)
  BY FedOnce DEF In
<1> QED
  <2>1. /\ MaxRuns \in Nat /\ MaxFails \in Nat /\ MaxSetups \in Nat
        /\ Ins \subseteq Tensor /\ Outs \subseteq Tensor
    BY RnnAssumption DEF Tensor
  <2>2. \A c \in 1..N : Len(Conns[c].ins) \in Nat \ {0}
    BY <1>2
  <2> QED
    BY <1>1, <1>2, <1>3, <1>4, <1>5, <1>6, <2>1, <2>2, Zenon

LEMMA Types ==
  ASSUME TypeOK
  PROVE  /\ connected \in Int /\ connected <= N /\ idx \in Nat /\ runs \in Nat /\ lastOk \in Nat
         /\ 1..connected \subseteq 1..N /\ (HasRNN => connected \in Nat)
         /\ \A k \in 0..MaxRuns : k \in Data
         /\ User \in Data /\ Junk \in Data /\ NoBuffer \notin Data
  BY Connections DEF TypeOK, HasRNN, NoWksp, Data, User, Junk, NoBuffer

\* Nothing moves in a connection that is copied.
LEMMA CopiedHome ==
  ASSUME Still, NEW c \in 1..N, ~Swappable(c)
  PROVE  /\ ~Moves(Out(c)) /\ handle[Out(c)] = Out(c)
         /\ \A j \in 1..Len(Conns[c].ins) : ~Moves(In(c, j)) /\ handle[In(c, j)] = In(c, j)
         /\ \A s \in Slot : ~Moves(slots[s].tensor) /\ slots[s].tensor \in Tensor =>
              param[s] = handle[slots[s].tensor]
<1>1. ~Moves(Out(c))
  <2> SUFFICES ASSUME NEW d \in 1..N, Swappable(d)
               PROVE  Out(c) # Out(d) /\ Out(c) # In(d, 1)
    BY DEF Moves
  <2>1. 1 \in 1..Len(Conns[d].ins)
    BY DEF Swappable
  <2> QED
    BY <2>1, Connections
<1>2. ASSUME NEW j \in 1..Len(Conns[c].ins) PROVE ~Moves(In(c, j))
  <2> SUFFICES ASSUME NEW d \in 1..N, Swappable(d)
               PROVE  In(c, j) # Out(d) /\ In(c, j) # In(d, 1)
    BY DEF Moves
  <2>1. 1 \in 1..Len(Conns[d].ins) /\ c # d
    BY DEF Swappable
  <2> QED
    BY <2>1, Connections
<1>3. Out(c) \in Tensor /\ \A j \in 1..Len(Conns[c].ins) : In(c, j) \in Tensor
  BY Connections
<1>4. ASSUME NEW s \in Slot, ~Moves(slots[s].tensor), slots[s].tensor \in Tensor
      PROVE  param[s] = handle[slots[s].tensor]
  BY <1>4 DEF Still, AtHome
<1> QED
  BY <1>1, <1>2, <1>3, <1>4 DEF Still, AtHome

\* How a call goes on.
LEMMA Rest ==
  ASSUME CallInv, ~Idle, todo' = Tail(todo), UNCHANGED <<connected, wrapped>>
  PROVE  /\ Head(todo) \in {"feed", "check", "process", "save"}
         /\ todo' \in (IF ~HasRNN THEN Plain ELSE IF wrapped THEN Once \cup Twice ELSE Once)
         /\ Phase("feed") => HasRNN /\ (Phase("check")' \/ (wrapped /\ Phase("feed")'))
         /\ Phase("check") => Phase("process")'
         /\ Phase("process") => IF HasRNN THEN Phase("save")' /\ Len(todo) # 1 ELSE Idle' /\ Len(todo) = 1
         /\ Phase("save") => /\ HasRNN
                             /\ IF Len(todo) = 1 THEN Idle' ELSE wrapped /\ Phase("save")'
<1>1. CASE ~HasRNN
  <2>1. todo \in Plain
    BY <1>1 DEF CallInv
  <2>2. CASE todo = <<"process">>
    BY <1>1, <2>2 DEF Plain, Phase, Idle
  <2>3. CASE todo = <<"check", "process">>
    BY <1>1, <2>3 DEF Plain, Phase, Idle
  <2> QED
    BY <2>1, <2>2, <2>3 DEF Plain, Idle
<1>2. CASE HasRNN /\ todo \in Once
  <2> USE <1>2 DEF Once, Phase, Idle
  <2>1. CASE todo = <<"save">>
    BY <2>1
  <2>2. CASE todo = <<"process", "save">>
    BY <2>2
  <2>3. CASE todo = <<"check", "process", "save">>
    BY <2>3
  <2>4. CASE todo = <<"feed", "check", "process", "save">>
    BY <2>4
  <2> QED
    BY <2>1, <2>2, <2>3, <2>4
<1>3. CASE HasRNN /\ wrapped /\ todo \in Twice
  <2> USE <1>3 DEF Once, Twice, Phase, Idle
  <2>1. CASE todo = <<"save", "save">>
    BY <2>1
  <2>2. CASE todo = <<"process", "save", "save">>
    BY <2>2
  <2>3. CASE todo = <<"check", "process", "save", "save">>
    BY <2>3
  <2>4. CASE todo = <<"feed", "check", "process", "save", "save">>
    BY <2>4
  <2>5. CASE todo = <<"feed", "feed", "check", "process", "save", "save">>
    BY <2>5
  <2> QED
    BY <2>1, <2>2, <2>3, <2>4, <2>5
<1> QED
  BY <1>1, <1>2, <1>3 DEF CallInv

LEMMA TodoType ==
  ASSUME CallInv
  PROVE  todo \in Seq({"feed", "check", "process", "save"})
<1> DEFINE P == {"feed", "check", "process", "save"}
<1>1. Plain \subseteq Seq(P)
  <2>1. <<>> \in Seq(P) /\ <<"process">> \in Seq(P) /\ <<"check", "process">> \in Seq(P)
    OBVIOUS
  <2> QED
    BY <2>1, Zenon DEF Plain
<1>2. Once \subseteq Seq(P)
  <2>1. /\ <<>> \in Seq(P) /\ <<"save">> \in Seq(P) /\ <<"process", "save">> \in Seq(P)
        /\ <<"check", "process", "save">> \in Seq(P)
        /\ <<"feed", "check", "process", "save">> \in Seq(P)
    OBVIOUS
  <2> QED
    BY <2>1, Zenon DEF Once
<1>3. Twice \subseteq Seq(P)
  <2>1. /\ <<"save", "save">> \in Seq(P) /\ <<"process", "save", "save">> \in Seq(P)
        /\ <<"check", "process", "save", "save">> \in Seq(P)
        /\ <<"feed", "check", "process", "save", "save">> \in Seq(P)
        /\ <<"feed", "feed", "check", "process", "save", "save">> \in Seq(P)
    OBVIOUS
  <2> QED
    BY <2>1, Zenon DEF Twice
<1>4. todo \in Plain \/ todo \in Once \/ todo \in Twice
  BY DEF CallInv
<1> HIDE DEF P
<1>5. todo \in Seq(P)
  BY <1>1, <1>2, <1>3, <1>4
<1> QED
  BY <1>5 DEF P

\* The phases of vsi_nn_rnn_RunGraph.
LEMMA WrappedPhases ==
  <<"feed">> \o <<"feed", "check", "process", "save">> \o <<"save">>
    = <<"feed", "feed", "check", "process", "save", "save">>
<1> DEFINE P == {"feed", "check", "process", "save"}
           F == <<"feed">>
           S == <<"save">>
           R == <<"feed", "check", "process", "save">>
           A == F \o R
           B == A \o S
           W == <<"feed", "feed", "check", "process", "save", "save">>
<1>1. /\ F \in Seq(P) /\ S \in Seq(P) /\ R \in Seq(P) /\ W \in Seq(P)
      /\ Len(F) = 1 /\ Len(S) = 1 /\ Len(R) = 4 /\ Len(W) = 6
      /\ F[1] = "feed" /\ S[1] = "save"
      /\ R[1] = "feed" /\ R[2] = "check" /\ R[3] = "process" /\ R[4] = "save"
      /\ W[1] = "feed" /\ W[2] = "feed" /\ W[3] = "check" /\ W[4] = "process" /\ W[5] = "save"
      /\ W[6] = "save"
  OBVIOUS
<1> HIDE DEF P, F, S, R, W
<1>2. /\ A \in Seq(P) /\ Len(A) = 5
      /\ \A p \in 1..5 : A[p] = IF p <= 1 THEN F[p] ELSE R[p - 1]
  <2>1. /\ A \in Seq(P) /\ Len(A) = Len(F) + Len(R)
        /\ \A p \in 1..Len(F) + Len(R) : A[p] = IF p <= Len(F) THEN F[p] ELSE R[p - Len(F)]
    BY <1>1, ConcatProperties, Zenon
  <2> QED
    BY <1>1, <2>1
<1> HIDE DEF A
<1>3. /\ B \in Seq(P) /\ Len(B) = 6
      /\ \A p \in 1..6 : B[p] = IF p <= 5 THEN A[p] ELSE S[p - 5]
  <2>1. /\ B \in Seq(P) /\ Len(B) = Len(A) + Len(S)
        /\ \A p \in 1..Len(A) + Len(S) : B[p] = IF p <= Len(A) THEN A[p] ELSE S[p - Len(A)]
    BY <1>1, <1>2, ConcatProperties, Zenon
  <2> QED
    BY <1>1, <1>2, <2>1
<1> HIDE DEF B
<1>4. ASSUME NEW p \in 1..6
      PROVE  B[p] = W[p]
  <2>1. p = 1 \/ p = 2 \/ p = 3 \/ p = 4 \/ p = 5 \/ p = 6
    OBVIOUS
  <2>2. /\ A[1] = "feed" /\ A[2] = "feed" /\ A[3] = "check" /\ A[4] = "process" /\ A[5] = "save"
    BY <1>1, <1>2
  <2> QED
    BY <1>1, <1>3, <2>1, <2>2
<1>5. B = W
  BY <1>1, <1>3, <1>4, SeqEqual
<1> QED
  BY <1>5 DEF A, B, F, S, R, W

LEMMA SameSlots == ASSUME UNCHANGED slots PROVE Distinct' <=> Distinct
  BY DEF Distinct, First, Slot

LEMMA InitMInv == Init => MInv
<1> SUFFICES ASSUME Init
             PROVE  MInv
  OBVIOUS
<1> USE DEF Init
<1>1. N \in Nat /\ MaxRuns \in Nat /\ MaxFails \in Nat /\ MaxSetups \in Nat
  BY Connections
<1>2. User \in Data /\ Junk \in Data
  BY <1>1 DEF User, Junk, Data
<1>3. <<>> \in Seq({"feed", "check", "process", "save"})
  BY EmptySeq
<1>4. TypeOK
  <2>1. connected = -1 /\ connected \in NoWksp..N /\ idx \in Nat \ {0}
    BY <1>1 DEF NoWksp
  <2>2. /\ buffer \in [1..N -> Data \cup {NoBuffer}]
        /\ mem \in [Tensor -> Data] /\ expected \in [Ins -> Data]
        /\ handle \in [Tensor -> Tensor] /\ is_swapped \in [Tensor -> BOOLEAN]
    BY <1>2
  <2>3. param \in [Slot -> Tensor]
    BY Slots DEF Slot
  <2>4. /\ runs \in 0..MaxRuns /\ fails \in 0..MaxFails /\ setups \in 0..MaxSetups
        /\ lastOk \in 0..MaxRuns
    BY <1>1
  <2>5. slots \in SlotLists /\ is_first_run \in BOOLEAN /\ failed \in BOOLEAN /\ wrapped \in BOOLEAN
    OBVIOUS
  <2>6. calls \in 0..2 /\ todo \in Seq({"feed", "check", "process", "save"})
    BY <1>3
  <2> QED
    BY <2>1, <2>2, <2>3, <2>4, <2>5, <2>6 DEF TypeOK
<1>5. CallInv /\ Apart /\ FirstInv /\ SavedInv
  BY DEF CallInv, Apart, FirstInv, SavedInv, HasRNN, Plain, Idle, Phase
<1>6. BuffersInv /\ FedInv /\ CarriedInv
  BY DEF BuffersInv, FedInv, CarriedInv, HasRNN, NoWksp
<1>7. Still
  BY Slots DEF Still, AtHome, Slot
<1> QED
  BY <1>4, <1>5, <1>6, <1>7 DEF MInv

\* A call that fails leaves what no call has begun with.
LEMMA FailMInv ==
  ASSUME MInv, ~Idle, Stop, fails' \in 0..MaxFails, ~is_first_run \/ ~Phase("feed"), mem' \in [Tensor -> Data],
         UNCHANGED <<slots, wksp, handle, is_swapped, param, lastOk, calls, wrapped, expected>>
  PROVE  MInv'
<1>1. /\ todo' = <<>> /\ idx' = 1 /\ failed' = TRUE
      /\ UNCHANGED <<runs, setups, connected, is_first_run, buffer>>
  BY DEF Stop, wksp
<1>2. TypeOK'
  <2>1. <<>> \in Seq({"feed", "check", "process", "save"}) /\ 1 \in Nat \ {0}
    BY EmptySeq
  <2> QED
    BY <1>1, <2>1 DEF MInv, TypeOK, Slot
<1>3. Idle' /\ ~Phase("feed")' /\ ~Phase("check")' /\ ~Phase("process")' /\ ~Phase("save")'
  BY <1>1 DEF Phase, Idle
<1>4. CallInv'
  BY <1>1, <1>3 DEF CallInv, Plain, Once
<1>5. FirstInv'
  BY <1>1, <1>3 DEF MInv, FirstInv, HasRNN
<1>6. SavedInv' /\ FedInv'
  BY <1>3 DEF SavedInv, FedInv
<1>7. Apart' /\ Still' /\ BuffersInv' /\ CarriedInv'
  BY <1>1 DEF MInv, Apart, Still, Slot, BuffersInv, CarriedInv
<1> QED
  BY <1>2, <1>4, <1>5, <1>6, <1>7 DEF MInv

LEMMA FailType ==
  ASSUME MInv, Fail
  PROVE  Stop /\ fails' \in 0..MaxFails
  BY Connections DEF Fail, MInv, TypeOK

\* Setting up, resetting: nothing has been called since.
LEMMA ForgetMInv ==
  ASSUME MInv, Idle, Forget, connected' \in NoWksp..N, is_first_run' = TRUE, fails' \in 0..MaxFails,
         setups < MaxSetups, setups' = setups + 1, buffer' \in [1..N -> Data \cup {NoBuffer}],
         \A c \in 1..connected' : Swappable(c) \/ buffer'[c] \in (0..runs) \cup {NoBuffer},
         UNCHANGED <<slots, tensors, todo, idx, runs, expected>>
  PROVE  MInv'
<1>1. /\ lastOk' = 0 /\ calls' = 0 /\ failed' = FALSE /\ wrapped' = FALSE
      /\ UNCHANGED <<mem, handle, is_swapped, param>> /\ todo = <<>>
  BY DEF Forget, tensors, Idle
<1>2. TypeOK'
  <2>1. setups + 1 \in 0..MaxSetups /\ 0 \in 0..MaxRuns
    BY Connections DEF MInv, TypeOK
  <2>2. /\ lastOk' \in 0..MaxRuns /\ calls' \in 0..2 /\ failed' \in BOOLEAN /\ wrapped' \in BOOLEAN
        /\ setups' \in 0..MaxSetups /\ is_first_run' \in BOOLEAN
    <3>1. failed' \in BOOLEAN /\ wrapped' \in BOOLEAN /\ is_first_run' \in BOOLEAN
      BY <1>1, Zenon
    <3>2. lastOk' \in 0..MaxRuns
      BY <1>1, <2>1
    <3>3. calls' \in 0..2
      BY <1>1
    <3>4. setups' \in 0..MaxSetups
      BY <2>1
    <3> QED
      BY <3>1, <3>2, <3>3, <3>4
  <2>3. /\ slots' \in SlotLists /\ mem' \in [Tensor -> Data] /\ handle' \in [Tensor -> Tensor]
        /\ param' \in [Slot' -> Tensor] /\ is_swapped' \in [Tensor -> BOOLEAN]
        /\ idx' \in Nat \ {0} /\ runs' \in 0..MaxRuns /\ expected' \in [Ins -> Data]
        /\ todo' \in Seq({"feed", "check", "process", "save"})
    BY <1>1 DEF MInv, TypeOK, Slot
  <2> QED
    BY <2>2, <2>3 DEF TypeOK
<1>3. Idle' /\ ~Phase("feed")' /\ ~Phase("check")' /\ ~Phase("process")' /\ ~Phase("save")'
  BY <1>1 DEF Idle, Phase
<1>4. CallInv' /\ FirstInv' /\ SavedInv' /\ FedInv' /\ CarriedInv'
  BY <1>1, <1>3 DEF CallInv, FirstInv, SavedInv, FedInv, CarriedInv, Calling, Once, Plain
<1>5. Apart' /\ Still'
  BY <1>1 DEF MInv, Apart, Still, Slot
<1>6. BuffersInv'
  <2>1. runs \in Nat
    BY Types DEF MInv
  <2> QED
    BY <1>1, <2>1 DEF BuffersInv
<1> QED
  BY <1>2, <1>4, <1>5, <1>6 DEF MInv

LEMMA InitWkspMInv == ASSUME MInv, NEW k \in NoWksp..N, NEW lost, InitWksp(k, lost) PROVE MInv'
<1>1. /\ buffer' = [c \in 1..N |-> IF c <= k /\ ~Swappable(c) /\ c \notin lost THEN 0 ELSE NoBuffer]
      /\ connected' = k
  BY DEF InitWksp
<1>2. 0 \in Data /\ N \in Nat /\ runs \in Nat /\ 1..k \subseteq 1..N
  BY Types, Connections DEF MInv, NoWksp
<1>3. buffer' \in [1..N -> Data \cup {NoBuffer}]
  BY <1>1, <1>2
<1>4. \A c \in 1..connected' : buffer'[c] \in (0..runs) \cup {NoBuffer}
  BY <1>1, <1>2
<1>5. fails' \in 0..MaxFails
  BY Connections DEF InitWksp, MInv, TypeOK
<1> QED
  BY <1>1, <1>3, <1>4, <1>5, ForgetMInv DEF InitWksp

LEMMA ResetMInv == ASSUME MInv, NEW k, NEW lost, Reset(k, lost) PROVE MInv'
<1>1. /\ buffer' = [c \in 1..N |-> IF c > k \/ Swappable(c) THEN buffer[c]
                                 ELSE IF c \in lost THEN NoBuffer ELSE 0]
      /\ connected' = connected /\ fails' = fails
  BY DEF Reset
<1>2. /\ 0 \in Data /\ runs \in Nat /\ lastOk \in Nat /\ 1..connected \subseteq 1..N
      /\ connected \in NoWksp..N /\ buffer \in [1..N -> Data \cup {NoBuffer}]
  BY Types, Connections DEF MInv, TypeOK
<1>3. buffer' \in [1..N -> Data \cup {NoBuffer}]
  BY <1>1, <1>2
<1>4. ASSUME NEW c \in 1..connected', ~Swappable(c)
      PROVE  buffer'[c] \in (0..runs) \cup {NoBuffer}
  <2>1. c \in 1..connected /\ c \in 1..N
    BY <1>1, <1>2
  <2>2. buffer[c] \in (lastOk..runs) \cup {NoBuffer}
    BY <1>4, <2>1 DEF MInv, BuffersInv
  <2>3. buffer[c] \in (0..runs) \cup {NoBuffer}
    BY <1>2, <2>2
  <2>4. buffer'[c] \in {buffer[c], NoBuffer, 0}
    BY <1>1, <2>1
  <2> QED
    BY <1>2, <2>3, <2>4
<1>5. fails' \in 0..MaxFails
  BY <1>1 DEF MInv, TypeOK
<1> QED
  BY <1>1, <1>2, <1>3, <1>4, <1>5, ForgetMInv DEF Reset

LEMMA WriteMInv == ASSUME MInv, WriteInputs PROVE MInv'
<1>1. /\ todo = <<>> /\ calls = 0
      /\ mem' = [b \in Tensor |-> IF \E t \in Ins : handle[t] = b THEN User ELSE mem[b]]
      /\ UNCHANGED <<slots, connected, is_first_run, buffer, handle, is_swapped, param, todo, idx, runs,
                     fails, setups, lastOk, calls, failed, wrapped, expected>>
  BY DEF WriteInputs, Idle, wksp, counters, history
<1>2. mem' \in [Tensor -> Data]
  BY <1>1, Types DEF MInv, TypeOK
<1>3. TypeOK'
  BY <1>1, <1>2 DEF MInv, TypeOK, Slot
<1>4. Idle' /\ ~Phase("feed")' /\ ~Phase("check")' /\ ~Phase("process")' /\ ~Phase("save")'
  BY <1>1 DEF Idle, Phase
<1>5. CallInv'
  BY <1>1, <1>4 DEF MInv, CallInv, HasRNN
<1>6. FirstInv'
  BY <1>1, <1>4 DEF MInv, FirstInv, HasRNN
<1>7. SavedInv' /\ FedInv' /\ CarriedInv'
  BY <1>1, <1>4 DEF SavedInv, FedInv, CarriedInv, Calling
<1>8. Apart' /\ Still' /\ BuffersInv'
  BY <1>1 DEF MInv, Apart, Still, Slot, BuffersInv
<1> QED
  BY <1>3, <1>5, <1>6, <1>7, <1>8 DEF MInv

\* A call begins with its feed, if there is a workspace.
LEMMA CallMInv ==
  ASSUME MInv, NEW phases, Call(phases), wrapped' \in BOOLEAN,
         \/ ~HasRNN /\ phases = <<"check", "process">>
         \/ HasRNN /\ phases = <<"feed", "check", "process", "save">> /\ wrapped' = wrapped
         \/ HasRNN /\ phases = <<"feed", "feed", "check", "process", "save", "save">> /\ wrapped' = TRUE
  PROVE  MInv'
<1>1. /\ todo = <<>> /\ runs < MaxRuns /\ todo' = phases /\ idx' = 1
      /\ calls' = IF calls = 0 THEN 1 ELSE 2
      /\ expected' = [t \in Ins |-> IF calls = 0 THEN mem[handle[t]] ELSE lastOk]
      /\ UNCHANGED <<slots, connected, is_first_run, buffer, mem, handle, is_swapped, param, runs, fails,
                     setups, lastOk, failed>>
  BY DEF Call, Idle, wksp, tensors, counters
<1>2. ~Idle' /\ ~Phase("save")' /\ ~Phase("process")' /\ (HasRNN => Phase("feed")' /\ ~Phase("check")')
  BY <1>1 DEF Idle, Phase
<1>3. CallInv'
  BY <1>1, <1>2 DEF CallInv, HasRNN, Plain, Once, Twice
<1>4. TypeOK'
  <2>1. todo' \in Seq({"feed", "check", "process", "save"})
    <3>1. /\ <<"check", "process">> \in Seq({"feed", "check", "process", "save"})
          /\ <<"feed", "check", "process", "save">> \in Seq({"feed", "check", "process", "save"})
          /\ <<"feed", "feed", "check", "process", "save", "save">>
               \in Seq({"feed", "check", "process", "save"})
      OBVIOUS
    <3> QED
      BY <1>1, <3>1, Zenon
  <2>2. expected' \in [Ins -> Data]
    BY <1>1, Types, Connections DEF MInv, TypeOK
  <2>3. calls' \in 0..2 /\ idx' \in Nat \ {0}
    BY <1>1
  <2> QED
    BY <1>1, <2>1, <2>2, <2>3 DEF MInv, TypeOK, Slot
<1>5. FirstInv'
  <2>1. HasRNN => (calls = 0 <=> is_first_run)
    BY <1>1 DEF MInv, FirstInv, Phase, Idle
  <2>2. calls' # 0 /\ (calls' = 1 <=> calls = 0)
    BY <1>1
  <2> QED
    BY <1>1, <1>2, <2>1, <2>2 DEF FirstInv, HasRNN
<1>6. SavedInv'
  BY <1>2 DEF SavedInv
<1>7. FedInv'
  BY <1>1, <1>2 DEF FedInv, Fed, HasRNN
<1>8. CarriedInv'
  <2> SUFFICES ASSUME HasRNN, ~failed, ~wrapped', Distinct
               PROVE  CarriedInv'
    BY <1>1, SameSlots DEF CarriedInv, HasRNN
  <2>1. ~wrapped /\ Idle
    BY <1>1 DEF Idle
  <2>2. CASE calls = 0
    BY <1>1, <1>2, <2>2 DEF CarriedInv
  <2>3. CASE calls # 0
    <3>1. /\ \A c \in 1..N : mem[handle[Out(c)]] = lastOk
          /\ \A c \in 1..connected : Swappable(c) \/ buffer[c] = lastOk
      BY <2>1, <2>3 DEF MInv, CarriedInv
    <3>2. 1..connected \subseteq 1..N
      BY Types DEF MInv
    <3> QED
      BY <1>1, <1>2, <2>3, <3>1, <3>2 DEF CarriedInv, Carried
  <2> QED
    BY <2>2, <2>3
<1>9. Apart' /\ Still' /\ BuffersInv'
  BY <1>1 DEF MInv, Apart, Still, Slot, BuffersInv
<1> QED
  BY <1>3, <1>4, <1>5, <1>6, <1>7, <1>8, <1>9 DEF MInv

\* A phase ends: what is left is shorter, and the next phase begins with the first
\* connection.
LEMMA AdvanceType ==
  ASSUME MInv, ~Idle, Advance
  PROVE  todo' \in Seq({"feed", "check", "process", "save"}) /\ idx' = 1 /\ idx' \in Nat \ {0}
<1>1. todo \in Seq({"feed", "check", "process", "save"}) /\ todo # <<>> /\ todo' = Tail(todo) /\ idx' = 1
  BY DEF MInv, TypeOK, Idle, Advance
<1> QED
  BY <1>1

LEMMA AdvanceCall ==
  ASSUME MInv, ~Idle, Advance, UNCHANGED <<connected, wrapped>>,
         Phase("save")' \/ Idle' \/ (~Phase("save") /\ runs' = runs)
  PROVE  CallInv'
<1>1. todo' \in (IF ~HasRNN THEN Plain ELSE IF wrapped THEN Once \cup Twice ELSE Once)
  BY Rest DEF MInv, Advance
<1> QED
  BY <1>1 DEF MInv, CallInv, HasRNN

LEMMA FeedFirstMInv == ASSUME MInv, FeedFirst PROVE MInv'
<1>1. /\ ~Idle /\ Phase("feed") /\ is_first_run /\ is_first_run' = FALSE /\ Advance
      /\ UNCHANGED <<slots, connected, buffer, mem, handle, is_swapped, param, runs, fails, setups, lastOk,
                     calls, failed, wrapped, expected>>
  BY DEF FeedFirst, Phase, tensors, counters, history
<1>2. HasRNN /\ todo' = Tail(todo) /\ (Phase("check")' \/ (wrapped /\ Phase("feed")'))
  BY <1>1, Rest DEF MInv, Advance
<1>3. ~Idle' /\ ~Phase("save")' /\ ~Phase("process")' /\ ~Phase("save") /\ ~(Phase("feed")' /\ Phase("check")')
  BY <1>1, <1>2 DEF Phase, Idle
<1>4. calls = 1
  BY <1>1, <1>2 DEF MInv, FirstInv
<1>5. TypeOK'
  BY <1>1, AdvanceType DEF MInv, TypeOK, Slot
<1>6. CallInv'
  BY <1>1, <1>3, AdvanceCall
<1>7. FirstInv'
  BY <1>1, <1>2, <1>3, <1>4 DEF FirstInv
<1>8. SavedInv' /\ FedInv'
  BY <1>1, <1>3, <1>4 DEF SavedInv, FedInv
<1>9. CarriedInv'
  <2>1. Calling
    BY <1>1 DEF Calling
  <2> QED
    BY <1>1, <1>3, <1>4, <2>1, SameSlots DEF MInv, CarriedInv, HasRNN
<1>10. Apart' /\ Still' /\ BuffersInv'
  BY <1>1 DEF MInv, Apart, Still, Slot, BuffersInv
<1> QED
  BY <1>5, <1>6, <1>7, <1>8, <1>9, <1>10 DEF MInv

\* A connection is fed: in a further call, if the call is the first one's no longer.
LEMMA Feeding ==
  ASSUME MInv, Phase("feed"), ~is_first_run, idx <= connected
  PROVE  /\ ~Idle /\ HasRNN /\ idx \in 1..N /\ idx \in 1..connected /\ idx \in Nat /\ connected \in Nat
         /\ calls # 0 /\ (calls = 1 => wrapped)
         /\ ~Phase("check") /\ ~Phase("process") /\ ~Phase("save")
<1>1. idx \in Nat \ {0} /\ connected \in NoWksp..N /\ N \in Nat
  BY Connections DEF MInv, TypeOK
<1>2. ~Idle /\ HasRNN
  BY <1>1 DEF HasRNN, NoWksp, Phase
<1>3. idx \in 1..N /\ idx \in 1..connected /\ idx \in Nat /\ connected \in Nat
  BY <1>1 DEF NoWksp
<1>4. calls # 0 /\ (calls = 1 => wrapped)
  BY <1>2 DEF MInv, FirstInv
<1> QED
  BY <1>2, <1>3, <1>4 DEF Phase

LEMMA FeedSwapMInv == ASSUME MInv, FeedSwap PROVE MInv'
<1> DEFINE o == Out(idx)
           n == In(idx, 1)
<1>1. /\ Phase("feed") /\ ~is_first_run /\ idx <= connected /\ Swappable(idx) /\ idx' = idx + 1
      /\ handle' = [handle EXCEPT ![o] = handle[n], ![n] = handle[o]]
      /\ is_swapped' = [is_swapped EXCEPT ![o] = TRUE, ![n] = TRUE]
      /\ UNCHANGED <<slots, connected, is_first_run, buffer, mem, param, todo, runs, fails, setups, lastOk,
                     calls, failed, wrapped, expected>>
  BY DEF FeedSwap, SwapTensorHandle, wksp, counters, history
<1>2. /\ ~Idle /\ HasRNN /\ idx \in 1..N /\ idx \in 1..connected /\ idx \in Nat /\ connected \in Nat
      /\ calls # 0 /\ (calls = 1 => wrapped)
      /\ ~Phase("check") /\ ~Phase("process") /\ ~Phase("save")
  BY <1>1, Feeding
<1>3. /\ Len(Conns[idx].ins) = 1 /\ 1 \in 1..Len(Conns[idx].ins)
      /\ o \in Tensor /\ n \in Tensor /\ n \in Ins /\ o # n
  <2>1. Len(Conns[idx].ins) = 1 /\ 1 \in 1..Len(Conns[idx].ins)
    BY <1>1 DEF Swappable
  <2> QED
    BY <1>2, <2>1, Connections
<1>4. \A c \in 1..N : c # idx => Out(c) # o /\ Out(c) # n /\ Out(c) \in Tensor
  BY <1>2, <1>3, Connections
<1>5. \A c \in 1..N : c # idx =>
        \A j \in 1..Len(Conns[c].ins) : In(c, j) # o /\ In(c, j) # n /\ In(c, j) \in Tensor
  BY <1>2, <1>3, Connections
<1> HIDE DEF o, n
<1>6. handle \in [Tensor -> Tensor] /\ 1..connected \subseteq 1..N
  BY Types DEF MInv, TypeOK
<1>7. handle'[n] = handle[o] /\ handle'[o] = handle[n] /\ \A t \in Tensor : t # o /\ t # n => handle'[t] = handle[t]
  BY <1>1, <1>3, <1>6
<1>8. TypeOK'
  <2>1. handle' \in [Tensor -> Tensor] /\ is_swapped' \in [Tensor -> BOOLEAN]
    BY <1>1, <1>3, <1>6 DEF MInv, TypeOK
  <2>2. idx' \in Nat \ {0}
    BY <1>1, <1>2
  <2> QED
    BY <1>1, <2>1, <2>2 DEF MInv, TypeOK, Slot
<1>9. Apart'
  BY <1>3, <1>7 DEF MInv, Apart
<1>still. Still'
  <2>1. Moves(o) /\ Moves(n)
    BY <1>1, <1>2 DEF Moves, o, n
  <2>2. Moves(handle[o]) /\ Moves(handle[n])
    BY <1>3, <2>1 DEF MInv, Still, AtHome
  <2>3. ASSUME NEW t \in Tensor PROVE AtHome(t, handle'[t])
    <3>1. CASE t = o \/ t = n
      BY <1>7, <2>1, <2>2, <3>1 DEF AtHome
    <3>2. CASE t # o /\ t # n
      BY <1>7, <3>2 DEF MInv, Still
    <3> QED
      BY <3>1, <3>2
  <2> QED
    BY <1>1, <2>3 DEF MInv, Still, Slot
<1>10. CallInv' /\ FirstInv' /\ BuffersInv'
  BY <1>1 DEF MInv, CallInv, FirstInv, BuffersInv, HasRNN, Phase, Idle
<1>same. /\ UNCHANGED <<connected, is_first_run, buffer, mem, lastOk, calls, failed, wrapped, expected>>
         /\ idx' = idx + 1
  BY <1>1
<1>11. ~Idle' /\ ~Phase("check")' /\ ~Phase("process")' /\ ~Phase("save")'
  BY <1>1, <1>2 DEF Idle, Phase
<1>12. SavedInv'
  BY <1>11 DEF SavedInv
<1>13. FedInv'
  <2> SUFFICES ASSUME calls = 2, NEW c \in 1..idx, ~Swappable(c), NEW j \in 1..Len(Conns[c].ins)
               PROVE  mem[handle'[In(c, j)]] = buffer[c]
    BY <1>same, <1>2, <1>11 DEF FedInv, Fed, HasRNN
  <2>1. c \in 1..idx - 1 /\ c \in 1..N /\ c # idx
    BY <1>1, <1>2, <1>6
  <2>2. mem[handle[In(c, j)]] = buffer[c]
    BY <1>1, <1>2, <2>1 DEF MInv, FedInv, Fed
  <2> QED
    BY <1>5, <1>7, <2>1, <2>2
<1>14. CarriedInv'
  <2> SUFFICES ASSUME ~failed, ~wrapped, Distinct
               PROVE  CarriedInv'
    BY <1>1, SameSlots DEF CarriedInv
  <2>1. calls = 2
    BY <1>2, <1>1 DEF MInv, TypeOK
  <2>2. /\ \A t \in Ins : expected[t] = lastOk
        /\ \A c \in 1..connected : Swappable(c) \/ buffer[c] = lastOk
        /\ Carried(idx - 1) /\ \A c \in idx..connected : mem[handle[Out(c)]] = lastOk
    BY <1>1, <1>2, <2>1 DEF MInv, CarriedInv, Calling
  <2>3. ASSUME NEW c \in 1..idx, NEW j \in 1..Len(Conns[c].ins)
        PROVE  mem[handle'[In(c, j)]] = lastOk
    <3>1. CASE c = idx
      <4>1. Len(Conns[c].ins) = 1
        BY <1>3, <3>1
      <4>2. j = 1
        BY <2>3, <4>1
      <4>3. In(c, j) = n
        BY <3>1, <4>2 DEF n
      <4>4. mem[handle[o]] = lastOk
        BY <1>2, <2>2 DEF o
      <4> QED
        BY <1>7, <4>3, <4>4
    <3>2. CASE c # idx
      <4>1. c \in 1..idx - 1 /\ c \in 1..N
        BY <1>2, <1>6, <2>3, <3>2
      <4>2. mem[handle[In(c, j)]] = lastOk
        BY <2>2, <2>3, <4>1 DEF Carried
      <4> QED
        BY <1>5, <1>7, <2>3, <3>2, <4>1, <4>2
    <3> QED
      BY <3>1, <3>2
  <2>4. ASSUME NEW c \in idx + 1..connected
        PROVE  mem[handle'[Out(c)]] = lastOk
    <3>1. c \in idx..connected /\ c # idx /\ c \in 1..N
      BY <1>2, <1>6, <2>4
    <3>2. handle'[Out(c)] = handle[Out(c)]
      BY <1>4, <1>7, <3>1
    <3> QED
      BY <2>2, <3>1, <3>2
  <2>5. (idx + 1) - 1 = idx
    BY <1>2
  <2> QED
    BY <1>same, <1>11, <2>1, <2>2, <2>3, <2>4, <2>5 DEF CarriedInv, Carried, Calling
<1> QED
  BY <1>8, <1>9, <1>still, <1>10, <1>12, <1>13, <1>14 DEF MInv

LEMMA CopyType ==
  ASSUME MInv, NEW c \in 1..N, NEW j, buffer[c] # NoBuffer, CopyToInputs(c, j)
  PROVE  mem' \in [Tensor -> Data]
<1>1. buffer[c] \in Data /\ mem \in [Tensor -> Data]
  BY DEF MInv, TypeOK
<1> QED
  BY <1>1 DEF CopyToInputs

LEMMA FeedCopyMInv == ASSUME MInv, FeedCopy PROVE MInv'
<1>1. /\ Phase("feed") /\ ~is_first_run /\ idx <= connected /\ ~Swappable(idx) /\ idx' = idx + 1
      /\ buffer[idx] # NoBuffer /\ CopyToInputs(idx, Len(Conns[idx].ins))
      /\ UNCHANGED <<slots, connected, is_first_run, buffer, handle, is_swapped, param, todo, runs, fails,
                     setups, lastOk, calls, failed, wrapped, expected>>
  BY DEF FeedCopy, Lost, wksp, counters, history
<1>2. /\ ~Idle /\ HasRNN /\ idx \in 1..N /\ idx \in 1..connected /\ idx \in Nat /\ connected \in Nat
      /\ calls # 0 /\ (calls = 1 => wrapped)
      /\ ~Phase("check") /\ ~Phase("process") /\ ~Phase("save")
  BY <1>1, Feeding
<1>3. handle \in [Tensor -> Tensor] /\ 1..connected \subseteq 1..N
  BY Types DEF MInv, TypeOK
<1>4. /\ mem' \in [Tensor -> Data]
      /\ \A b \in Tensor : mem'[b] =
           IF \E k \in 1..Len(Conns[idx].ins) : handle[In(idx, k)] = b THEN buffer[idx] ELSE mem[b]
  BY <1>1, <1>2, CopyType DEF CopyToInputs
<1>5. \A j \in 1..Len(Conns[idx].ins) : mem'[handle[In(idx, j)]] = buffer[idx]
  <2>1. \A j \in 1..Len(Conns[idx].ins) : handle[In(idx, j)] \in Tensor
    BY <1>2, <1>3, Connections
  <2> QED
    BY <1>4, <2>1
<1>6. ASSUME NEW t \in Tensor, \A k \in 1..Len(Conns[idx].ins) : t # In(idx, k)
      PROVE  mem'[handle[t]] = mem[handle[t]]
  <2>1. \A k \in 1..Len(Conns[idx].ins) : In(idx, k) \in Tensor
    BY <1>2, Connections
  <2>2. \A k \in 1..Len(Conns[idx].ins) : handle[In(idx, k)] # handle[t]
    BY <1>6, <2>1 DEF MInv, Apart
  <2> QED
    BY <1>3, <1>4, <2>2
<1>7. \A c \in 1..N : c # idx =>
        \A j \in 1..Len(Conns[c].ins) : mem'[handle[In(c, j)]] = mem[handle[In(c, j)]]
  BY <1>2, <1>6, Connections
<1>8. \A c \in 1..N : mem'[handle[Out(c)]] = mem[handle[Out(c)]]
  BY <1>2, <1>6, Connections
<1>9. TypeOK'
  <2>1. idx' \in Nat \ {0}
    BY <1>1, <1>2
  <2> QED
    BY <1>1, <1>4, <2>1 DEF MInv, TypeOK, Slot
<1>10. CallInv' /\ FirstInv' /\ BuffersInv' /\ Apart' /\ Still'
  BY <1>1 DEF MInv, CallInv, FirstInv, BuffersInv, Apart, Still, Slot, HasRNN, Phase, Idle
<1>11. ~Idle' /\ ~Phase("check")' /\ ~Phase("process")' /\ ~Phase("save")'
  BY <1>1, <1>2 DEF Idle, Phase
<1>12. SavedInv'
  BY <1>11 DEF SavedInv
<1>13. FedInv'
  <2> SUFFICES ASSUME calls = 2, NEW c \in 1..idx, ~Swappable(c), NEW j \in 1..Len(Conns[c].ins)
               PROVE  mem'[handle[In(c, j)]] = buffer[c]
    BY <1>1, <1>2, <1>11 DEF FedInv, Fed
  <2>1. CASE c = idx
    BY <1>5, <2>1
  <2>2. CASE c # idx
    <3>1. c \in 1..idx - 1 /\ c \in 1..N
      BY <1>2, <1>3, <2>2
    <3>2. mem[handle[In(c, j)]] = buffer[c]
      BY <1>1, <1>2, <3>1 DEF MInv, FedInv, Fed
    <3> QED
      BY <1>7, <2>2, <3>1, <3>2
  <2> QED
    BY <2>1, <2>2
<1>14. CarriedInv'
  <2> SUFFICES ASSUME ~failed, ~wrapped, Distinct
               PROVE  CarriedInv'
    BY <1>1, SameSlots DEF CarriedInv
  <2>1. calls = 2
    BY <1>1, <1>2 DEF MInv, TypeOK
  <2>2. /\ \A t \in Ins : expected[t] = lastOk
        /\ \A c \in 1..connected : Swappable(c) \/ buffer[c] = lastOk
        /\ Carried(idx - 1) /\ \A c \in idx..connected : mem[handle[Out(c)]] = lastOk
    BY <1>1, <1>2, <2>1 DEF MInv, CarriedInv, Calling
  <2>3. ASSUME NEW c \in 1..idx, NEW j \in 1..Len(Conns[c].ins)
        PROVE  mem'[handle[In(c, j)]] = lastOk
    <3>1. CASE c = idx
      BY <1>1, <1>2, <1>5, <2>2, <2>3, <3>1
    <3>2. CASE c # idx
      <4>1. c \in 1..idx - 1 /\ c \in 1..N
        BY <1>2, <1>3, <2>3, <3>2
      <4>2. mem[handle[In(c, j)]] = lastOk
        BY <2>2, <2>3, <4>1 DEF Carried
      <4> QED
        BY <1>7, <2>3, <3>2, <4>1, <4>2
    <3> QED
      BY <3>1, <3>2
  <2>4. ASSUME NEW c \in idx + 1..connected
        PROVE  mem'[handle[Out(c)]] = lastOk
    <3>1. c \in idx..connected /\ c \in 1..N
      BY <1>2, <1>3, <2>4
    <3> QED
      BY <1>8, <2>2, <3>1
  <2>5. (idx + 1) - 1 = idx
    BY <1>2
  <2> QED
    BY <1>1, <1>11, <2>1, <2>2, <2>3, <2>4, <2>5 DEF CarriedInv, Carried, Calling
<1> QED
  BY <1>9, <1>10, <1>12, <1>13, <1>14 DEF MInv

LEMMA FeedDoneMInv == ASSUME MInv, FeedDone PROVE MInv'
<1>1. /\ ~Idle /\ Phase("feed") /\ ~is_first_run /\ idx > connected /\ Advance
      /\ UNCHANGED <<slots, connected, is_first_run, buffer, mem, handle, is_swapped, param, runs, fails,
                     setups, lastOk, calls, failed, wrapped, expected>>
  BY DEF FeedDone, Phase, wksp, tensors, counters, history
<1>2. HasRNN /\ todo' = Tail(todo) /\ idx' = 1 /\ (Phase("check")' \/ (wrapped /\ Phase("feed")'))
  BY <1>1, Rest DEF MInv, Advance
<1>3. ~Idle' /\ ~Phase("save")' /\ ~Phase("process")' /\ ~Phase("save") /\ ~(Phase("feed")' /\ Phase("check")')
  BY <1>1, <1>2 DEF Phase, Idle
<1>4. 1..connected \subseteq 1..idx - 1
  BY <1>1, Types DEF MInv
<1>5. calls # 0 /\ (calls = 1 => wrapped)
  BY <1>1, <1>2 DEF MInv, FirstInv
<1>6. TypeOK'
  BY <1>1, AdvanceType DEF MInv, TypeOK, Slot
<1>7. CallInv'
  BY <1>1, <1>3, AdvanceCall
<1>8. FirstInv'
  BY <1>1, <1>2, <1>3, <1>5 DEF FirstInv
<1>9. SavedInv'
  BY <1>3 DEF SavedInv
<1>10. FedInv'
  <2>1. calls = 2 => Fed(connected)
    BY <1>1, <1>2, <1>4 DEF MInv, FedInv, Fed
  <2> QED
    BY <1>1, <1>2, <1>3, <2>1 DEF FedInv, Fed
<1>11. CarriedInv'
  <2> SUFFICES ASSUME ~failed, ~wrapped, Distinct
               PROVE  CarriedInv'
    BY <1>1, SameSlots DEF CarriedInv
  <2>1. calls = 2 /\ Phase("check")'
    BY <1>2, <1>5 DEF MInv, TypeOK
  <2>2. (\A t \in Ins : expected[t] = lastOk) /\ Carried(connected)
    BY <1>1, <1>2, <1>4, <2>1 DEF MInv, CarriedInv, Calling, Carried
  <2> QED
    BY <1>1, <1>3, <2>1, <2>2 DEF CarriedInv, Carried, Calling
<1>12. Apart' /\ Still' /\ BuffersInv'
  BY <1>1 DEF MInv, Apart, Still, Slot, BuffersInv
<1> QED
  BY <1>6, <1>7, <1>8, <1>9, <1>10, <1>11, <1>12 DEF MInv

LEMMA SetParameterMInv == ASSUME MInv, SetParameter PROVE MInv'
<1> DEFINE t == slots[idx].tensor
           same == UNCHANGED <<slots, connected, is_first_run, buffer, mem, handle, todo, runs, fails,
                               setups, lastOk, calls, failed, wrapped, expected>>
<1>1. /\ idx \in Slot /\ idx' = idx + 1 /\ same /\ ~Phase("feed") /\ ~Phase("save") /\ ~Phase("process")
      /\ \/ param' = [param EXCEPT ![idx] = handle[t]] /\ is_swapped' = [is_swapped EXCEPT ![t] = FALSE]
         \/ UNCHANGED <<param, is_swapped>>
  BY DEF SetParameter, Phase, wksp, counters, history
<1>2. t \in Tensor /\ idx \in Nat \ {0} /\ \A s \in Slot : slots[s].tensor \in Tensor
  BY <1>1, Slots DEF MInv, TypeOK
<1>3. param \in [Slot -> Tensor] /\ handle \in [Tensor -> Tensor]
  BY DEF MInv, TypeOK
<1>4. param' \in [Slot -> Tensor] /\ is_swapped' \in [Tensor -> BOOLEAN]
  BY <1>1, <1>2, <1>3 DEF MInv, TypeOK
<1>5. \A s \in Slot : param'[s] = param[s] \/ (param'[s] = handle[slots[s].tensor])
  BY <1>1, <1>3
<1>6. Still'
  <2>1. ASSUME NEW s \in Slot PROVE AtHome(slots[s].tensor, param'[s])
    <3>1. AtHome(slots[s].tensor, param[s]) /\ AtHome(slots[s].tensor, handle[slots[s].tensor])
      BY <1>2 DEF MInv, Still
    <3> QED
      BY <1>5, <3>1
  <2> QED
    BY <1>1, <2>1 DEF MInv, Still, Slot
<1> HIDE DEF t
<1>7. TypeOK'
  <2>1. idx' \in Nat \ {0}
    BY <1>1, <1>2
  <2> QED
    BY <1>1, <1>4, <2>1 DEF MInv, TypeOK, Slot
<1>8. CallInv' /\ Apart' /\ FirstInv' /\ SavedInv' /\ BuffersInv'
  BY <1>1 DEF MInv, CallInv, Apart, FirstInv, SavedInv, BuffersInv, HasRNN, Idle, Phase
<1>9. FedInv' /\ CarriedInv'
  BY <1>1, SameSlots DEF MInv, FedInv, CarriedInv, Fed, Carried, Calling, HasRNN, Idle, Phase
<1> QED
  BY <1>6, <1>7, <1>8, <1>9 DEF MInv

LEMMA CheckDoneMInv == ASSUME MInv, CheckDone PROVE MInv'
<1>1. /\ ~Idle /\ Phase("check") /\ Advance
      /\ UNCHANGED <<slots, connected, is_first_run, buffer, mem, handle, is_swapped, param, runs, fails,
                     setups, lastOk, calls, failed, wrapped, expected>>
  BY DEF CheckDone, Phase, wksp, tensors, counters, history
<1>2. todo' = Tail(todo) /\ Phase("process")'
  BY <1>1, Rest DEF MInv, Advance
<1>3. /\ ~Idle' /\ ~Phase("feed")' /\ ~Phase("check")' /\ ~Phase("save")'
      /\ ~Phase("save") /\ ~Phase("feed")
  BY <1>1, <1>2 DEF Phase, Idle
<1>4. TypeOK'
  BY <1>1, AdvanceType DEF MInv, TypeOK, Slot
<1>5. CallInv'
  BY <1>1, <1>3, AdvanceCall
<1>6. FirstInv'
  BY <1>1, <1>3 DEF MInv, FirstInv, HasRNN
<1>7. SavedInv'
  BY <1>3 DEF SavedInv
<1>8. FedInv'
  BY <1>1, <1>3 DEF MInv, FedInv, Fed, HasRNN
<1>9. CarriedInv'
  BY <1>1, <1>3, SameSlots DEF MInv, CarriedInv, Carried, Calling, HasRNN
<1>10. Apart' /\ Still' /\ BuffersInv'
  BY <1>1 DEF MInv, Apart, Still, Slot, BuffersInv
<1> QED
  BY <1>4, <1>5, <1>6, <1>7, <1>8, <1>9, <1>10 DEF MInv

\* The run writes an output where the tensor has its memory: always if the tensor is
\* copied, and otherwise if no tensor is a parameter twice.
LEMMA WrittenHere ==
  ASSUME MInv, ParamsCurrent, Phase("process"), NEW c \in 1..N, Distinct \/ ~Swappable(c)
  PROVE  handle[Out(c)] \in Written(Out(c))
<1>1. Out(c) \in Tensor
  BY Connections
<1>2. \A s \in Slot : slots[s].tensor = Out(c) => param[s] = handle[Out(c)]
  <2>1. CASE Distinct
    BY <2>1 DEF ParamsCurrent, Distinct
  <2>2. CASE ~Swappable(c)
    BY <1>1, <2>2, CopiedHome DEF MInv
  <2> QED
    BY <2>1, <2>2
<1> QED
  BY <1>2 DEF Written

LEMMA ProcessMInv == ASSUME MInv, ParamsCurrent, Process PROVE MInv'
<1>1. /\ ~Idle /\ Phase("process") /\ Advance /\ runs' = runs + 1
      /\ mem' = [b \in Tensor |-> IF \E t \in Outs : b \in Written(t) THEN runs' ELSE mem[b]]
      /\ lastOk' = IF Len(todo) = 1 THEN runs' ELSE lastOk
      /\ UNCHANGED <<slots, connected, is_first_run, buffer, handle, is_swapped, param, fails, setups,
                     calls, failed, wrapped, expected>>
  BY DEF Process, WriteOutputs, Phase, wksp
<1>2. /\ todo' = Tail(todo) /\ idx' = 1
      /\ IF HasRNN THEN Phase("save")' /\ Len(todo) # 1 ELSE Idle' /\ Len(todo) = 1
  BY <1>1, Rest DEF MInv, Advance
<1>3. /\ ~Phase("feed")' /\ ~Phase("check")' /\ ~Phase("process")' /\ (HasRNN => ~Idle')
      /\ ~Phase("save") /\ ~Phase("feed") /\ (Phase("save")' => HasRNN)
  BY <1>1, <1>2 DEF Phase, Idle
<1>4. runs \in Nat /\ lastOk \in Nat /\ runs + 1 \in 0..MaxRuns /\ runs + 1 \in Data
  <2>1. runs < MaxRuns /\ runs \in Nat /\ lastOk \in Nat /\ MaxRuns \in Nat
    BY <1>1, <1>3, Types, Connections DEF MInv, CallInv
  <2> QED
    BY <2>1, Types DEF MInv
<1>6. lastOk' \in {lastOk, runs + 1} /\ (HasRNN => lastOk' = lastOk)
  BY <1>1, <1>2
<1>7. TypeOK'
  <2>1. mem' \in [Tensor -> Data] /\ runs' \in 0..MaxRuns
    BY <1>1, <1>4 DEF MInv, TypeOK
  <2>2. lastOk' \in 0..MaxRuns
    BY <1>4, <1>6 DEF MInv, TypeOK
  <2> QED
    BY <1>1, <2>1, <2>2, AdvanceType DEF MInv, TypeOK, Slot
<1>8. CallInv'
  BY <1>1, <1>2, AdvanceCall
<1>9. FirstInv'
  BY <1>1, <1>3 DEF MInv, FirstInv, HasRNN
<1>10. SavedInv'
  <2>1. ASSUME NEW c \in 1..N, Distinct \/ ~Swappable(c)
        PROVE  mem'[handle[Out(c)]] = runs'
    <3>1. Out(c) \in Outs /\ handle[Out(c)] \in Tensor
      BY Connections DEF MInv, TypeOK
    <3>2. handle[Out(c)] \in Written(Out(c))
      BY <1>1, <2>1, WrittenHere
    <3> QED
      BY <1>1, <3>1, <3>2
  <2> QED
    BY <1>1, <1>2, <2>1, SameSlots DEF SavedInv
<1>11. FedInv' /\ CarriedInv'
  BY <1>1, <1>3 DEF FedInv, CarriedInv, Calling, HasRNN
<1>12. BuffersInv'
  <2>1. /\ lastOk <= runs
        /\ \A c \in 1..connected : Swappable(c) \/ buffer[c] \in (lastOk..runs) \cup {NoBuffer}
    BY DEF MInv, BuffersInv
  <2>2. lastOk' <= runs'
    BY <1>1, <1>4, <1>6, <2>1
  <2>3. CASE HasRNN
    <3>1. (lastOk..runs) \subseteq lastOk'..runs'
      BY <1>1, <1>4, <1>6, <2>3
    <3> QED
      BY <1>1, <2>1, <2>2, <3>1 DEF BuffersInv
  <2>4. CASE ~HasRNN
    <3>1. 1..connected' = {}
      BY <1>1, <2>4 DEF HasRNN, NoWksp
    <3> QED
      BY <2>2, <3>1 DEF BuffersInv
  <2> QED
    BY <2>3, <2>4
<1>13. Apart' /\ Still'
  BY <1>1 DEF MInv, Apart, Still, Slot
<1> QED
  BY <1>7, <1>8, <1>9, <1>10, <1>11, <1>12, <1>13 DEF MInv

LEMMA SaveMInv == ASSUME MInv, Save PROVE MInv'
<1>1. /\ ~Idle /\ Phase("save") /\ idx <= connected /\ idx' = idx + 1
      /\ buffer' = [buffer EXCEPT ![idx] = IF Swappable(idx) THEN buffer[idx] ELSE mem[handle[Out(idx)]]]
      /\ UNCHANGED <<slots, connected, is_first_run, mem, handle, is_swapped, param, todo, runs, fails, setups,
                     lastOk, calls, failed, wrapped, expected>>
  BY DEF Save, Phase, tensors, counters, history
<1>2. idx \in Nat /\ connected \in Int /\ idx \in 1..N /\ idx + 1 \in Nat \ {0} /\ 1..connected \subseteq 1..N
  <2>1. idx \in Nat \ {0} /\ connected <= N /\ connected \in Int /\ N \in Nat
    BY Types, Connections DEF MInv, TypeOK
  <2> QED
    BY <1>1, <2>1
<1>3. runs \in Nat /\ lastOk \in Nat /\ runs \in Data
  BY Types DEF MInv, TypeOK
<1>4. \A c \in 1..N : buffer'[c] = IF c = idx /\ ~Swappable(c) THEN runs ELSE buffer[c]
  <2>1. Swappable(idx) \/ mem[handle[Out(idx)]] = runs
    BY <1>1, <1>2 DEF MInv, SavedInv
  <2>2. buffer \in [1..N -> Data \cup {NoBuffer}]
    BY DEF MInv, TypeOK
  <2> QED
    BY <1>1, <1>2, <2>1, <2>2
<1>5. buffer' \in [1..N -> Data \cup {NoBuffer}]
  <2>1. buffer \in [1..N -> Data \cup {NoBuffer}] /\ DOMAIN buffer' = 1..N /\ buffer' = [c \in 1..N |-> buffer'[c]]
    BY <1>1 DEF MInv, TypeOK
  <2> QED
    BY <1>3, <1>4, <2>1
<1> DEFINE same == UNCHANGED <<slots, connected, is_first_run, mem, handle, is_swapped, param, todo, runs,
                               fails, setups, lastOk, calls, failed, wrapped, expected>>
<1>6. same /\ idx' = idx + 1
  BY <1>1
<1>7. TypeOK'
  BY <1>2, <1>5, <1>6 DEF MInv, TypeOK, Slot
<1>8. CallInv' /\ Apart' /\ Still' /\ FirstInv'
  BY <1>6 DEF MInv, CallInv, Apart, Still, Slot, FirstInv, HasRNN, Idle, Phase
<1>9. SavedInv'
  <2>1. \A c \in 1..idx : Swappable(c) \/ buffer'[c] = runs
    <3>1. \A c \in 1..idx : c \in 1..N /\ (c = idx \/ c \in 1..idx - 1)
      BY <1>2, Connections
    <3> QED
      BY <1>1, <1>4, <3>1 DEF MInv, SavedInv
  <2>2. (idx + 1) - 1 = idx
    BY <1>2
  <2> QED
    BY <1>1, <1>6, <2>1, <2>2, SameSlots DEF MInv, SavedInv
<1>10. BuffersInv'
  <2>1. runs \in lastOk..runs
    BY <1>3 DEF MInv, BuffersInv
  <2> QED
    BY <1>2, <1>4, <1>6, <2>1 DEF MInv, BuffersInv
<1>11. ~Idle' /\ ~Phase("feed")' /\ ~Phase("check")' /\ ~Phase("process")'
  BY <1>1 DEF Idle, Phase
<1>12. FedInv' /\ CarriedInv'
  BY <1>11 DEF FedInv, CarriedInv, Calling
<1> QED
  BY <1>7, <1>8, <1>9, <1>10, <1>12 DEF MInv

LEMMA SaveDoneMInv == ASSUME MInv, SaveDone PROVE MInv'
<1>1. /\ ~Idle /\ Phase("save") /\ idx > connected /\ Advance
      /\ lastOk' = IF Len(todo) = 1 THEN runs ELSE lastOk
      /\ UNCHANGED <<slots, connected, is_first_run, buffer, mem, handle, is_swapped, param, runs, fails,
                     setups, calls, failed, wrapped, expected>>
  BY DEF SaveDone, Phase, wksp, tensors, counters
<1>2. /\ todo' = Tail(todo) /\ idx' = 1 /\ HasRNN
      /\ IF Len(todo) = 1 THEN Idle' ELSE wrapped /\ Phase("save")'
  BY <1>1, Rest DEF MInv, Advance
<1>3. ~Phase("feed")' /\ ~Phase("check")' /\ ~Phase("process")' /\ ~Phase("feed") /\ ~(Idle' /\ Phase("save")')
  BY <1>1, <1>2 DEF Phase, Idle
<1>4. runs \in Nat /\ lastOk \in Nat /\ 1..connected \subseteq 1..idx - 1
  BY <1>1, Types DEF MInv
<1>5. /\ \A c \in 1..N : Distinct \/ ~Swappable(c) => mem[handle[Out(c)]] = runs
      /\ \A c \in 1..connected : Swappable(c) \/ buffer[c] = runs
  BY <1>1, <1>4 DEF MInv, SavedInv
<1>6. TypeOK'
  <2>1. lastOk' \in 0..MaxRuns
    BY <1>1 DEF MInv, TypeOK
  <2> QED
    BY <1>1, <2>1, AdvanceType DEF MInv, TypeOK, Slot
<1>7. CallInv'
  BY <1>1, <1>2, AdvanceCall
<1>8. FirstInv'
  BY <1>1, <1>3 DEF MInv, FirstInv, HasRNN
<1>9. SavedInv'
  BY <1>1, <1>2, <1>5, SameSlots DEF SavedInv
<1>10. FedInv'
  BY <1>3 DEF FedInv
<1>11. CarriedInv'
  <2> SUFFICES ASSUME ~wrapped, Distinct
               PROVE  CarriedInv'
    BY <1>1, SameSlots DEF CarriedInv
  <2>1. lastOk' = runs
    BY <1>1, <1>2
  <2> QED
    BY <1>1, <1>3, <1>5, <2>1 DEF CarriedInv, Calling
<1>12. BuffersInv'
  BY <1>1, <1>4, <1>5 DEF MInv, BuffersInv
<1>13. Apart' /\ Still'
  BY <1>1 DEF MInv, Apart, Still, Slot
<1> QED
  BY <1>6, <1>7, <1>8, <1>9, <1>10, <1>11, <1>12, <1>13 DEF MInv

LEMMA MInvStep == MInv /\ ParamsCurrent /\ [Next]_vars => MInv'
<1> SUFFICES ASSUME MInv, ParamsCurrent, [Next]_vars
             PROVE  MInv'
  OBVIOUS
<1>1. CASE UNCHANGED vars
  <2>1. UNCHANGED <<slots, connected, is_first_run, buffer, mem, handle, is_swapped, param, todo, idx, runs,
                    fails, setups, lastOk, calls, failed, wrapped, expected>>
    BY <1>1 DEF vars, wksp, tensors, counters, history
  <2>2. TypeOK'
    BY <2>1 DEF MInv, TypeOK, Slot
  <2>3. CallInv' /\ Apart' /\ Still' /\ FirstInv' /\ SavedInv' /\ BuffersInv'
    BY <2>1, SameSlots DEF MInv, CallInv, Apart, Still, Slot, FirstInv, SavedInv, BuffersInv, HasRNN, Idle, Phase
  <2>4. FedInv' /\ CarriedInv'
    BY <2>1, SameSlots DEF MInv, FedInv, CarriedInv, Fed, Carried, Calling, HasRNN, Idle, Phase
  <2> QED
    BY <2>2, <2>3, <2>4 DEF MInv
<1>2. CASE \E k \in NoWksp..N, lost \in SUBSET (1..N) : InitWksp(k, lost)
  BY <1>2, InitWkspMInv
<1>3. CASE ResetBuffers \/ (\E c \in 1..N : ResetFails(c)) \/ WriteInputs
  BY <1>3, ResetMInv, WriteMInv DEF ResetBuffers, ResetFails
<1>4. CASE RunGraph
  BY <1>4, CallMInv DEF RunGraph, RunPhases, MInv, TypeOK
<1>5. CASE rnn_RunGraph
  <2>1. HasRNN => <<"feed">> \o RunPhases \o <<"save">>
                    = <<"feed", "feed", "check", "process", "save", "save">>
    BY WrappedPhases, Zenon DEF RunPhases
  <2>2. CASE HasRNN
    BY <1>5, <2>1, <2>2, CallMInv DEF rnn_RunGraph, RunPhases
  <2>3. CASE ~HasRNN
    BY <1>5, <2>3, CallMInv DEF rnn_RunGraph, RunPhases
  <2> QED
    BY <2>2, <2>3
<1>6. CASE FeedFails
  <2>1. Phase("feed") /\ ~Idle /\ ~is_first_run /\ idx \in 1..N
    BY <1>6, Feeding DEF FeedFails
  <2>2. mem' \in [Tensor -> Data]
    <3>1. CASE Swappable(idx) \/ Lost
      BY <1>6, <3>1 DEF FeedFails, MInv, TypeOK
    <3>2. CASE ~Swappable(idx) /\ ~Lost
      BY <1>6, <2>1, <3>2, CopyType DEF FeedFails, Lost
    <3> QED
      BY <3>1, <3>2
  <2> QED
    BY <1>6, <2>1, <2>2, FailType, FailMInv DEF FeedFails
<1>7. CASE SetParameterFails \/ SaveFails
  BY <1>7, FailType, FailMInv DEF SetParameterFails, SaveFails, Phase, tensors, MInv, TypeOK
<1>8. CASE ProcessFails
  <2>1. mem' \in [Tensor -> Data]
    BY <1>8, Types DEF ProcessFails, WriteOutputs, MInv, TypeOK
  <2> QED
    BY <1>8, <2>1, FailType, FailMInv DEF ProcessFails, Phase
<1>9. CASE FeedLost \/ SaveLost
  BY <1>9, FailMInv DEF FeedLost, SaveLost, Phase, tensors, MInv, TypeOK
<1>10. CASE FeedFirst \/ FeedSwap \/ FeedCopy \/ FeedDone
  BY <1>10, FeedFirstMInv, FeedSwapMInv, FeedCopyMInv, FeedDoneMInv
<1>11. CASE SetParameter
  BY <1>11, SetParameterMInv
<1>12. CASE CheckDone \/ Process \/ Save \/ SaveDone
  BY <1>12, CheckDoneMInv, ProcessMInv, SaveMInv, SaveDoneMInv
<1> QED
  BY <1>1, <1>2, <1>3, <1>4, <1>5, <1>6, <1>7, <1>8, <1>9, <1>10, <1>11, <1>12 DEF Next, Step

THEOREM MemoryInvariance == Spec => []MInv
BY InitMInv, MInvStep, ParamsCurrentThm, PTL DEF Spec

\* Every variable has its type: whichever buffers could not be made (internal_buffer_init,
\* vsi_nn_rnn_ResetBuffers), what a tensor or a computation gets is content of a tensor
\* or a buffer, never that of a buffer that is missing.
THEOREM TypeOKThm == Spec => []TypeOK
<1>1. MInv => TypeOK
  BY DEF MInv
<1> QED
  BY <1>1, MemoryInvariance, PTL

LEMMA Installed ==
  ASSUME MInv, NEW c \in 1..connected
  PROVE  HasRNN /\ c \in 1..N
<1>1. connected # -1
  <2>1. connected = -1 => 1..connected = {}
    OBVIOUS
  <2> QED
    BY <2>1
<1> QED
  BY <1>1, Types DEF MInv, HasRNN, NoWksp

\* In a row of successful calls of vsi_nn_RunGraph, each computes on what the one before
\* has computed, in every input of every connection, whether it is swapped or copied, in
\* a graph in which no tensor is a parameter of precompiled nodes twice.
THEOREM StateCarriedThm == Spec => []StateCarried
<1>1. MInv /\ ParamsCurrent => StateCarried
  <2> SUFFICES ASSUME MInv, ParamsCurrent, Phase("process"), ~failed, ~wrapped, Distinct,
                      NEW c \in 1..connected, NEW j \in 1..Len(Conns[c].ins),
                      NEW b \in Read(In(c, j))
               PROVE  mem[b] = expected[In(c, j)]
    BY DEF StateCarried
  <2>1. b = handle[In(c, j)] /\ ~Idle
    BY DEF Read, ParamsCurrent, Distinct, Phase
  <2>2. HasRNN /\ c \in 1..N /\ In(c, j) \in Ins
    BY Installed, Connections
  <2>3. calls \in {1, 2}
    BY <2>1 DEF MInv, FirstInv, TypeOK
  <2> QED
    BY <2>1, <2>2, <2>3 DEF MInv, CarriedInv, Carried, Calling
<1> QED
  BY <1>1, MemoryInvariance, ParamsCurrentThm, PTL

\* Through failed calls, and through vsi_nn_rnn_RunGraph, a call after the first computes
\* on the state in the buffer of a copied connection, which is no older than that of the
\* last call that succeeded, whatever precompiled nodes do with the swapped ones.
THEOREM CopiedStateKeptThm == Spec => []CopiedStateKept
<1>1. MInv => CopiedStateKept
  <2> SUFFICES ASSUME MInv, Phase("process"), calls = 2,
                      NEW c \in 1..connected, ~Swappable(c)
               PROVE  \E run \in lastOk..runs : Reads(c) = {run}
    BY DEF CopiedStateKept
  <2>1. HasRNN /\ c \in 1..N
    BY Installed
  <2>2. buffer[c] \in (lastOk..runs) \cup {NoBuffer}
    BY DEF MInv, BuffersInv
  <2>3. ASSUME NEW j \in 1..Len(Conns[c].ins)
        PROVE  Read(In(c, j)) = {handle[In(c, j)]} /\ mem[handle[In(c, j)]] = buffer[c]
    <3>1. In(c, j) \in Tensor
      BY <2>1, Connections
    <3>2. \A s \in Slot : slots[s].tensor = In(c, j) => param[s] = handle[In(c, j)]
      BY <2>1, <3>1, CopiedHome DEF MInv
    <3>3. Read(In(c, j)) = {handle[In(c, j)]}
      BY <3>2 DEF Read
    <3>4. mem[handle[In(c, j)]] = buffer[c]
      BY <2>1 DEF MInv, FedInv, Fed
    <3> QED
      BY <3>3, <3>4
  <2>4. 1 \in 1..Len(Conns[c].ins)
    BY <2>1, Connections
  <2>5. buffer[c] # NoBuffer
    <3>1. handle[In(c, 1)] \in Tensor
      BY <2>1, <2>4, Connections DEF MInv, TypeOK
    <3>2. mem[handle[In(c, 1)]] \in Data
      BY <3>1 DEF MInv, TypeOK
    <3> QED
      BY <2>3, <2>4, <3>2, Types DEF MInv
  <2>6. Reads(c) = {buffer[c]}
    <3>1. \A j \in 1..Len(Conns[c].ins) : {mem[b] : b \in Read(In(c, j))} = {buffer[c]}
      BY <2>3
    <3> QED
      BY <2>4, <3>1 DEF Reads
  <2> QED
    BY <2>2, <2>5, <2>6
<1> QED
  BY <1>1, MemoryInvariance, PTL

-----------------------------------------------------------------------------
(* Containers: places in the tree                                          *)

Place == Seq(Side)

\* q is p or below it.
Below(p, q) == Len(p) <= Len(q) /\ \A i \in 1..Len(p) : q[i] = p[i]

\* q is on one side below p.
On(p, side, q) == Len(p) < Len(q) /\ (\A i \in 1..Len(p) : q[i] = p[i]) /\ q[Len(p) + 1] = side

LEMMA Prefix ==
  ASSUME NEW p \in Place, NEW q \in Place
  PROVE  IsPrefix(p, q) <=> Below(p, q)
<1>1. Len(p) \in Nat /\ Len(q) \in Nat
  BY LenProperties DEF Place
<1>2. SubSeq(p, 1, Len(p)) = p
  BY SubSeqFull DEF Place
<1>3. ASSUME Len(p) <= Len(q)
      PROVE  /\ SubSeq(q, 1, Len(p)) \in Place /\ Len(SubSeq(q, 1, Len(p))) = Len(p)
             /\ \A i \in 1..Len(p) : SubSeq(q, 1, Len(p))[i] = q[i]
  <2>1. \A i \in 1..Len(p) : q[i] \in Side
    BY <1>1, <1>3, ElementOfSeq DEF Place
  <2> QED
    BY <1>1, <2>1, SubSeqProperties DEF Place
<1>4. ASSUME IsPrefix(p, q) PROVE Below(p, q)
  BY <1>1, <1>2, <1>3, <1>4 DEF IsPrefix, Below
<1>5. ASSUME Below(p, q) PROVE IsPrefix(p, q)
  <2>1. SubSeq(q, 1, Len(p)) = p
    BY <1>1, <1>3, <1>5, SeqEqual DEF Below, Place
  <2> QED
    BY <1>2, <1>5, <2>1 DEF IsPrefix, Below
<1> QED
  BY <1>4, <1>5

LEMMA PrefixAppend ==
  ASSUME NEW p \in Place, NEW side \in Side, NEW q \in Place
  PROVE  /\ Append(p, side) \in Place
         /\ IsPrefix(Append(p, side), q) <=> On(p, side, q)
         /\ Below(Append(p, side), q) <=> On(p, side, q)
<1>1. /\ Append(p, side) \in Place /\ Len(Append(p, side)) = Len(p) + 1
      /\ \A i \in 1..Len(p) : Append(p, side)[i] = p[i]
      /\ Append(p, side)[Len(p) + 1] = side
  BY AppendProperties DEF Place
<1>2. Len(p) \in Nat /\ Len(q) \in Nat
  BY LenProperties DEF Place
<1>3. Below(Append(p, side), q) <=> On(p, side, q)
  BY <1>1, <1>2 DEF Below, On
<1> QED
  BY <1>1, <1>3, Prefix

\* The first n turns of a place.
LEMMA Upper ==
  ASSUME NEW p \in Place, NEW n \in 0..Len(p)
  PROVE  /\ SubSeq(p, 1, n) \in Place /\ Len(SubSeq(p, 1, n)) = n
         /\ \A i \in 1..n : SubSeq(p, 1, n)[i] = p[i]
<1>1. Len(p) \in Nat
  BY LenProperties DEF Place
<1>2. \A i \in 1..n : p[i] \in Side
  BY <1>1, ElementOfSeq DEF Place
<1> QED
  BY <1>1, <1>2, SubSeqProperties DEF Place

LEMMA Same ==
  ASSUME NEW p \in Place, NEW q \in Place, Below(p, q), Len(q) = Len(p)
  PROVE  p = q
BY SeqEqual DEF Below, Place

\* The upper part of a place that ends where another place does is that place.
LEMMA UpperIs ==
  ASSUME NEW p \in Place, NEW q \in Place, Below(p, q)
  PROVE  SubSeq(q, 1, Len(p)) = p
<1>1. Len(p) \in 0..Len(q)
  BY LenProperties DEF Below, Place
<1>2. /\ SubSeq(q, 1, Len(p)) \in Place /\ Len(SubSeq(q, 1, Len(p))) = Len(p)
      /\ \A i \in 1..Len(p) : SubSeq(q, 1, Len(p))[i] = q[i]
  BY <1>1, Upper
<1>3. Below(p, SubSeq(q, 1, Len(p)))
  BY <1>2 DEF Below
<1> QED
  BY <1>2, <1>3, Same

LEMMA OnDown ==
  ASSUME NEW p \in Place, NEW q \in Place, NEW r \in Place, NEW side, NEW turn, On(p, side, q), On(q, turn, r)
  PROVE  On(p, side, r)
<1>1. Len(p) \in Nat /\ Len(q) \in Nat /\ Len(r) \in Nat
  BY LenProperties DEF Place
<1>2. Len(p) < Len(q) /\ Len(q) < Len(r) /\ Len(p) + 1 \in 1..Len(q)
  BY <1>1 DEF On
<1>3. \A i \in 1..Len(q) : r[i] = q[i]
  BY DEF On
<1> QED
  BY <1>1, <1>2, <1>3 DEF On

LEMMA Turned ==
  ASSUME NEW p \in Place, NEW q \in Place, Below(p, q), p # q
  PROVE  On(p, q[Len(p) + 1], q) /\ q[Len(p) + 1] \in Side
<1>1. Len(p) \in Nat /\ Len(q) \in Nat /\ Len(p) # Len(q)
  BY Same, LenProperties DEF Place
<1>2. Len(p) + 1 \in 1..Len(q)
  BY <1>1 DEF Below
<1> QED
  BY <1>1, <1>2, ElementOfSeq DEF Below, On, Place

\* A set of natural numbers that is not empty has a smallest element.
LEMMA Smallest ==
  ASSUME NEW S, S \subseteq Nat, S # {}
  PROVE  \E m \in S : \A k \in S : ~(k < m)
<1> DEFINE Less == {p \in Nat \X Nat : p[1] < p[2]}
<1>1. IsWellFoundedOn(Less, Nat)
  BY NatLessThanWellFounded, Zenon DEF OpToRel
<1>2. \E x \in S : \A y \in S : ~(<<y, x>> \in Less)
  <2> HIDE DEF Less
  <2> QED BY <1>1, WFMin
<1>3. \A x, y \in S : y < x => <<y, x>> \in Less
  OBVIOUS
<1> QED
  BY <1>2, <1>3

\* Of two places neither of which is below the other, one is to the left and one
\* is to the right of the place where their ways part.
LEMMA Parting ==
  ASSUME NEW p \in Place, NEW q \in Place, ~Below(p, q), ~Below(q, p)
  PROVE  \E j \in Nat : /\ j < Len(p) /\ j < Len(q)
                        /\ \A i \in 1..j : p[i] = q[i]
                        /\ p[j + 1] # q[j + 1]
                        /\ p[j + 1] \in Side /\ q[j + 1] \in Side
<1> DEFINE S == {i \in Nat : i > 0 /\ i <= Len(p) /\ i <= Len(q) /\ p[i] # q[i]}
<1>1. Len(p) \in Nat /\ Len(q) \in Nat
  BY LenProperties DEF Place
<1>2. S # {}
  BY <1>1 DEF Below
<1>3. PICK m \in S : \A k \in S : ~(k < m)
  <2> HIDE DEF S
  <2>1. S \subseteq Nat
    BY DEF S
  <2> QED
    BY <1>2, <2>1, Smallest
<1>4. m - 1 \in Nat /\ m - 1 < Len(p) /\ m - 1 < Len(q) /\ (m - 1) + 1 = m /\ p[m] # q[m]
  BY <1>1, <1>3
<1>5. \A i \in 1..m - 1 : p[i] = q[i]
  BY <1>1, <1>3, <1>4
<1>6. p[m] \in Side /\ q[m] \in Side
  BY <1>1, <1>3, ElementOfSeq DEF Place
<1> QED
  BY <1>4, <1>5, <1>6

-----------------------------------------------------------------------------
(* Containers: the search tree                                             *)

Node == [at : Place, key : Key \cup Item, data : Value]

\* The nodes of a tree have different places, and none hangs in the air.
Hanging(t) ==
  /\ t \subseteq Node
  /\ \A n \in t : \A j \in 0..Len(n.at) : IsNode(t, SubSeq(n.at, 1, j))
  /\ \A n, m \in t : n.at = m.at => n = m

Keyed(t) == \A n \in t : KeyOf(n) \in Int

\* The order of a search tree, for the nodes from root on.
Ordered(t, root) ==
  \A n, m \in t : Below(root, n.at) =>
    /\ On(n.at, "left", m.at) => KeyOf(m) < KeyOf(n)
    /\ On(n.at, "right", m.at) => KeyOf(m) > KeyOf(n)

\* Two nodes have different keys.
LEMMA Different ==
  ASSUME NEW t, NEW root \in Place, Hanging(t), Keyed(t), Ordered(t, root),
         NEW n \in t, NEW m \in t, Below(root, n.at), Below(root, m.at), n # m
  PROVE  KeyOf(n) # KeyOf(m)
<1>1. n.at \in Place /\ m.at \in Place /\ n.at # m.at
  BY DEF Hanging, Node
<1>2. KeyOf(n) \in Int /\ KeyOf(m) \in Int
  BY DEF Keyed
<1>3. CASE Below(n.at, m.at)
  <2>1. On(n.at, m.at[Len(n.at) + 1], m.at) /\ m.at[Len(n.at) + 1] \in {"left", "right"}
    BY <1>1, <1>3, Turned DEF Side
  <2> QED
    BY <1>2, <2>1 DEF Ordered
<1>4. CASE Below(m.at, n.at)
  <2>1. On(m.at, n.at[Len(m.at) + 1], n.at) /\ n.at[Len(m.at) + 1] \in {"left", "right"}
    BY <1>1, <1>4, Turned DEF Side
  <2> QED
    BY <1>2, <2>1 DEF Ordered
<1>5. CASE ~Below(n.at, m.at) /\ ~Below(m.at, n.at)
  <2>1. PICK j \in Nat : /\ j < Len(n.at) /\ j < Len(m.at)
                         /\ \A i \in 1..j : n.at[i] = m.at[i]
                         /\ n.at[j + 1] # m.at[j + 1]
                         /\ n.at[j + 1] \in Side /\ m.at[j + 1] \in Side
    BY <1>1, <1>5, Parting
  <2>2. Len(n.at) \in Nat /\ Len(m.at) \in Nat /\ Len(root) \in Nat
    BY <1>1, LenProperties DEF Place
  <2>3. Len(root) <= j
    <3> SUFFICES ASSUME j < Len(root) PROVE FALSE
      BY <2>2
    <3>1. j + 1 \in 1..Len(root)
      BY <2>2
    <3> QED
      BY <2>1, <3>1 DEF Below
  <2>4. PICK r \in t : r.at = SubSeq(n.at, 1, j)
    <3>1. j \in 0..Len(n.at)
      BY <2>1, <2>2
    <3> QED
      BY <3>1 DEF Hanging, IsNode
  <2>5. Len(r.at) = j /\ \A i \in 1..j : r.at[i] = n.at[i]
    BY <1>1, <2>1, <2>2, <2>4, Upper
  <2>6. On(r.at, n.at[j + 1], n.at) /\ On(r.at, m.at[j + 1], m.at)
    BY <2>1, <2>5 DEF On
  <2>7. Below(root, r.at)
    BY <2>2, <2>3, <2>5 DEF Below
  <2>8. KeyOf(r) \in Int
    BY DEF Keyed
  <2>9. \/ On(r.at, "left", n.at) /\ On(r.at, "right", m.at)
        \/ On(r.at, "right", n.at) /\ On(r.at, "left", m.at)
    BY <2>1, <2>6 DEF Side
  <2> QED
    BY <1>2, <2>7, <2>8, <2>9 DEF Ordered
<1> QED
  BY <1>3, <1>4, <1>5

LEMMA FindLoc ==
  ASSUME NEW t, NEW root \in Place, NEW k, NEW p \in _find_loc(t, root, k), Hanging(t)
  PROVE  /\ p \in Place /\ Len(p) \in Nat /\ Len(root) \in Nat
         /\ Below(root, p)
         /\ \A j \in Len(root)..Len(p) - 1 :
              \E n \in t : n.at = SubSeq(p, 1, j) /\ KeyOf(n) # k /\ p[j + 1] = Turn(k, n)
         /\ \A n \in t : n.at = p => KeyOf(n) = k
<1>1. p \in Place
  <2>1. \/ \E n \in t : p = n.at
        \/ p = <<>>
        \/ \E n \in t, side \in Side : p = Append(n.at, side)
    BY DEF _find_loc
  <2>2. <<>> \in Place
    BY EmptySeq DEF Place
  <2>3. \A n \in t : n.at \in Place
    BY DEF Hanging, Node
  <2>4. \A n \in t, side \in Side : Append(n.at, side) \in Place
    BY <2>3, AppendProperties DEF Place
  <2> QED
    BY <2>1, <2>2, <2>3, <2>4
<1>2. IsPrefix(root, p)
  BY DEF _find_loc
<1>3. Below(root, p)
  BY <1>1, <1>2, Prefix
<1>4. Len(p) \in Nat /\ Len(root) \in Nat
  BY <1>1, LenProperties DEF Place
<1>5. /\ \A j \in Len(root)..Len(p) - 1 :
           \E n \in t : n.at = SubSeq(p, 1, j) /\ KeyOf(n) # k /\ p[j + 1] = Turn(k, n)
      /\ \A n \in t : n.at = p => KeyOf(n) = k
  BY DEF _find_loc
<1> QED
  BY <1>1, <1>3, <1>4, <1>5

\* A search finds the node with the key, if there is one from root on.
LEMMA Finds ==
  ASSUME NEW t, NEW root \in Place, NEW k \in Int, NEW p \in _find_loc(t, root, k),
         Hanging(t), Keyed(t), Ordered(t, root), NEW n \in t, Below(root, n.at), KeyOf(n) = k
  PROVE  n.at = p
<1>1. n.at \in Place
  BY DEF Hanging, Node
<1>2. /\ p \in Place /\ Len(p) \in Nat /\ Len(root) \in Nat
      /\ Below(root, p)
      /\ \A j \in Len(root)..Len(p) - 1 :
           \E m \in t : m.at = SubSeq(p, 1, j) /\ KeyOf(m) # k /\ p[j + 1] = Turn(k, m)
      /\ \A m \in t : m.at = p => KeyOf(m) = k
  BY FindLoc
<1>3. Len(n.at) \in Nat
  BY <1>1, LenProperties DEF Place
<1> SUFFICES ASSUME n.at # p PROVE FALSE
  OBVIOUS
<1>4. CASE Below(p, n.at)
  <2>1. On(p, n.at[Len(p) + 1], n.at) /\ n.at[Len(p) + 1] \in {"left", "right"}
    BY <1>1, <1>2, <1>4, Turned DEF Side
  <2>2. SubSeq(n.at, 1, Len(p)) = p /\ Len(p) \in 0..Len(n.at)
    BY <1>1, <1>2, <1>3, <1>4, UpperIs DEF Below
  <2>3. PICK m \in t : m.at = p
    BY <2>2 DEF Hanging, IsNode
  <2>4. KeyOf(m) = k
    BY <1>2, <2>3
  <2> QED
    BY <1>2, <2>1, <2>3, <2>4 DEF Ordered
<1>5. CASE Below(n.at, p)
  <2>1. SubSeq(p, 1, Len(n.at)) = n.at
    BY <1>1, <1>2, <1>5, UpperIs
  <2>2. Len(n.at) \in Len(root)..Len(p) - 1
    BY <1>1, <1>2, <1>3, <1>5, Same DEF Below
  <2>3. PICK m \in t : m.at = n.at /\ KeyOf(m) # k
    BY <1>2, <2>1, <2>2
  <2> QED
    BY <2>3 DEF Hanging
<1>6. CASE ~Below(n.at, p) /\ ~Below(p, n.at)
  <2>1. PICK j \in Nat : /\ j < Len(n.at) /\ j < Len(p)
                         /\ \A i \in 1..j : n.at[i] = p[i]
                         /\ n.at[j + 1] # p[j + 1]
                         /\ n.at[j + 1] \in Side /\ p[j + 1] \in Side
    BY <1>1, <1>2, <1>6, Parting
  <2>2. Len(root) <= j
    <3> SUFFICES ASSUME j < Len(root) PROVE FALSE
      BY <1>2
    <3>1. j + 1 \in 1..Len(root)
      BY <1>2
    <3> QED
      BY <1>2, <2>1, <3>1 DEF Below
  <2>3. PICK m \in t : m.at = SubSeq(p, 1, j) /\ KeyOf(m) # k /\ p[j + 1] = Turn(k, m)
    BY <1>2, <2>1, <2>2
  <2>4. Len(m.at) = j /\ \A i \in 1..j : m.at[i] = p[i]
    BY <1>2, <2>1, <2>3, Upper
  <2>5. On(m.at, n.at[j + 1], n.at)
    BY <2>1, <2>4 DEF On
  <2>6. Below(root, m.at)
    BY <1>2, <2>2, <2>4 DEF Below
  <2>7. KeyOf(m) \in Int
    BY DEF Keyed
  <2>8. CASE n.at[j + 1] = "left"
    <3>1. k < KeyOf(m)
      BY <2>5, <2>6, <2>8 DEF Ordered
    <3> QED
      BY <2>1, <2>3, <2>8, <3>1 DEF Turn
  <2>9. CASE n.at[j + 1] = "right"
    <3>1. k > KeyOf(m)
      BY <2>5, <2>6, <2>9 DEF Ordered
    <3>2. ~(k < KeyOf(m))
      BY <2>7, <3>1
    <3> QED
      BY <2>1, <2>3, <2>9, <3>2 DEF Turn
  <2> QED
    BY <2>1, <2>8, <2>9 DEF Side
<1> QED
  BY <1>4, <1>5, <1>6

-----------------------------------------------------------------------------
(* Containers: a node is freed, and what is below it moves up              *)

Moved(p, q) == IF Below(p, q) THEN RemoveAt(q, Len(p) + 1) ELSE q

LEMMA Removed ==
  ASSUME NEW q \in Place, NEW l \in Nat, l < Len(q)
  PROVE  /\ RemoveAt(q, l + 1) \in Place /\ Len(RemoveAt(q, l + 1)) = Len(q) - 1
         /\ \A i \in 1..Len(q) - 1 : RemoveAt(q, l + 1)[i] = IF i <= l THEN q[i] ELSE q[i + 1]
<1> DEFINE a == SubSeq(q, 1, l)
           b == SubSeq(q, l + 2, Len(q))
<1>1. Len(q) \in Nat /\ \A i \in 1..Len(q) : q[i] \in Side
  BY LenProperties, ElementOfSeq DEF Place
<1>2. a \in Place /\ Len(a) = l /\ \A i \in 1..l : a[i] = q[i]
  BY <1>1, Upper
<1>3. b \in Place /\ Len(b) = Len(q) - l - 1 /\ \A i \in 1..Len(q) - l - 1 : b[i] = q[l + 1 + i]
  <2>1. \A i \in l + 2..Len(q) : q[i] \in Side
    BY <1>1
  <2>2. /\ b \in Seq(Side)
        /\ Len(b) = IF l + 2 <= Len(q) THEN Len(q) - (l + 2) + 1 ELSE 0
        /\ \A i \in 1..Len(q) - (l + 2) + 1 : b[i] = q[(l + 2) + i - 1]
    <3>1. l + 2 \in Int /\ Len(q) \in Int
      BY <1>1
    <3> QED
      BY <2>1, <3>1, SubSeqProperties
  <2> HIDE DEF b
  <2>3. \A i \in 1..Len(q) - l - 1 : (l + 2) + i - 1 = l + 1 + i /\ i \in 1..Len(q) - (l + 2) + 1
    BY <1>1
  <2> QED
    BY <1>1, <2>2, <2>3 DEF Place
<1>4. RemoveAt(q, l + 1) = a \o b
  <2>1. (l + 1) - 1 = l /\ (l + 1) + 1 = l + 2
    OBVIOUS
  <2> QED
    BY <2>1 DEF RemoveAt
<1> HIDE DEF a, b
<1>5. /\ a \o b \in Place /\ Len(a \o b) = Len(a) + Len(b)
      /\ \A i \in 1..Len(a) + Len(b) : (a \o b)[i] = IF i <= Len(a) THEN a[i] ELSE b[i - Len(a)]
  BY <1>2, <1>3, ConcatProperties DEF Place
<1>6. ASSUME NEW i \in 1..Len(q) - 1 PROVE (a \o b)[i] = IF i <= l THEN q[i] ELSE q[i + 1]
  <2>1. i \in 1..Len(a) + Len(b)
    BY <1>1, <1>2, <1>3
  <2>2. CASE i <= l
    BY <1>2, <1>5, <2>1, <2>2
  <2>3. CASE ~(i <= l)
    <3>1. i - l \in 1..Len(q) - l - 1 /\ l + 1 + (i - l) = i + 1
      BY <1>1, <2>3
    <3> QED
      BY <1>2, <1>3, <1>5, <2>1, <2>3, <3>1
  <2> QED
    BY <2>2, <2>3
<1>7. Len(a \o b) = Len(q) - 1
  BY <1>1, <1>2, <1>3, <1>5
<1> QED
  BY <1>4, <1>5, <1>6, <1>7, Zenon

\* What Moved does to a place that is not p, when the nodes below p are on one side.
LEMMA MovedPlace ==
  ASSUME NEW p \in Place, NEW q \in Place, q # p
  PROVE  /\ Len(p) \in Nat /\ Len(q) \in Nat /\ Moved(p, q) \in Place /\ Len(Moved(p, q)) \in Nat
         /\ Below(p, q) => /\ Len(q) > Len(p) /\ Len(Moved(p, q)) = Len(q) - 1
                           /\ \A i \in 1..Len(p) : Moved(p, q)[i] = p[i] /\ q[i] = p[i]
                           /\ \A i \in 1..Len(q) - 1 : Moved(p, q)[i] = IF i <= Len(p) THEN q[i] ELSE q[i + 1]
         /\ ~Below(p, q) => Moved(p, q) = q
<1>1. Len(p) \in Nat /\ Len(q) \in Nat
  BY LenProperties DEF Place
<1>2. CASE Below(p, q)
  <2>1. Len(q) > Len(p)
    BY <1>1, <1>2, Same DEF Below
  <2>2. /\ Moved(p, q) \in Place /\ Len(Moved(p, q)) = Len(q) - 1
        /\ \A i \in 1..Len(q) - 1 : Moved(p, q)[i] = IF i <= Len(p) THEN q[i] ELSE q[i + 1]
    BY <1>1, <1>2, <2>1, Removed DEF Moved
  <2> QED
    BY <1>1, <1>2, <2>1, <2>2 DEF Below
<1>3. CASE ~Below(p, q)
  BY <1>1, <1>3 DEF Moved
<1> QED
  BY <1>2, <1>3

\* Places that are below each other after the move were so before.
LEMMA MovedOn ==
  ASSUME NEW p \in Place, NEW a \in Place, NEW b \in Place, a # p, b # p, NEW d,
         Below(p, a) => On(p, d, a), Below(p, b) => On(p, d, b),
         NEW side, On(Moved(p, a), side, Moved(p, b))
  PROVE  On(a, side, b)
<1>1. Len(p) \in Nat /\ Len(a) \in Nat /\ Len(b) \in Nat
  BY MovedPlace
<1>2. CASE Below(p, a) /\ Below(p, b)
  <2> DEFINE m == Moved(p, a)
             n == Moved(p, b)
  <2>1. /\ Len(a) > Len(p) /\ Len(m) = Len(a) - 1
        /\ \A i \in 1..Len(a) - 1 : m[i] = IF i <= Len(p) THEN a[i] ELSE a[i + 1]
    BY <1>2, MovedPlace
  <2>2. /\ Len(b) > Len(p) /\ Len(n) = Len(b) - 1
        /\ \A i \in 1..Len(b) - 1 : n[i] = IF i <= Len(p) THEN b[i] ELSE b[i + 1]
    BY <1>2, MovedPlace
  <2>3. Len(m) < Len(n) /\ (\A i \in 1..Len(m) : n[i] = m[i]) /\ n[Len(m) + 1] = side
    BY DEF On
  <2> HIDE DEF m, n
  <2>4. Len(a) < Len(b)
    BY <1>1, <2>1, <2>2, <2>3
  <2>5. ASSUME NEW i \in 1..Len(a) PROVE b[i] = a[i]
    <3>1. CASE i <= Len(p)
      BY <1>1, <1>2, <2>5, <3>1 DEF Below
    <3>2. CASE i = Len(p) + 1
      BY <1>2, <3>2 DEF On
    <3>3. CASE i > Len(p) + 1
      <4>1. i - 1 \in 1..Len(a) - 1 /\ i - 1 \in 1..Len(b) - 1 /\ ~(i - 1 <= Len(p)) /\ (i - 1) + 1 = i /\ i - 1 \in 1..Len(m)
        BY <1>1, <2>1, <2>4, <2>5, <3>3
      <4>2. m[i - 1] = a[i] /\ n[i - 1] = b[i] /\ n[i - 1] = m[i - 1]
        BY <2>1, <2>2, <2>3, <4>1
      <4> QED
        BY <4>2
    <3> QED
      BY <1>1, <2>5, <3>1, <3>2, <3>3
  <2>6. b[Len(a) + 1] = side
    <3>1. Len(m) + 1 = Len(a) /\ Len(a) \in 1..Len(b) - 1 /\ ~(Len(a) <= Len(p))
      BY <1>1, <2>1, <2>4
    <3>2. n[Len(a)] = b[Len(a) + 1]
      BY <2>2, <3>1
    <3>3. n[Len(a)] = side
      BY <2>3, <3>1
    <3> QED
      BY <3>2, <3>3
  <2> QED
    BY <2>4, <2>5, <2>6 DEF On
<1>3. CASE Below(p, a) /\ ~Below(p, b)
  <2>1. /\ Len(a) > Len(p) /\ Len(Moved(p, a)) = Len(a) - 1
        /\ \A i \in 1..Len(p) : Moved(p, a)[i] = p[i]
    BY <1>3, MovedPlace
  <2>2. Moved(p, b) = b
    BY <1>3, MovedPlace
  <2>3. Below(p, b)
    BY <1>1, <2>1, <2>2 DEF On, Below
  <2> QED
    BY <1>3, <2>3
<1>4. CASE ~Below(p, a) /\ Below(p, b)
  <2>1. Moved(p, a) = a
    BY <1>4, MovedPlace
  <2>2. /\ Len(b) > Len(p) /\ Len(Moved(p, b)) = Len(b) - 1
        /\ \A i \in 1..Len(p) : Moved(p, b)[i] = p[i] /\ b[i] = p[i]
    BY <1>4, MovedPlace
  <2>3. Len(a) < Len(b) /\ (\A i \in 1..Len(a) : Moved(p, b)[i] = a[i]) /\ Moved(p, b)[Len(a) + 1] = side
    BY <1>1, <2>1, <2>2 DEF On
  <2>4. Len(a) < Len(p)
    <3> SUFFICES ASSUME Len(a) >= Len(p) PROVE FALSE
      BY <1>1
    <3>1. \A i \in 1..Len(p) : a[i] = p[i]
      BY <1>1, <2>2, <2>3
    <3> QED
      BY <1>1, <1>4, <3>1 DEF Below
  <2>5. \A i \in 1..Len(a) + 1 : Moved(p, b)[i] = b[i]
    BY <1>1, <2>2, <2>4
  <2>6. (\A i \in 1..Len(a) : b[i] = a[i]) /\ b[Len(a) + 1] = side
    BY <1>1, <2>3, <2>5
  <2> QED
    BY <2>3, <2>6 DEF On
<1>5. CASE ~Below(p, a) /\ ~Below(p, b)
  BY <1>5, MovedPlace
<1> QED
  BY <1>2, <1>3, <1>4, <1>5

\* No two places are moved to one.
LEMMA MovedApart ==
  ASSUME NEW p \in Place, NEW a \in Place, NEW b \in Place, a # p, b # p, NEW d,
         Below(p, a) => On(p, d, a), Below(p, b) => On(p, d, b), Moved(p, a) = Moved(p, b)
  PROVE  a = b
<1>1. Len(p) \in Nat /\ Len(a) \in Nat /\ Len(b) \in Nat
  BY MovedPlace
<1>2. ASSUME NEW x \in Place, NEW y \in Place, x # p, Below(p, x), ~Below(p, y)
      PROVE  Moved(p, x) # y
  <2>1. Len(p) \in Nat /\ Len(x) > Len(p) /\ Len(Moved(p, x)) = Len(x) - 1 /\ Len(x) \in Nat
        /\ \A i \in 1..Len(p) : Moved(p, x)[i] = p[i]
    BY <1>2, MovedPlace
  <2>2. Below(p, Moved(p, x))
    BY <2>1 DEF Below
  <2> QED
    BY <1>2, <2>2
<1>3. CASE Below(p, a) /\ Below(p, b)
  <2>1. /\ Len(a) > Len(p) /\ Len(Moved(p, a)) = Len(a) - 1
        /\ \A i \in 1..Len(a) - 1 : Moved(p, a)[i] = IF i <= Len(p) THEN a[i] ELSE a[i + 1]
    BY <1>3, MovedPlace
  <2>2. /\ Len(b) > Len(p) /\ Len(Moved(p, b)) = Len(b) - 1
        /\ \A i \in 1..Len(b) - 1 : Moved(p, b)[i] = IF i <= Len(p) THEN b[i] ELSE b[i + 1]
    BY <1>3, MovedPlace
  <2>3. Len(a) = Len(b)
    BY <1>1, <2>1, <2>2
  <2>4. ASSUME NEW i \in 1..Len(a) PROVE b[i] = a[i]
    <3>1. CASE i <= Len(p)
      BY <1>1, <1>3, <2>4, <3>1 DEF Below
    <3>2. CASE i = Len(p) + 1
      BY <1>3, <3>2 DEF On
    <3>3. CASE i > Len(p) + 1
      <4>1. i - 1 \in 1..Len(a) - 1 /\ ~(i - 1 <= Len(p)) /\ (i - 1) + 1 = i
        BY <1>1, <2>1, <2>4, <3>3
      <4> QED
        BY <2>1, <2>2, <2>3, <4>1
    <3> QED
      BY <1>1, <2>4, <3>1, <3>2, <3>3
  <2> QED
    BY <2>3, <2>4, SeqEqual DEF Place
<1>4. CASE Below(p, a) /\ ~Below(p, b)
  BY <1>2, <1>4, MovedPlace
<1>5. CASE ~Below(p, a) /\ Below(p, b)
  BY <1>2, <1>5, MovedPlace
<1>6. CASE ~Below(p, a) /\ ~Below(p, b)
  BY <1>6, MovedPlace
<1> QED
  BY <1>3, <1>4, <1>5, <1>6

\* The upper part of a moved place is a moved place.
LEMMA MovedUpper ==
  ASSUME NEW p \in Place, NEW a \in Place, a # p, NEW j \in 0..Len(Moved(p, a))
  PROVE  \E i \in 0..Len(a) : /\ SubSeq(a, 1, i) # p
                              /\ Moved(p, SubSeq(a, 1, i)) = SubSeq(Moved(p, a), 1, j)
<1>1. Len(p) \in Nat /\ Len(a) \in Nat /\ Moved(p, a) \in Place /\ Len(Moved(p, a)) \in Nat
  BY MovedPlace
<1>2. CASE ~Below(p, a)
  <2>1. Moved(p, a) = a
    BY <1>2, MovedPlace
  <2>2. /\ SubSeq(a, 1, j) \in Place /\ Len(SubSeq(a, 1, j)) = j /\ j \in Nat /\ j <= Len(a)
        /\ \A i \in 1..j : SubSeq(a, 1, j)[i] = a[i]
    BY <1>1, <2>1, Upper
  <2>3. ~Below(p, SubSeq(a, 1, j))
    BY <1>1, <1>2, <2>2 DEF Below
  <2>4. SubSeq(a, 1, j) # p
    BY <1>1, <2>2, <2>3 DEF Below
  <2> QED
    BY <2>1, <2>3, <2>4 DEF Moved
<1>3. CASE Below(p, a)
  <2> DEFINE m == Moved(p, a)
  <2>1. /\ Len(a) > Len(p) /\ Len(m) = Len(a) - 1
        /\ \A i \in 1..Len(p) : m[i] = p[i] /\ a[i] = p[i]
        /\ \A i \in 1..Len(a) - 1 : m[i] = IF i <= Len(p) THEN a[i] ELSE a[i + 1]
    BY <1>3, MovedPlace
  <2>2. SubSeq(m, 1, j) \in Place /\ Len(SubSeq(m, 1, j)) = j /\ \A i \in 1..j : SubSeq(m, 1, j)[i] = m[i]
    BY <1>1, Upper
  <2> HIDE DEF m
  <2>3. CASE j < Len(p)
    <3>1. j \in 0..Len(a)
      BY <1>1, <2>1, <2>3
    <3>2. SubSeq(a, 1, j) \in Place /\ Len(SubSeq(a, 1, j)) = j /\ \A i \in 1..j : SubSeq(a, 1, j)[i] = a[i]
      BY <3>1, Upper
    <3>3. ~Below(p, SubSeq(a, 1, j)) /\ SubSeq(a, 1, j) # p
      BY <1>1, <2>3, <3>2 DEF Below
    <3>4. \A i \in 1..j : SubSeq(a, 1, j)[i] = SubSeq(m, 1, j)[i]
      BY <1>1, <2>1, <2>2, <2>3, <3>2
    <3>5. SubSeq(a, 1, j) = SubSeq(m, 1, j)
      BY <2>2, <3>2, <3>4, SeqEqual DEF Place
    <3> QED
      BY <3>1, <3>3, <3>5 DEF Moved, m
  <2>4. CASE j >= Len(p)
    <3>1. j + 1 \in 0..Len(a) /\ j \in Nat
      BY <1>1, <2>1, <2>4 DEF m
    <3> DEFINE b == SubSeq(a, 1, j + 1)
    <3>2. b \in Place /\ Len(b) = j + 1 /\ \A i \in 1..j + 1 : b[i] = a[i]
      BY <3>1, Upper
    <3> HIDE DEF b
    <3>3. Below(p, b) /\ b # p
      BY <1>1, <2>1, <2>4, <3>1, <3>2 DEF Below
    <3>4. /\ Moved(p, b) \in Place /\ Len(Moved(p, b)) = j
          /\ \A i \in 1..j : Moved(p, b)[i] = IF i <= Len(p) THEN b[i] ELSE b[i + 1]
      <4>1. Len(b) - 1 = j
        BY <3>1, <3>2
      <4> QED
        BY <3>2, <3>3, <4>1, MovedPlace
    <3>5. \A i \in 1..j : Moved(p, b)[i] = SubSeq(m, 1, j)[i]
      <4> SUFFICES ASSUME NEW i \in 1..j PROVE Moved(p, b)[i] = SubSeq(m, 1, j)[i]
        OBVIOUS
      <4>1. i \in 1..Len(a) - 1 /\ i \in 1..j + 1 /\ i + 1 \in 1..j + 1
        BY <1>1, <3>1
      <4>2. SubSeq(m, 1, j)[i] = IF i <= Len(p) THEN a[i] ELSE a[i + 1]
        BY <2>1, <2>2, <4>1
      <4>3. Moved(p, b)[i] = IF i <= Len(p) THEN a[i] ELSE a[i + 1]
        BY <3>2, <3>4, <4>1
      <4> QED
        BY <4>2, <4>3
    <3>6. Moved(p, b) = SubSeq(m, 1, j)
      BY <2>2, <3>4, <3>5, SeqEqual DEF Place
    <3> QED
      BY <3>1, <3>3, <3>6 DEF b, m
  <2> QED
    BY <1>1, <2>3, <2>4 DEF m
<1> QED
  BY <1>2, <1>3

LEMMA BelowRoot ==
  ASSUME NEW p \in Place
  PROVE  Below(<<>>, p) /\ <<>> \in Place /\ Len(<<>>) = 0
<1>1. Len(<<>>) = 0 /\ <<>> \in Place /\ Len(p) \in Nat
  BY EmptySeq, LenProperties DEF Place
<1> QED
  BY <1>1 DEF Below

\* Where one child of a place is missing, all nodes below it are on the other side.
LEMMA OneSide ==
  ASSUME NEW t, NEW p \in Place, NEW e \in Side, NEW d \in Side, e # d, Hanging(t), ~IsNode(t, Append(p, e)),
         NEW n \in t, n.at # p, Below(p, n.at)
  PROVE  On(p, d, n.at)
<1>1. n.at \in Place
  BY DEF Hanging, Node
<1>2. On(p, n.at[Len(p) + 1], n.at) /\ n.at[Len(p) + 1] \in Side
  BY <1>1, Turned
<1>3. CASE n.at[Len(p) + 1] = e
  <2>1. Append(p, e) \in Place /\ Below(Append(p, e), n.at)
    BY <1>1, <1>2, <1>3, PrefixAppend
  <2>2. SubSeq(n.at, 1, Len(Append(p, e))) = Append(p, e) /\ Len(Append(p, e)) \in 0..Len(n.at)
    BY <1>1, <2>1, UpperIs, LenProperties DEF Below, Place
  <2>3. IsNode(t, SubSeq(n.at, 1, Len(Append(p, e))))
    BY <2>2 DEF Hanging
  <2> QED
    BY <2>2, <2>3
<1> QED
  BY <1>2, <1>3 DEF Side

LEMMA SplicedTree ==
  ASSUME NEW t, NEW p \in Place, NEW d, Hanging(t),
         \A n \in t : n.at # p /\ Below(p, n.at) => On(p, d, n.at)
  PROVE  /\ Hanging(Spliced(t, p))
         /\ \A n \in Spliced(t, p) :
              \E o \in t : o.at # p /\ n.at = Moved(p, o.at) /\ n.key = o.key /\ n.data = o.data
         /\ \A o \in t : o.at # p =>
              \E n \in Spliced(t, p) : n.at = Moved(p, o.at) /\ n.key = o.key /\ n.data = o.data
<1> DEFINE Up(o) == IF IsPrefix(p, o.at) THEN [o EXCEPT !.at = RemoveAt(@, Len(p) + 1)] ELSE o
           u == Spliced(t, p)
<1>1. \A o \in t : o.at \in Place /\ o \in Node
  BY DEF Hanging, Node
<1>2. \A o \in t : o.at # p =>
        Up(o) \in Node /\ Up(o).at = Moved(p, o.at) /\ Up(o).key = o.key /\ Up(o).data = o.data
  <2> SUFFICES ASSUME NEW o \in t, o.at # p
               PROVE  Up(o) \in Node /\ Up(o).at = Moved(p, o.at) /\ Up(o).key = o.key /\ Up(o).data = o.data
    OBVIOUS
  <2>1. o.at \in Place /\ o \in Node /\ (IsPrefix(p, o.at) <=> Below(p, o.at)) /\ Moved(p, o.at) \in Place
    BY <1>1, Prefix, MovedPlace
  <2>2. CASE Below(p, o.at)
    <3>1. Moved(p, o.at) = RemoveAt(o.at, Len(p) + 1)
      BY <2>2 DEF Moved
    <3>2. Up(o) = [o EXCEPT !.at = Moved(p, o.at)]
      BY <2>1, <2>2, <3>1
    <3> QED
      BY <2>1, <3>2 DEF Node
  <2>3. CASE ~Below(p, o.at)
    BY <2>1, <2>3 DEF Moved
  <2> QED
    BY <2>2, <2>3
<1>3. u = {Up(o) : o \in {m \in t : m.at # p}}
  BY DEF Spliced
<1> HIDE DEF Up, u
<1>4. \A n \in u : n \in Node /\ \E o \in t : o.at # p /\ n.at = Moved(p, o.at) /\ n.key = o.key /\ n.data = o.data /\ n = Up(o)
  BY <1>2, <1>3
<1>5. \A o \in t : o.at # p => \E n \in u : n.at = Moved(p, o.at) /\ n.key = o.key /\ n.data = o.data
  BY <1>2, <1>3
<1>6. ASSUME NEW n \in u, NEW j \in 0..Len(n.at) PROVE IsNode(u, SubSeq(n.at, 1, j))
  <2>1. PICK o \in t : o.at # p /\ n.at = Moved(p, o.at)
    BY <1>4
  <2>2. PICK i \in 0..Len(o.at) : SubSeq(o.at, 1, i) # p /\ Moved(p, SubSeq(o.at, 1, i)) = SubSeq(n.at, 1, j)
    <3> DEFINE a == o.at
    <3>1. p \in Place /\ a \in Place /\ a # p /\ j \in 0..Len(Moved(p, a)) /\ n.at = Moved(p, a)
      BY <1>1, <1>6, <2>1
    <3> HIDE DEF a
    <3>2. \E i \in 0..Len(a) : SubSeq(a, 1, i) # p /\ Moved(p, SubSeq(a, 1, i)) = SubSeq(Moved(p, a), 1, j)
      BY <3>1, MovedUpper
    <3> QED
      BY <3>1, <3>2, Zenon DEF a
  <2>3. PICK m \in t : m.at = SubSeq(o.at, 1, i)
    BY DEF Hanging, IsNode
  <2>4. \E w \in u : w.at = Moved(p, m.at)
    BY <1>5, <2>2, <2>3
  <2> QED
    BY <2>2, <2>3, <2>4 DEF IsNode
<1>7. ASSUME NEW n \in u, NEW m \in u, n.at = m.at PROVE n = m
  <2>1. PICK o \in t : o.at # p /\ n.at = Moved(p, o.at) /\ n = Up(o)
    BY <1>4
  <2>2. PICK w \in t : w.at # p /\ m.at = Moved(p, w.at) /\ m = Up(w)
    BY <1>4
  <2>3. o.at = w.at
    BY <1>1, <1>7, <2>1, <2>2, MovedApart
  <2> QED
    BY <2>1, <2>2, <2>3 DEF Hanging
<1>8. Hanging(u)
  BY <1>4, <1>6, <1>7 DEF Hanging
<1> QED
  BY <1>4, <1>5, <1>8 DEF u

\* The walk to the left from root ends at the least node.
LEMMA Least ==
  ASSUME NEW t, NEW root \in Place, Hanging(t), Keyed(t), Ordered(t, root), NEW node \in _min_node(t, root)
  PROVE  /\ node \in t /\ node.at \in Place /\ Below(root, node.at) /\ ~IsNode(t, Append(node.at, "left"))
         /\ \A q \in t : Below(root, q.at) /\ q # node => KeyOf(q) > KeyOf(node)
<1>1. /\ node \in t /\ IsPrefix(root, node.at) /\ ~IsNode(t, Append(node.at, "left"))
      /\ \A j \in Len(root) + 1..Len(node.at) : node.at[j] = "left"
  BY DEF _min_node
<1>2. node.at \in Place /\ Len(node.at) \in Nat /\ Len(root) \in Nat
  BY <1>1, LenProperties DEF Hanging, Node, Place
<1>3. Below(root, node.at)
  BY <1>1, <1>2, Prefix
<1>4. ASSUME NEW q \in t, Below(root, q.at), q # node PROVE KeyOf(q) > KeyOf(node)
  <2>1. q.at \in Place /\ Len(q.at) \in Nat /\ q.at # node.at /\ KeyOf(q) \in Int /\ KeyOf(node) \in Int
    BY <1>1, <1>4, LenProperties DEF Hanging, Node, Keyed, Place
  <2>2. CASE Below(node.at, q.at)
    <3>1. On(node.at, "right", q.at)
      BY <1>1, <1>2, <2>1, <2>2, OneSide DEF Side
    <3> QED
      BY <1>1, <1>3, <1>4, <3>1 DEF Ordered
  <2>3. CASE Below(q.at, node.at)
    <3>1. On(q.at, node.at[Len(q.at) + 1], node.at)
      BY <1>2, <2>1, <2>3, Turned
    <3>2. Len(q.at) + 1 \in Len(root) + 1..Len(node.at)
      BY <1>2, <1>4, <2>1, <3>1 DEF On, Below
    <3>3. On(q.at, "left", node.at)
      BY <1>1, <3>1, <3>2
    <3>4. KeyOf(node) < KeyOf(q)
      BY <1>1, <1>4, <3>3 DEF Ordered
    <3> QED
      BY <2>1, <3>4
  <2>4. CASE ~Below(node.at, q.at) /\ ~Below(q.at, node.at)
    <3>1. PICK j \in Nat : /\ j < Len(node.at) /\ j < Len(q.at)
                           /\ \A i \in 1..j : node.at[i] = q.at[i]
                           /\ node.at[j + 1] # q.at[j + 1]
                           /\ node.at[j + 1] \in Side /\ q.at[j + 1] \in Side
      BY <1>2, <2>1, <2>4, Parting
    <3>2. Len(root) <= j
      <4> SUFFICES ASSUME j < Len(root) PROVE FALSE
        BY <1>2
      <4>1. j + 1 \in 1..Len(root)
        BY <1>2
      <4> QED
        BY <1>3, <1>4, <3>1, <4>1 DEF Below
    <3>3. node.at[j + 1] = "left" /\ q.at[j + 1] = "right"
      BY <1>1, <1>2, <3>1, <3>2 DEF Side
    <3>4. j \in 0..Len(node.at)
      BY <1>2, <3>1
    <3>5. PICK r \in t : r.at = SubSeq(node.at, 1, j)
      BY <1>1, <3>4 DEF Hanging, IsNode
    <3>6. Len(r.at) = j /\ \A i \in 1..j : r.at[i] = node.at[i]
      BY <1>2, <3>4, <3>5, Upper
    <3>7. On(r.at, "left", node.at) /\ On(r.at, "right", q.at)
      BY <3>1, <3>3, <3>6 DEF On
    <3>8. Below(root, r.at)
      BY <1>2, <1>3, <3>2, <3>6 DEF Below
    <3>9. KeyOf(node) < KeyOf(r) /\ KeyOf(q) > KeyOf(r) /\ KeyOf(r) \in Int
      BY <1>1, <3>7, <3>8 DEF Ordered, Keyed
    <3> QED
      BY <2>1, <3>9
  <2> QED
    BY <2>2, <2>3, <2>4
<1> QED
  BY <1>1, <1>2, <1>3, <1>4

\* KeyOf looks at the key of a node alone.
LEMMA KeyAlone == ASSUME NEW n, NEW o, n.key = o.key PROVE KeyOf(n) = KeyOf(o)
BY DEF KeyOf

\* The effect of a deletion: a tree without the key, in which all else is kept.
LEMMA Deleted ==
  ASSUME NEW k \in Int, Hanging(tree), Keyed(tree), Ordered(tree, <<>>), _del_node_by_key(k)
  PROVE  /\ Hanging(tree') /\ Ordered(tree', <<>>)
         /\ \A n \in tree' : \E o \in tree : KeyOf(o) # k /\ n.key = o.key /\ n.data = o.data
         /\ \A o \in tree : KeyOf(o) # k => \E n \in tree' : n.key = o.key /\ n.data = o.data
<1>1. <<>> \in Place
  BY EmptySeq DEF Place
<1>2. \A n \in tree : n.at \in Place /\ Below(<<>>, n.at)
  BY BelowRoot DEF Hanging, Node
<1>3. \A n, m \in tree : /\ On(n.at, "left", m.at) => KeyOf(m) < KeyOf(n)
                         /\ On(n.at, "right", m.at) => KeyOf(m) > KeyOf(n)
  BY <1>2 DEF Ordered
<1>4. \A n, m \in tree : n # m => KeyOf(n) # KeyOf(m)
  BY <1>1, <1>2, Different
<1>5. PICK root \in _find_loc(tree, <<>>, k) :
        \/ ~IsNode(tree, root) /\ UNCHANGED tree
        \/ /\ \E side \in Side : ~IsNode(tree, Append(root, side))
           /\ IsNode(tree, root)
           /\ tree' = Spliced(tree, root)
        \/ /\ \A side \in Side : IsNode(tree, Append(root, side))
           /\ \E node \in _min_node(tree, Append(root, "right")) :
                LET copied == {IF n.at = root THEN [node EXCEPT !.at = root] ELSE n : n \in tree} IN
                \E p \in _find_loc(copied, Append(root, "right"), KeyOf(node)) : tree' = Spliced(copied, p)
  BY Zenon DEF _del_node_by_key
<1>6. root \in Place /\ (\A n \in tree : n.at = root => KeyOf(n) = k)
  BY <1>1, FindLoc
<1>7. \A n \in tree : KeyOf(n) = k => n.at = root
  BY <1>1, <1>2, Finds
<1>8. \A n \in tree : n.at = root <=> KeyOf(n) = k
  BY <1>6, <1>7
<1>9. CASE ~IsNode(tree, root) /\ UNCHANGED tree
  BY <1>8, <1>9 DEF IsNode
<1>10. ASSUME NEW e \in Side, ~IsNode(tree, Append(root, e)), tree' = Spliced(tree, root)
       PROVE  /\ Hanging(tree') /\ Ordered(tree', <<>>)
              /\ \A n \in tree' : \E o \in tree : KeyOf(o) # k /\ n.key = o.key /\ n.data = o.data
              /\ \A o \in tree : KeyOf(o) # k => \E n \in tree' : n.key = o.key /\ n.data = o.data
  <2>1. PICK d \in Side : e # d
    BY DEF Side
  <2>2. \A n \in tree : n.at # root /\ Below(root, n.at) => On(root, d, n.at)
    BY <1>6, <1>10, <2>1, OneSide
  <2>3. /\ Hanging(tree')
        /\ \A n \in tree' :
             \E o \in tree : o.at # root /\ n.at = Moved(root, o.at) /\ n.key = o.key /\ n.data = o.data
        /\ \A o \in tree : o.at # root =>
             \E n \in tree' : n.at = Moved(root, o.at) /\ n.key = o.key /\ n.data = o.data
    BY <1>6, <1>10, <2>2, SplicedTree
  <2>4. ASSUME NEW n \in tree', NEW m \in tree', NEW side, On(n.at, side, m.at)
        PROVE  \E o, w \in tree : On(o.at, side, w.at) /\ KeyOf(n) = KeyOf(o) /\ KeyOf(m) = KeyOf(w)
    <3>1. PICK o \in tree : o.at # root /\ n.at = Moved(root, o.at) /\ n.key = o.key
      BY <2>3
    <3>2. PICK w \in tree : w.at # root /\ m.at = Moved(root, w.at) /\ m.key = w.key
      BY <2>3
    <3>3. On(o.at, side, w.at)
      BY <1>2, <1>6, <2>2, <2>4, <3>1, <3>2, MovedOn
    <3> QED
      BY <3>1, <3>2, <3>3, KeyAlone
  <2>5. Ordered(tree', <<>>)
    BY <1>3, <2>4 DEF Ordered
  <2> QED
    BY <1>8, <2>3, <2>5
<1>11. ASSUME \A side \in Side : IsNode(tree, Append(root, side)),
              NEW node \in _min_node(tree, Append(root, "right")), NEW copied,
              copied = {IF n.at = root THEN [node EXCEPT !.at = root] ELSE n : n \in tree},
              NEW p \in _find_loc(copied, Append(root, "right"), KeyOf(node)),
              tree' = Spliced(copied, p)
       PROVE  /\ Hanging(tree') /\ Ordered(tree', <<>>)
              /\ \A n \in tree' : \E o \in tree : KeyOf(o) # k /\ n.key = o.key /\ n.data = o.data
              /\ \A o \in tree : KeyOf(o) # k => \E n \in tree' : n.key = o.key /\ n.data = o.data
  <2> DEFINE right == Append(root, "right")
  <2>1. /\ right \in Place
        /\ \A q \in Place : Below(right, q) <=> On(root, "right", q)
    BY <1>6, PrefixAppend DEF Side
  <2> HIDE DEF right
  <2>2. Ordered(tree, right)
    BY <1>3 DEF Ordered
  <2>3. /\ node \in tree /\ node.at \in Place /\ Below(right, node.at) /\ ~IsNode(tree, Append(node.at, "left"))
        /\ \A q \in tree : Below(right, q.at) /\ q # node => KeyOf(q) > KeyOf(node)
    BY <1>11, <2>1, <2>2, Least DEF right
  <2>4. \A q \in Place : Below(right, q) => q # root
    BY <2>1 DEF On
  <2>5. node.at # root /\ node \in Node /\ KeyOf(node) \in Int /\ KeyOf(node) # k
    BY <1>8, <2>3, <2>4 DEF Hanging, Keyed
  <2>6. /\ \A n \in copied : /\ n \in Node
                             /\ \E o \in tree : /\ n.at = o.at
                                                /\ o.at # root => n = o
                                                /\ o.at = root => n.key = node.key /\ n.data = node.data
        /\ \A o \in tree : \E n \in copied : /\ n.at = o.at
                                             /\ o.at # root => n = o
                                             /\ o.at = root => n.key = node.key /\ n.data = node.data
    <3> DEFINE Copy(n) == IF n.at = root THEN [node EXCEPT !.at = root] ELSE n
    <3>1. \A o \in tree : /\ Copy(o) \in Node /\ Copy(o).at = o.at
                          /\ o.at # root => Copy(o) = o
                          /\ o.at = root => Copy(o).key = node.key /\ Copy(o).data = node.data
      BY <1>6, <2>5 DEF Hanging, Node
    <3>2. copied = {Copy(o) : o \in tree}
      BY <1>11
    <3> HIDE DEF Copy
    <3> QED
      BY <3>1, <3>2
  <2>7. \A x : IsNode(copied, x) <=> IsNode(tree, x)
    BY <2>6 DEF IsNode
  <2>8. Hanging(copied)
    <3>1. copied \subseteq Node
      BY <2>6
    <3>2. \A n \in copied : \A j \in 0..Len(n.at) : IsNode(copied, SubSeq(n.at, 1, j))
      BY <2>6, <2>7 DEF Hanging
    <3>3. \A n, m \in copied : n.at = m.at => n = m
      <4> SUFFICES ASSUME NEW n \in copied, NEW m \in copied, n.at = m.at PROVE n = m
        OBVIOUS
      <4>1. PICK o \in tree : /\ n.at = o.at /\ (o.at # root => n = o)
                              /\ o.at = root => n.key = node.key /\ n.data = node.data
        BY <2>6
      <4>2. PICK w \in tree : /\ m.at = w.at /\ (w.at # root => m = w)
                              /\ w.at = root => m.key = node.key /\ m.data = node.data
        BY <2>6
      <4>3. o = w
        BY <4>1, <4>2 DEF Hanging
      <4>4. n \in Node /\ m \in Node
        BY <2>6
      <4> QED
        BY <4>1, <4>2, <4>3, <4>4 DEF Node
    <3> QED
      BY <3>1, <3>2, <3>3 DEF Hanging
  <2>9. \A n \in copied : KeyOf(n) \in Int
    BY <2>5, <2>6, KeyAlone DEF Keyed
  <2>10. \A n \in copied : n.at \in Place /\ (n.at # root => n \in tree)
    BY <1>2, <2>6
  <2>11. node \in copied
    BY <2>3, <2>5, <2>6
  <2>12. Ordered(copied, right)
    <3> SUFFICES ASSUME NEW n \in copied, NEW m \in copied, Below(right, n.at), NEW side \in Side, On(n.at, side, m.at)
                 PROVE  n \in tree /\ m \in tree
      BY <1>3 DEF Ordered, Side
    <3>1. Below(right, m.at)
      <4>1. Len(right) \in Nat /\ Len(n.at) \in Nat /\ Len(m.at) \in Nat
        BY <2>1, <2>10, LenProperties DEF Place
      <4> QED
        BY <4>1 DEF Below, On
    <3> QED
      BY <2>4, <2>10, <3>1
  <2>13. p = node.at
    BY <1>11, <2>1, <2>3, <2>5, <2>8, <2>9, <2>11, <2>12, Finds DEF right, Keyed
  <2>14. \A n \in copied : n.at # p /\ Below(p, n.at) => On(p, "right", n.at)
    BY <2>3, <2>7, <2>8, <2>13, OneSide DEF Side
  <2>15. /\ Hanging(tree')
         /\ \A n \in tree' :
              \E o \in copied : o.at # p /\ n.at = Moved(p, o.at) /\ n.key = o.key /\ n.data = o.data
         /\ \A o \in copied : o.at # p =>
              \E n \in tree' : n.at = Moved(p, o.at) /\ n.key = o.key /\ n.data = o.data
    <3>1. tree' = Spliced(copied, p) /\ p \in Place
      BY <1>11, <2>3, <2>13
    <3>2. /\ Hanging(Spliced(copied, p))
          /\ \A n \in Spliced(copied, p) :
               \E o \in copied : o.at # p /\ n.at = Moved(p, o.at) /\ n.key = o.key /\ n.data = o.data
          /\ \A o \in copied : o.at # p =>
               \E n \in Spliced(copied, p) : n.at = Moved(p, o.at) /\ n.key = o.key /\ n.data = o.data
      BY <2>8, <2>14, <3>1, SplicedTree
    <3> QED
      BY <3>1, <3>2, Zenon
  <2>16. \A n, m \in copied : n.at # p /\ m.at # p =>
           /\ On(n.at, "left", m.at) => KeyOf(m) < KeyOf(n)
           /\ On(n.at, "right", m.at) => KeyOf(m) > KeyOf(n)
    <3> SUFFICES ASSUME NEW n \in copied, NEW m \in copied, n.at # p, m.at # p, NEW side \in Side, On(n.at, side, m.at)
                 PROVE  (side = "left" => KeyOf(m) < KeyOf(n)) /\ (side = "right" => KeyOf(m) > KeyOf(n))
      BY DEF Side
    <3>1. PICK o \in tree : o.at = n.at
      BY <2>6
    <3>2. PICK w \in tree : w.at = m.at
      BY <2>6
    <3>3. KeyOf(o) \in Int /\ KeyOf(w) \in Int /\ n.at # m.at
      BY DEF Keyed, On
    <3>4. CASE n.at # root /\ m.at # root
      BY <1>3, <2>10, <3>4
    <3>5. CASE n.at = root
      <4>1. m \in tree /\ KeyOf(n) = KeyOf(node)
        BY <2>6, <2>10, <3>3, <3>5, KeyAlone
      <4>2. CASE side = "left"
        <5>1. KeyOf(m) < KeyOf(o)
          BY <1>3, <3>1, <4>1, <4>2
        <5>2. KeyOf(o) < KeyOf(node)
          BY <1>3, <2>1, <2>3, <3>1, <3>5
        <5>3. KeyOf(m) \in Int
          BY <2>9
        <5> QED
          BY <2>5, <3>3, <4>1, <4>2, <5>1, <5>2, <5>3
      <4>3. CASE side = "right"
        <5>1. Below(right, m.at) /\ m # node
          BY <2>1, <2>10, <2>13, <3>5, <4>3
        <5>2. m \in tree
          BY <4>1
        <5>3. KeyOf(m) > KeyOf(node)
          BY <2>3, <5>1, <5>2
        <5> QED
          BY <4>1, <4>3, <5>3
      <4> QED
        BY <4>2, <4>3 DEF Side
    <3>6. CASE m.at = root
      <4>1. n \in tree /\ KeyOf(m) = KeyOf(node)
        BY <2>6, <2>10, <3>3, <3>6, KeyAlone
      <4>2. On(n.at, side, node.at)
        <5>1. On(n.at, side, root) /\ On(root, "right", node.at)
          BY <2>1, <2>3, <3>6
        <5> QED
          BY <1>6, <2>3, <2>10, <5>1, OnDown
      <4> QED
        BY <1>3, <2>3, <4>1, <4>2
    <3> QED
      BY <3>4, <3>5, <3>6
  <2>17. ASSUME NEW n \in tree', NEW m \in tree', NEW side, On(n.at, side, m.at)
         PROVE  \E o, w \in copied : /\ o.at # p /\ w.at # p /\ On(o.at, side, w.at)
                                     /\ KeyOf(n) = KeyOf(o) /\ KeyOf(m) = KeyOf(w)
    <3>1. PICK o \in copied : o.at # p /\ n.at = Moved(p, o.at) /\ n.key = o.key
      BY <2>15
    <3>2. PICK w \in copied : w.at # p /\ m.at = Moved(p, w.at) /\ m.key = w.key
      BY <2>15
    <3>3. On(o.at, side, w.at)
      BY <2>3, <2>10, <2>13, <2>14, <2>17, <3>1, <3>2, MovedOn
    <3> QED
      BY <3>1, <3>2, <3>3, KeyAlone
  <2>18. Ordered(tree', <<>>)
    BY <2>16, <2>17 DEF Ordered
  <2>19. ASSUME NEW n \in tree' PROVE \E o \in tree : KeyOf(o) # k /\ n.key = o.key /\ n.data = o.data
    <3>1. PICK o \in copied : o.at # p /\ n.key = o.key /\ n.data = o.data
      BY <2>15
    <3>2. CASE o.at = root
      BY <2>3, <2>5, <2>6, <3>1, <3>2
    <3>3. CASE o.at # root
      BY <1>8, <2>10, <3>1, <3>3
    <3> QED
      BY <3>2, <3>3
  <2>20. ASSUME NEW o \in tree, KeyOf(o) # k PROVE \E n \in tree' : n.key = o.key /\ n.data = o.data
    <3>1. CASE o = node
      <4>1. PICK r \in tree : r.at = root
        <5>1. 0 \in 0..Len(node.at) /\ Len(root) \in 0..Len(node.at) /\ Below(root, node.at)
          <6>1. On(root, "right", node.at) /\ Len(root) \in Nat /\ Len(node.at) \in Nat
            BY <1>6, <2>1, <2>3, LenProperties DEF Place
          <6> QED
            BY <6>1 DEF On, Below
        <5>2. SubSeq(node.at, 1, Len(root)) = root
          BY <1>6, <2>3, <5>1, UpperIs
        <5> QED
          BY <2>3, <5>1, <5>2 DEF Hanging, IsNode
      <4>2. PICK c \in copied : c.at = root /\ c.key = node.key /\ c.data = node.data
        BY <2>6, <4>1
      <4> QED
        BY <2>5, <2>13, <2>15, <3>1, <4>2
    <3>2. CASE o # node
      <4>1. o.at # root /\ o.at # p
        BY <1>8, <2>3, <2>13, <2>20, <3>2 DEF Hanging
      <4> QED
        BY <2>6, <2>15, <4>1
    <3> QED
      BY <3>1, <3>2
  <2> QED
    BY <2>15, <2>18, <2>19, <2>20
<1> QED
  BY <1>5, <1>9, <1>10, <1>11

\* The effect of NewNode.  A new node is put where its key belongs.
LEMMA Put ==
  ASSUME NEW k \in Int, NEW key \in Key \cup Item, NEW data \in Value,
         Hanging(tree), Keyed(tree), Ordered(tree, <<>>), NewNode(key, k, data)
  PROVE  /\ Hanging(tree')
         /\ (\E n \in tree : KeyOf(n) = k) =>
              /\ Ordered(tree', <<>>)
              /\ \A n \in tree' : \E o \in tree : n.key = o.key /\ n.data = IF KeyOf(o) = k THEN data ELSE o.data
              /\ \A o \in tree : \E n \in tree' : n.key = o.key /\ n.data = IF KeyOf(o) = k THEN data ELSE o.data
         /\ (\A n \in tree : KeyOf(n) # k) =>
              \E w \in Node :
                /\ tree' = tree \cup {w} /\ w.key = key /\ w.data = data
                /\ \A n \in tree : /\ On(n.at, "left", w.at) => k < KeyOf(n)
                                   /\ On(n.at, "right", w.at) => k > KeyOf(n)
                                   /\ \A side \in Side : ~On(w.at, side, n.at)
<1>1. <<>> \in Place /\ Len(<<>>) = 0
  BY EmptySeq DEF Place
<1>2. \A n \in tree : n.at \in Place /\ n \in Node /\ Below(<<>>, n.at) /\ KeyOf(n) \in Int
  BY BelowRoot DEF Hanging, Node, Keyed
<1>3. PICK loc \in _find_loc(tree, <<>>, k) :
        tree' = IF IsNode(tree, loc)
                  THEN {IF n.at = loc THEN [n EXCEPT !.data = data] ELSE n : n \in tree}
                  ELSE tree \cup {[at |-> loc, key |-> key, data |-> data]}
  BY Zenon DEF NewNode
<1>4. /\ loc \in Place /\ Len(loc) \in Nat
      /\ \A j \in 0..Len(loc) - 1 :
           \E n \in tree : n.at = SubSeq(loc, 1, j) /\ KeyOf(n) # k /\ loc[j + 1] = Turn(k, n)
      /\ \A n \in tree : n.at = loc => KeyOf(n) = k
  <2>1. /\ loc \in Place /\ Len(loc) \in Nat
        /\ \A j \in Len(<<>>)..Len(loc) - 1 :
             \E n \in tree : n.at = SubSeq(loc, 1, j) /\ KeyOf(n) # k /\ loc[j + 1] = Turn(k, n)
        /\ \A n \in tree : n.at = loc => KeyOf(n) = k
    <3> DEFINE r == <<>>
    <3>1. r \in Place /\ loc \in _find_loc(tree, r, k)
      BY <1>1
    <3> HIDE DEF r
    <3>2. /\ loc \in Place /\ Len(loc) \in Nat
          /\ \A j \in Len(r)..Len(loc) - 1 :
               \E n \in tree : n.at = SubSeq(loc, 1, j) /\ KeyOf(n) # k /\ loc[j + 1] = Turn(k, n)
          /\ \A n \in tree : n.at = loc => KeyOf(n) = k
      BY <3>1, FindLoc
    <3> QED
      BY <3>2 DEF r
  <2> QED
    BY <1>1, <2>1
<1>5. \A n \in tree : KeyOf(n) = k => n.at = loc
  BY <1>1, <1>2, Finds
<1>6. \A n \in tree : n.at = loc <=> KeyOf(n) = k
  BY <1>4, <1>5
<1>7. CASE IsNode(tree, loc)
  <2> DEFINE New(n) == IF n.at = loc THEN [n EXCEPT !.data = data] ELSE n
  <2>1. \A n \in tree : /\ New(n) \in Node /\ New(n).at = n.at /\ New(n).key = n.key
                        /\ New(n).data = IF KeyOf(n) = k THEN data ELSE n.data
    BY <1>2, <1>6 DEF Node
  <2>2. tree' = {New(n) : n \in tree}
    BY <1>3, <1>7
  <2> HIDE DEF New
  <2>3. /\ \A n \in tree' : n \in Node /\ \E o \in tree : /\ n = New(o) /\ n.at = o.at /\ n.key = o.key
                                                         /\ n.data = IF KeyOf(o) = k THEN data ELSE o.data
        /\ \A o \in tree : \E n \in tree' : /\ n.at = o.at /\ n.key = o.key
                                            /\ n.data = IF KeyOf(o) = k THEN data ELSE o.data
    BY <2>1, <2>2
  <2>4. Hanging(tree')
    <3>1. \A x : IsNode(tree, x) => IsNode(tree', x)
      BY <2>3 DEF IsNode
    <3>2. \A n \in tree' : \A j \in 0..Len(n.at) : IsNode(tree', SubSeq(n.at, 1, j))
      BY <2>3, <3>1 DEF Hanging
    <3>3. \A n, m \in tree' : n.at = m.at => n = m
      BY <2>3 DEF Hanging
    <3> QED
      BY <2>3, <3>2, <3>3 DEF Hanging
  <2>5. Ordered(tree', <<>>)
    <3> SUFFICES ASSUME NEW n \in tree', NEW m \in tree'
                 PROVE  /\ On(n.at, "left", m.at) => KeyOf(m) < KeyOf(n)
                        /\ On(n.at, "right", m.at) => KeyOf(m) > KeyOf(n)
      BY DEF Ordered
    <3>1. PICK o \in tree : n.at = o.at /\ n.key = o.key
      BY <2>3
    <3>2. PICK w \in tree : m.at = w.at /\ m.key = w.key
      BY <2>3
    <3>3. KeyOf(n) = KeyOf(o) /\ KeyOf(m) = KeyOf(w)
      BY <3>1, <3>2, KeyAlone
    <3> QED
      BY <1>2, <3>1, <3>2, <3>3 DEF Ordered
  <2>6. \E n \in tree : KeyOf(n) = k
    BY <1>6, <1>7 DEF IsNode
  <2> QED
    BY <2>3, <2>4, <2>5, <2>6
<1>8. CASE ~IsNode(tree, loc)
  <2> DEFINE w == [at |-> loc, key |-> key, data |-> data]
  <2>1. w \in Node /\ w.at = loc /\ w.key = key /\ w.data = data
    BY <1>4 DEF Node
  <2>2. tree' = tree \cup {w}
    BY <1>3, <1>8
  <2> HIDE DEF w
  <2>3. \A n \in tree : n.at # loc /\ KeyOf(n) # k
    BY <1>6, <1>8 DEF IsNode
  <2>4. ASSUME NEW n \in tree, NEW side \in Side, On(loc, side, n.at) PROVE FALSE
    <3>1. Below(loc, n.at) /\ Len(loc) \in 0..Len(n.at)
      BY <1>2, <1>4, <2>4, LenProperties DEF On, Below, Place
    <3>2. SubSeq(n.at, 1, Len(loc)) = loc
      BY <1>2, <1>4, <3>1, UpperIs
    <3> QED
      BY <1>8, <3>1, <3>2 DEF Hanging
  <2>5. ASSUME NEW n \in tree, NEW side \in Side, On(n.at, side, loc)
        PROVE  side = Turn(k, n)
    <3>1. Below(n.at, loc) /\ Len(n.at) \in 0..Len(loc) - 1 /\ loc[Len(n.at) + 1] = side
      BY <1>2, <1>4, <2>5, LenProperties DEF On, Below, Place
    <3>2. SubSeq(loc, 1, Len(n.at)) = n.at
      BY <1>2, <1>4, <3>1, UpperIs
    <3>3. PICK m \in tree : m.at = n.at /\ side = Turn(k, m)
      BY <1>4, <3>1, <3>2
    <3>4. m = n
      BY <3>3 DEF Hanging
    <3> QED
      BY <3>3, <3>4
  <2>6. \A n \in tree : /\ On(n.at, "left", loc) => k < KeyOf(n)
                        /\ On(n.at, "right", loc) => k > KeyOf(n)
    <3> SUFFICES ASSUME NEW n \in tree
                 PROVE  /\ On(n.at, "left", loc) => k < KeyOf(n)
                        /\ On(n.at, "right", loc) => k > KeyOf(n)
      OBVIOUS
    <3>1. On(n.at, "left", loc) => Turn(k, n) = "left"
      BY <2>5 DEF Side
    <3>2. On(n.at, "right", loc) => Turn(k, n) = "right"
      BY <2>5 DEF Side
    <3>3. KeyOf(n) \in Int /\ KeyOf(n) # k
      BY <1>2, <2>3
    <3> QED
      BY <3>1, <3>2, <3>3 DEF Turn
  <2>7. Hanging(tree')
    <3>1. \A x : IsNode(tree, x) => IsNode(tree', x)
      BY <2>2 DEF IsNode
    <3>2. ASSUME NEW j \in 0..Len(loc) PROVE IsNode(tree', SubSeq(loc, 1, j))
      <4>1. CASE j = Len(loc)
        <5>1. SubSeq(loc, 1, j) = loc
          BY <1>4, <4>1, SubSeqFull DEF Place
        <5> QED
          BY <2>1, <2>2, <5>1 DEF IsNode
      <4>2. CASE j # Len(loc)
        <5>1. j \in 0..Len(loc) - 1
          BY <1>4, <4>2
        <5> QED
          BY <1>4, <3>1, <5>1 DEF IsNode
      <4> QED
        BY <4>1, <4>2
    <3>3. \A n \in tree' : \A j \in 0..Len(n.at) : IsNode(tree', SubSeq(n.at, 1, j))
      BY <2>1, <2>2, <3>1, <3>2 DEF Hanging
    <3>4. \A n, m \in tree' : n.at = m.at => n = m
      BY <2>1, <2>2, <2>3 DEF Hanging
    <3>5. tree' \subseteq Node
      BY <1>2, <2>1, <2>2
    <3> QED
      BY <3>3, <3>4, <3>5 DEF Hanging
  <2> QED
    BY <2>1, <2>2, <2>3, <2>4, <2>6, <2>7
<1> QED
  BY <1>7, <1>8

-----------------------------------------------------------------------------
(* Containers: the linked list                                             *)

Live == {i \in Item : hash_key[i] # NULL}

\* The list is linked both ways, all of it lies behind its root, and it has every
\* item that was not freed.
Linked ==
  /\ \A i \in Item \ Live : next[i] = NULL /\ prev[i] = NULL
  /\ items # NULL => prev[items] = NULL
  /\ \A i \in Item : next[i] # NULL => prev[next[i]] = i
  /\ \A i \in Item : prev[i] # NULL => next[prev[i]] = i
  /\ Visited(next, items) = Live
  /\ \A i, j \in Live : hash_key[i] = hash_key[j] => i = j

ListTypes ==
  /\ items \in Item \cup {NULL}
  /\ next \in [Item -> Item \cup {NULL}] /\ prev \in [Item -> Item \cup {NULL}]
  /\ hash_key \in [Item -> Key \cup {NULL}]

LEMMA VisitedFacts ==
  ASSUME NEW link \in [Item -> Item \cup {NULL}], NEW i \in Item \cup {NULL}
  PROVE  /\ Visited(link, i) \subseteq Item
         /\ i # NULL => i \in Visited(link, i)
         /\ \A x \in Visited(link, i) : link[x] # NULL => link[x] \in Visited(link, i)
<1>1. NULL \notin Item
  BY ContainersAssumption
<1>2. i # NULL => i \in Visited(link, i)
  BY DEF Visited
<1>3. ASSUME NEW x \in Visited(link, i), link[x] # NULL PROVE link[x] \in Visited(link, i)
  <2>1. x \in Item /\ link[x] \in Item
    BY <1>3 DEF Visited
  <2>2. ASSUME NEW S \in SUBSET Item, {i} \ {NULL} \subseteq S, \A y \in S : link[y] \in S \cup {NULL}
        PROVE  link[x] \in S
    BY <1>3, <2>2 DEF Visited
  <2> QED
    BY <2>1, <2>2 DEF Visited
<1> QED
  BY <1>2, <1>3 DEF Visited

LEMMA VisitedLeast ==
  ASSUME NEW link, NEW i, NEW S, S \subseteq Item, i # NULL => i \in S,
         \A x \in S : link[x] # NULL => link[x] \in S
  PROVE  Visited(link, i) \subseteq S
<1>1. S \in SUBSET Item /\ {i} \ {NULL} \subseteq S /\ \A x \in S : link[x] \in S \cup {NULL}
  OBVIOUS
<1> QED
  BY <1>1 DEF Visited

LEMMA VisitedNone == ASSUME NEW link PROVE Visited(link, NULL) = {}
<1>1. Visited(link, NULL) \subseteq {}
  <2> DEFINE S == {}
  <2>1. S \subseteq Item /\ (NULL # NULL => NULL \in S) /\ \A x \in S : link[x] # NULL => link[x] \in S
    OBVIOUS
  <2> HIDE DEF S
  <2>2. Visited(link, NULL) \subseteq S
    BY <2>1, VisitedLeast
  <2> QED
    BY <2>2 DEF S
<1> QED
  BY <1>1

LEMMA VisitedOne ==
  ASSUME NEW link, NEW i \in Item, link[i] = NULL
  PROVE  Visited(link, i) \subseteq {i}
<1>1. {i} \subseteq Item /\ (i # NULL => i \in {i}) /\ \A x \in {i} : link[x] # NULL => link[x] \in {i}
  OBVIOUS
<1> QED
  BY <1>1, VisitedLeast

LEMMA ListFacts ==
  ASSUME ListTypes, Linked
  PROVE  /\ Live = Visited(next, items) /\ Live \subseteq Item
         /\ items # NULL => items \in Live
         /\ \A x \in Live : next[x] # NULL => next[x] \in Live
<1>1. Live = Visited(next, items) /\ Live \subseteq Item
  BY DEF Linked, Live
<1>2. next \in [Item -> Item \cup {NULL}] /\ items \in Item \cup {NULL}
  BY DEF ListTypes
<1> QED
  BY <1>1, <1>2, VisitedFacts

LEMMA Pushed ==
  ASSUME ListTypes, Linked, NEW i \in Item, NEW k \in Key, hash_key[i] = NULL,
         \A j \in Live : hash_key[j] # k, PushStart(i, k)
  PROVE  ListTypes' /\ Linked' /\ Live' = Live \cup {i}
<1>1. NULL \notin Item /\ NULL \notin Key
  BY ContainersAssumption
<1>2. /\ hash_key' = [hash_key EXCEPT ![i] = k] /\ items' = i
      /\ \/ items = NULL /\ UNCHANGED <<next, prev>>
         \/ \E self \in Visited(prev, items) :
              prev[self] = NULL /\ next' = [next EXCEPT ![i] = self] /\ prev' = [prev EXCEPT ![self] = i]
  BY DEF PushStart
<1>3. Live' = Live \cup {i} /\ i \notin Live
  BY <1>1, <1>2 DEF Live, ListTypes
<1>4. Live = Visited(next, items) /\ next[i] = NULL /\ prev[i] = NULL
  BY DEF Linked, Live
<1>5. CASE items = NULL
  <2>1. Live = {}
    <3>1. Visited(next, items) \subseteq {}
      BY <1>5, VisitedNone
    <3> QED
      BY <1>4, <3>1
  <2>2. UNCHANGED <<next, prev>>
    <3>1. Visited(prev, items) \subseteq {}
      BY <1>5, VisitedNone
    <3> QED
      BY <1>2, <3>1
  <2>3. ListTypes'
    BY <1>2, <2>2 DEF ListTypes
  <2>4. Visited(next', items') = {i}
    <3>1. next' \in [Item -> Item \cup {NULL}] /\ items' = i /\ next'[i] = NULL
      BY <1>2, <1>4, <2>2 DEF ListTypes
    <3> HIDE <1>2, <2>2
    <3>2. i \in Visited(next', items')
      BY <1>1, <3>1, VisitedFacts
    <3>3. Visited(next', items') \subseteq {i}
      BY <3>1, VisitedOne
    <3> QED
      BY <3>2, <3>3
  <2> QED
    BY <1>1, <1>2, <1>3, <1>4, <2>1, <2>2, <2>3, <2>4 DEF Linked, Live
<1>6. CASE items # NULL
  <2>1. Visited(prev, items) \subseteq {items} /\ items \in Item /\ items \in Live /\ prev[items] = NULL
    <3>1. items \in Item /\ prev[items] = NULL /\ items \in Live
      BY <1>6, ListFacts DEF ListTypes, Linked
    <3>2. Visited(prev, items) \subseteq {items}
      BY <3>1, VisitedOne
    <3> QED
      BY <3>1, <3>2
  <2>2. next' = [next EXCEPT ![i] = items] /\ prev' = [prev EXCEPT ![items] = i]
    BY <1>2, <1>6, <2>1
  <2>3. ListTypes'
    BY <1>2, <2>1, <2>2 DEF ListTypes
  <2>4. \A x \in Item : /\ next'[x] = IF x = i THEN items ELSE next[x]
                        /\ prev'[x] = IF x = items THEN i ELSE prev[x]
    BY <2>2 DEF ListTypes
  <2>5. Visited(next', items') = Live \cup {i}
    <3>1. next' \in [Item -> Item \cup {NULL}] /\ items' = i /\ i \in Item
      BY <1>2, <2>3 DEF ListTypes
    <3>2. Live \cup {i} \subseteq Item /\ \A x \in Live \cup {i} : next'[x] # NULL => next'[x] \in Live \cup {i}
      BY <2>1, <2>4, ListFacts
    <3>3. Visited(next', items') \subseteq Live \cup {i}
      BY <3>1, <3>2, VisitedLeast
    <3> DEFINE V == Visited(next', items')
    <3>4. i \in V /\ V \subseteq Item /\ \A x \in V : next'[x] # NULL => next'[x] \in V
      BY <1>1, <3>1, VisitedFacts
    <3> HIDE DEF V
    <3>5. items \in V \ {i}
      BY <1>3, <1>6, <2>1, <2>4, <3>4
    <3>6. \A x \in V \ {i} : next[x] \in (V \ {i}) \cup {NULL}
      <4> SUFFICES ASSUME NEW x \in V \ {i}, next[x] # NULL PROVE next[x] \in V \ {i}
        OBVIOUS
      <4>1. next[x] \in V
        BY <2>4, <3>4
      <4>2. next[x] # i
        BY <1>1, <1>4, <3>4 DEF Linked
      <4> QED
        BY <4>1, <4>2
    <3>7. Visited(next, items) \subseteq V \ {i}
      BY <3>4, <3>5, <3>6, VisitedLeast
    <3> QED
      BY <1>4, <3>3, <3>4, <3>7 DEF V
  <2>6. /\ \A x \in Item : next'[x] # NULL => prev'[next'[x]] = x
        /\ \A x \in Item : prev'[x] # NULL => next'[prev'[x]] = x
    BY <1>1, <1>3, <1>4, <2>1, <2>4 DEF Linked, ListTypes
  <2>7. \A x, y \in Live' : hash_key'[x] = hash_key'[y] => x = y
    BY <1>2, <1>3 DEF Linked, ListTypes, Live
  <2>8. \A x \in Item \ Live' : next'[x] = NULL /\ prev'[x] = NULL
    BY <1>3, <2>1, <2>4 DEF Linked
  <2>9. prev'[items'] = NULL
    BY <1>2, <1>3, <1>4, <2>1, <2>4
  <2> QED
    BY <1>3, <2>3, <2>5, <2>6, <2>7, <2>8, <2>9 DEF Linked
<1> QED
  BY <1>3, <1>5, <1>6

LEMMA Unlinked ==
  ASSUME ListTypes, Linked, NEW i \in Live, RemoveItem(i)
  PROVE  ListTypes' /\ Linked' /\ Live' = Live \ {i} /\ (i = items => items' = next[i])
<1>1. NULL \notin Item /\ NULL \notin Key /\ i \in Item
  BY ContainersAssumption DEF Live
<1>2. /\ items' = NewRoot(i)
      /\ next' = [j \in Item |-> IF j = i THEN NULL ELSE IF j = prev[i] THEN next[i] ELSE next[j]]
      /\ prev' = [j \in Item |-> IF j = i THEN NULL ELSE IF j = next[i] THEN prev[i] ELSE prev[j]]
      /\ hash_key' = [hash_key EXCEPT ![i] = NULL]
  BY DEF RemoveItem
<1>3. Live' = Live \ {i}
  BY <1>1, <1>2 DEF Live, ListTypes
<1>4. next[i] # i /\ prev[i] # i
  <2> DEFINE S == {x \in Live : next[x] # x}
  <2>1. ASSUME next[i] = i PROVE FALSE
    <3>1. prev[i] = i /\ items # i
      BY <1>1, <2>1 DEF Linked
    <3>2. \A x \in Live \ {i} : next[x] # i
      BY <1>1, <3>1 DEF Linked, Live
    <3>3. Live = Visited(next, items)
      BY DEF Linked
    <3>4. Visited(next, items) \subseteq Live \ {i}
      <4>1. Live \ {i} \subseteq Item /\ (items # NULL => items \in Live \ {i})
        BY <3>1, ListFacts
      <4>2. \A x \in Live \ {i} : next[x] # NULL => next[x] \in Live \ {i}
        BY <3>2, ListFacts
      <4> QED
        BY <4>1, <4>2, VisitedLeast
    <3> QED
      BY <3>3, <3>4
  <2> QED
    BY <1>1, <2>1 DEF Linked
<1>5. items # NULL /\ items \in Live
  <2>1. items = NULL => Visited(next, items) \subseteq {}
    BY VisitedNone
  <2> QED
    BY <2>1, ListFacts
<1>6. i = items <=> prev[i] = NULL
  <2> DEFINE S == {x \in Live : x = items \/ prev[x] # NULL}
  <2>1. \A x \in S : next[x] # NULL => next[x] \in S
    <3> SUFFICES ASSUME NEW x \in Live, next[x] # NULL PROVE next[x] \in S
      OBVIOUS
    <3>1. next[x] \in Live /\ x \in Item
      BY ListFacts
    <3>2. prev[next[x]] = x
      BY <3>1 DEF Linked
    <3> QED
      BY <1>1, <3>1, <3>2
  <2>2. Visited(next, items) \subseteq S
    <3>1. S \subseteq Item /\ items \in S
      BY <1>5 DEF Live
    <3> HIDE DEF S
    <3> QED
      BY <2>1, <3>1, VisitedLeast
  <2> QED
    BY <1>5, <2>2 DEF Linked
<1>7. /\ next[i] # NULL => next[i] \in Live
      /\ prev[i] # NULL => prev[i] \in Live
  <2>1. prev[i] # NULL => prev[i] \in Item /\ next[prev[i]] = i
    BY <1>1 DEF Linked, ListTypes
  <2>2. prev[i] # NULL => prev[i] \in Live
    BY <1>1, <2>1 DEF Linked
  <2> QED
    BY <2>2, ListFacts
<1>8. items' = IF i = items THEN next[i] ELSE items
  BY <1>2, <1>6 DEF NewRoot
<1>9. \A x \in Item : /\ next'[x] = IF x = i THEN NULL ELSE IF x = prev[i] THEN next[i] ELSE next[x]
                      /\ prev'[x] = IF x = i THEN NULL ELSE IF x = next[i] THEN prev[i] ELSE prev[x]
  BY <1>2
<1>10. ListTypes'
  BY <1>1, <1>2, <1>8 DEF ListTypes
<1>11. /\ \A x \in Item : next'[x] # NULL => prev'[next'[x]] = x
       /\ \A x \in Item : prev'[x] # NULL => next'[prev'[x]] = x
  <2>1. ASSUME NEW x \in Item, next'[x] # NULL PROVE prev'[next'[x]] = x
    BY <1>1, <1>4, <1>7, <1>9, <2>1 DEF Linked, ListTypes
  <2>2. ASSUME NEW x \in Item, prev'[x] # NULL PROVE next'[prev'[x]] = x
    BY <1>1, <1>4, <1>7, <1>9, <2>2 DEF Linked, ListTypes
  <2> QED
    BY <2>1, <2>2
<1>12. items' # NULL => prev'[items'] = NULL
  BY <1>1, <1>4, <1>5, <1>6, <1>8, <1>9, <1>7 DEF Linked, ListTypes
<1>13. Visited(next', items') = Live'
  <2>1. next' \in [Item -> Item \cup {NULL}] /\ items' \in Item \cup {NULL}
    BY <1>10 DEF ListTypes
  <2>2. \A x \in Live : next[x] # NULL => next[x] \in Live
    BY ListFacts
  <2>3. \A x \in Live \ {i} : x # prev[i] => next[x] # i
    BY <1>1 DEF Linked, Live
  <2>4. \A x \in Live \ {i} : next'[x] \in (Live \ {i}) \cup {NULL}
    BY <1>1, <1>4, <1>7, <1>9, <2>2, <2>3 DEF Live
  <2>5. items' # NULL => items' \in Live \ {i}
    BY <1>4, <1>5, <1>7, <1>8
  <2>6. Visited(next', items') \subseteq Live \ {i}
    <3>1. Live \ {i} \subseteq Item
      BY DEF Live
    <3> QED
      BY <2>4, <2>5, <3>1, VisitedLeast
  <2> DEFINE V == Visited(next', items')
             S == IF i = items \/ prev[i] \in V THEN V \cup {i} ELSE V
  <2>7. V \subseteq Item /\ (items' # NULL => items' \in V) /\ \A x \in V : next'[x] # NULL => next'[x] \in V
    BY <2>1, VisitedFacts
  <2> HIDE DEF V
  <2>8. i \notin V
    BY <2>6 DEF V
  <2>9. items \in S
    BY <1>5, <1>8, <2>7
  <2>10. ASSUME NEW x \in S PROVE next[x] \in S \cup {NULL}
    <3>1. CASE x = i
      <4>1. CASE i = items
        BY <1>8, <2>7, <3>1, <4>1
      <4>2. CASE i # items
        <5>1. prev[i] \in V /\ prev[i] \in Item /\ prev[i] # i
          BY <1>4, <2>7, <2>8, <2>10, <3>1, <4>2
        <5>2. next'[prev[i]] = next[i]
          BY <1>9, <5>1
        <5> QED
          BY <2>7, <3>1, <5>1, <5>2
      <4> QED
        BY <4>1, <4>2
    <3>2. CASE x # i /\ x = prev[i]
      <4>1. next[x] = i /\ x \in V
        BY <1>1, <2>7, <2>10, <3>2 DEF Linked
      <4> QED
        BY <3>2, <4>1
    <3>3. CASE x # i /\ x # prev[i]
      <4>1. x \in V /\ next'[x] = next[x]
        BY <1>9, <2>7, <2>10, <3>3
      <4> QED
        BY <2>7, <4>1
    <3> QED
      BY <3>1, <3>2, <3>3
  <2>11. S \subseteq Item
    BY <1>1, <2>7
  <2> HIDE DEF S
  <2>12. Visited(next, items) \subseteq S
    BY <2>9, <2>10, <2>11, VisitedLeast
  <2>13. Live \ {i} \subseteq V
    BY <2>12 DEF Linked, S
  <2> QED
    BY <1>3, <2>6, <2>13 DEF V
<1>14. \A x, y \in Live' : hash_key'[x] = hash_key'[y] => x = y
  BY <1>1, <1>2, <1>3 DEF Linked, ListTypes, Live
<1>15. \A x \in Item \ Live' : next'[x] = NULL /\ prev'[x] = NULL
  BY <1>1, <1>3, <1>7, <1>9 DEF Linked
<1> QED
  BY <1>3, <1>8, <1>10, <1>11, <1>12, <1>13, <1>14, <1>15 DEF Linked

-----------------------------------------------------------------------------
(* Containers: the tree and the list together                              *)

\* What a node is looked up by: a key of a map, an item of a hash map.
KeyKind == IF kind = "map" THEN Key ELSE Item

TreeIInv ==
  /\ Hanging(tree)
  /\ Ordered(tree, <<>>)
  /\ \A n \in tree : n.key \in KeyKind
  /\ KeysAlive

Keys == {KeyOf(n) : n \in tree}

Pairs == {<<KeyOf(n), n.data>> : n \in tree}

LEMMA TreeKeyed ==
  ASSUME ListTypes, TreeIInv
  PROVE  /\ Keyed(tree) /\ Keys \subseteq Key
         /\ \A n, m \in tree : KeyOf(n) = KeyOf(m) => n = m
<1>1. ASSUME NEW n \in tree PROVE KeyOf(n) \in Key
  <2>1. n.key \in Key \cup Item /\ (n.key \in Item => hash_key[n.key] # NULL)
    BY DEF TreeIInv, KeyKind, KeysAlive
  <2> QED
    BY <2>1 DEF KeyOf, ListTypes
<1>2. Keyed(tree)
  BY <1>1, ContainersAssumption DEF Keyed
<1>3. <<>> \in Place /\ (\A n \in tree : Below(<<>>, n.at))
  BY EmptySeq, BelowRoot DEF Place, TreeIInv, Hanging, Node
<1>4. \A n, m \in tree : n # m => KeyOf(n) # KeyOf(m)
  BY <1>2, <1>3, Different DEF TreeIInv
<1> QED
  BY <1>1, <1>2, <1>4 DEF Keys

\* A step after which every node has the key it had before, or that of a node it
\* was made from, keeps the order of the tree.
LEMMA Reordered ==
  ASSUME Ordered(tree', <<>>), \A n \in tree' : KeyOf(n)' = KeyOf(n)
  PROVE  Ordered(tree, <<>>)'
BY DEF Ordered

\* The effect of deleting k from the tree and, if it is there, from the list.
LEMMA Deletion ==
  ASSUME ListTypes, TreeIInv, NEW k \in Key, _del_node_by_key(k), kind' = kind,
         \A i \in Item : hash_key[i] # k => hash_key'[i] = hash_key[i]
  PROVE  TreeIInv' /\ Keys' = Keys \ {k} /\ Pairs' = {p \in Pairs : p[1] # k}
<1>1. Keyed(tree) /\ k \in Int
  BY TreeKeyed, ContainersAssumption
<1>2. /\ Hanging(tree') /\ Ordered(tree', <<>>)
      /\ \A n \in tree' : \E o \in tree : KeyOf(o) # k /\ n.key = o.key /\ n.data = o.data
      /\ \A o \in tree : KeyOf(o) # k => \E n \in tree' : n.key = o.key /\ n.data = o.data
  BY <1>1, Deleted DEF TreeIInv
<1>3. ASSUME NEW n, KeyOf(n) # k PROVE KeyOf(n)' = KeyOf(n)
  BY <1>3 DEF KeyOf
<1>4. ASSUME NEW n \in tree'
      PROVE  \E o \in tree : /\ KeyOf(o) # k /\ n.key = o.key /\ n.data = o.data
                             /\ KeyOf(n)' = KeyOf(o) /\ KeyOf(n) = KeyOf(o)
  <2>1. PICK o \in tree : KeyOf(o) # k /\ n.key = o.key /\ n.data = o.data
    BY <1>2
  <2>2. KeyOf(n) = KeyOf(o)
    BY <2>1, KeyAlone
  <2> QED
    BY <1>3, <2>1, <2>2
<1>5. ASSUME NEW o \in tree, KeyOf(o) # k
      PROVE  \E n \in tree' : n.key = o.key /\ n.data = o.data /\ KeyOf(n)' = KeyOf(o)
  <2>1. PICK n \in tree' : n.key = o.key /\ n.data = o.data
    BY <1>2, <1>5
  <2>2. KeyOf(n) = KeyOf(o)
    BY <2>1, KeyAlone
  <2> QED
    BY <1>3, <1>5, <2>1, <2>2
<1>6. TreeIInv'
  <2>1. Hanging(tree)'
    BY <1>2 DEF Hanging, IsNode
  <2>2. Ordered(tree, <<>>)'
    BY <1>2, <1>4, Reordered
  <2>3. \A n \in tree' : n.key \in KeyKind'
    BY <1>2 DEF TreeIInv, KeyKind
  <2>4. KeysAlive'
    <3> SUFFICES ASSUME NEW n \in tree', n.key \in Item PROVE hash_key'[n.key] # NULL
      BY DEF KeysAlive
    <3>1. PICK o \in tree : KeyOf(o) # k /\ n.key = o.key
      BY <1>2
    <3>2. hash_key[n.key] # NULL /\ hash_key[n.key] # k
      BY <3>1 DEF KeyOf, TreeIInv, KeysAlive
    <3> QED
      BY <3>2
  <2> QED
    BY <2>1, <2>2, <2>3, <2>4 DEF TreeIInv
<1>7. Pairs' = {p \in Pairs : p[1] # k}
  <2>1. Pairs' \subseteq {p \in Pairs : p[1] # k}
    BY <1>4 DEF Pairs
  <2>2. {p \in Pairs : p[1] # k} \subseteq Pairs'
    BY <1>5 DEF Pairs
  <2> QED
    BY <2>1, <2>2
<1>8. Keys' = Keys \ {k}
  BY <1>4, <1>5 DEF Keys
<1> QED
  BY <1>6, <1>7, <1>8

\* The effect of putting k and v, where an item of a new key may have taken the key.
LEMMA Insertion ==
  ASSUME ListTypes, TreeIInv, NEW k \in Key, NEW v \in Value, NEW key \in KeyKind, NewNode(key, k, v),
         kind' = kind, hash_key' \in [Item -> Key \cup {NULL}],
         \A i \in Item : hash_key[i] # NULL => hash_key'[i] = hash_key[i],
         key \in Key => key = k, key \in Item => hash_key'[key] = k
  PROVE  /\ TreeIInv' /\ Keys' = Keys \cup {k}
         /\ Pairs' = {p \in Pairs : p[1] # k} \cup {<<k, v>>}
<1>1. Keyed(tree) /\ k \in Int /\ key \in Key \cup Item /\ Key \cap Item = {} /\ NULL \notin Key /\ Key \subseteq Int
  BY TreeKeyed, ContainersAssumption DEF KeyKind
<1>2. /\ Hanging(tree')
      /\ (\E n \in tree : KeyOf(n) = k) =>
           /\ Ordered(tree', <<>>)
           /\ \A n \in tree' : \E o \in tree : n.key = o.key /\ n.data = IF KeyOf(o) = k THEN v ELSE o.data
           /\ \A o \in tree : \E n \in tree' : n.key = o.key /\ n.data = IF KeyOf(o) = k THEN v ELSE o.data
      /\ (\A n \in tree : KeyOf(n) # k) =>
           \E w \in Node :
             /\ tree' = tree \cup {w} /\ w.key = key /\ w.data = v
             /\ \A n \in tree : /\ On(n.at, "left", w.at) => k < KeyOf(n)
                                /\ On(n.at, "right", w.at) => k > KeyOf(n)
                                /\ \A side \in Side : ~On(w.at, side, n.at)
  BY <1>1, Put DEF TreeIInv
<1>3. ASSUME NEW n \in tree PROVE KeyOf(n)' = KeyOf(n) /\ (n.key \in Item => hash_key'[n.key] # NULL)
  BY <1>1 DEF KeyOf, TreeIInv, KeysAlive
<1>4. Hanging(tree)'
  BY <1>2 DEF Hanging, IsNode
<1>5. CASE \E n \in tree : KeyOf(n) = k
  <2>1. ASSUME NEW n \in tree'
        PROVE  \E o \in tree : /\ n.key = o.key /\ n.data = IF KeyOf(o) = k THEN v ELSE o.data
                               /\ KeyOf(n)' = KeyOf(o) /\ KeyOf(n) = KeyOf(o)
    <3>1. PICK o \in tree : n.key = o.key /\ n.data = IF KeyOf(o) = k THEN v ELSE o.data
      BY <1>2, <1>5
    <3>2. KeyOf(n) = KeyOf(o) /\ KeyOf(n)' = KeyOf(o)'
      BY <3>1 DEF KeyOf
    <3> QED
      BY <1>3, <3>1, <3>2
  <2>2. ASSUME NEW o \in tree
        PROVE  \E n \in tree' : /\ n.key = o.key /\ n.data = IF KeyOf(o) = k THEN v ELSE o.data
                                /\ KeyOf(n)' = KeyOf(o)
    <3>1. PICK n \in tree' : n.key = o.key /\ n.data = IF KeyOf(o) = k THEN v ELSE o.data
      BY <1>2, <1>5
    <3>2. KeyOf(n)' = KeyOf(o)'
      BY <3>1 DEF KeyOf
    <3> QED
      BY <1>3, <3>1, <3>2
  <2>3. Ordered(tree, <<>>)'
    BY <1>2, <1>5, <2>1, Reordered
  <2>4. \A n \in tree' : n.key \in KeyKind'
    BY <2>1 DEF TreeIInv, KeyKind
  <2>5. KeysAlive'
    BY <1>3, <2>1 DEF KeysAlive
  <2>6. Pairs' = {p \in Pairs : p[1] # k} \cup {<<k, v>>}
    <3>1. Pairs' \subseteq {p \in Pairs : p[1] # k} \cup {<<k, v>>}
      BY <2>1 DEF Pairs
    <3>2. {p \in Pairs : p[1] # k} \subseteq Pairs'
      BY <2>2 DEF Pairs
    <3>3. <<k, v>> \in Pairs'
      BY <1>5, <2>2 DEF Pairs
    <3> QED
      BY <3>1, <3>2, <3>3
  <2>7. Keys' = Keys \cup {k}
    BY <1>5, <2>1, <2>2 DEF Keys
  <2> QED
    BY <1>4, <2>3, <2>4, <2>5, <2>6, <2>7 DEF TreeIInv
<1>6. CASE \A n \in tree : KeyOf(n) # k
  <2>1. PICK w \in Node :
          /\ tree' = tree \cup {w} /\ w.key = key /\ w.data = v
          /\ \A n \in tree : /\ On(n.at, "left", w.at) => k < KeyOf(n)
                             /\ On(n.at, "right", w.at) => k > KeyOf(n)
                             /\ \A side \in Side : ~On(w.at, side, n.at)
    BY <1>2, <1>6
  <2>2. KeyOf(w)' = k
    BY <1>1, <2>1 DEF KeyOf
  <2>3. ASSUME NEW n \in tree', NEW m \in tree'
        PROVE  /\ On(n.at, "left", m.at) => KeyOf(m)' < KeyOf(n)'
               /\ On(n.at, "right", m.at) => KeyOf(m)' > KeyOf(n)'
    <3>1. n \in tree \cup {w} /\ m \in tree \cup {w}
      BY <2>1
    <3>2. CASE n \in tree /\ m \in tree
      <4>1. Below(<<>>, n.at)
        BY <3>2, BelowRoot DEF TreeIInv, Hanging, Node
      <4> QED
        BY <1>3, <3>2, <4>1 DEF TreeIInv, Ordered
    <3>3. CASE n \in tree /\ m = w
      BY <1>1, <1>3, <2>1, <2>2, <3>3 DEF Keyed
    <3>4. CASE n = w /\ m \in tree
      BY <2>1, <3>4 DEF Side
    <3>5. CASE n = w /\ m = w
      BY <3>5, LenProperties DEF On, Node, Place
    <3> QED
      BY <3>1, <3>2, <3>3, <3>4, <3>5
  <2>4. Ordered(tree, <<>>)'
    BY <2>3 DEF Ordered
  <2>5. \A n \in tree' : n.key \in KeyKind'
    BY <2>1 DEF TreeIInv, KeyKind
  <2>6. KeysAlive'
    BY <1>1, <1>3, <2>1 DEF KeysAlive
  <2>7. Pairs' = {p \in Pairs : p[1] # k} \cup {<<k, v>>}
    <3>1. Pairs' \subseteq {p \in Pairs : p[1] # k} \cup {<<k, v>>}
      BY <1>3, <1>6, <2>1, <2>2 DEF Pairs
    <3>2. {p \in Pairs : p[1] # k} \subseteq Pairs'
      BY <1>3, <2>1 DEF Pairs
    <3>3. <<k, v>> \in Pairs'
      BY <2>1, <2>2 DEF Pairs
    <3> QED
      BY <3>1, <3>2, <3>3
  <2>8. Keys' = Keys \cup {k}
    BY <1>3, <2>1, <2>2 DEF Keys
  <2> QED
    BY <1>4, <2>4, <2>5, <2>6, <2>7, <2>8 DEF TreeIInv
<1> QED
  BY <1>5, <1>6

-----------------------------------------------------------------------------
(* Containers: the inductive invariant                                     *)

\* size counts the items, and what a clear has given back besides.
SizeInv ==
  /\ size \in Nat
  /\ size >= Cardinality(Live)
  /\ cleared = 0 => size = Cardinality(Live)

\* clear frees the items from the root on.
ClearInv == Clearing => kind = "hashmap" /\ iter = items /\ cleared > 0

MapIInv ==
  /\ kind \in {"map", "hashmap"} /\ cleared \in 0..MaxClears /\ ret \in Value \cup {NULL}
  /\ ListTypes
  /\ Linked
  /\ TreeIInv
  /\ {hash_key[i] : i \in Live} = Keys
  /\ SizeInv
  /\ ClearInv

LEMMA LiveCount ==
  /\ IsFiniteSet(Live) /\ Cardinality(Live) \in Nat
  /\ \A i \in Live : Cardinality(Live \ {i}) = Cardinality(Live) - 1
  /\ \A i \in Item \ Live : Cardinality(Live \cup {i}) = Cardinality(Live) + 1
<1>1. IsFiniteSet(Live)
  BY ContainersAssumption, FS_Subset DEF Live
<1> QED
  BY <1>1, FS_CardinalityType, FS_AddElement, FS_RemoveElement

LEMMA Found ==
  ASSUME ListTypes, Linked, NEW k
  PROVE  Find(k) = {i \in Live : hash_key[i] = k}
BY DEF Find, Linked

LEMMA MapInitIInv == MapInit => MapIInv
<1> SUFFICES ASSUME MapInit PROVE MapIInv
  OBVIOUS
<1>1. Live = {} /\ NULL \notin Item /\ MaxClears \in Nat
  BY ContainersAssumption DEF MapInit, Live
<1>2. ListTypes
  BY DEF MapInit, ListTypes
<1>3. Linked
  BY <1>1, VisitedNone DEF MapInit, Linked
<1>4. TreeIInv
  BY DEF MapInit, TreeIInv, Hanging, Ordered, KeysAlive
<1>5. {hash_key[i] : i \in Live} = Keys
  BY <1>1 DEF Keys, MapInit
<1>6. SizeInv
  BY <1>1, FS_EmptySet DEF SizeInv, MapInit
<1> QED
  BY <1>1, <1>2, <1>3, <1>4, <1>5, <1>6 DEF MapIInv, MapInit, ClearInv, Clearing

\* The values that a tree holds.
LEMMA DataValue == ASSUME ListTypes, TreeIInv, NEW n \in tree PROVE n.data \in Value
BY DEF TreeIInv, Hanging, Node

\* The effect of add for a key that is present, and of add for a new one.
LEMMA UpdateStep ==
  ASSUME MapIInv, NEW k \in Key, NEW v \in Value, Update(k, v)
  PROVE  MapIInv' /\ Pairs' = {p \in Pairs : p[1] # k} \cup {<<k, v>>}
<1>1. UNCHANGED <<kind, items, next, prev, hash_key, size, iter, cleared, ret>>
  BY DEF Update, list
<1>2. PICK i \in Find(k) : NewNode(IF kind = "map" THEN k ELSE i, k, v)
  BY DEF Update
<1>3. i \in Live /\ i \in Item /\ hash_key[i] = k
  BY <1>2, Found DEF MapIInv, Live
<1>4. (IF kind = "map" THEN k ELSE i) \in KeyKind /\ Key \cap Item = {}
  BY <1>3, ContainersAssumption DEF KeyKind
<1>5. TreeIInv' /\ Keys' = Keys \cup {k} /\ Pairs' = {p \in Pairs : p[1] # k} \cup {<<k, v>>}
  BY <1>1, <1>2, <1>3, <1>4, Insertion DEF MapIInv, ListTypes
<1>6. k \in Keys
  BY <1>3 DEF MapIInv
<1>7. Live' = Live
  BY <1>1 DEF Live
<1>8. Linked' /\ ListTypes' /\ SizeInv' /\ ClearInv'
  BY <1>1, <1>7 DEF MapIInv, Linked, Visited, ListTypes, SizeInv, ClearInv, Clearing
<1> QED
  BY <1>1, <1>5, <1>6, <1>7, <1>8 DEF MapIInv

LEMMA AddStep ==
  ASSUME MapIInv, NEW k \in Key, NEW v \in Value, add(k, v)
  PROVE  MapIInv' /\ Pairs' = {p \in Pairs : p[1] # k} \cup {<<k, v>>}
<1>1. /\ ~Clearing /\ Find(k) = {} /\ size' = size + 1
      /\ UNCHANGED <<kind, iter, cleared, ret>>
  BY DEF add
<1>2. PICK i \in Item : /\ hash_key[i] = NULL /\ PushStart(i, k)
                        /\ NewNode(IF kind = "map" THEN k ELSE i, k, v)
  BY DEF add
<1>3. \A j \in Live : hash_key[j] # k
  BY <1>1, Found DEF MapIInv
<1>4. ListTypes' /\ Linked' /\ Live' = Live \cup {i} /\ i \notin Live
  BY <1>2, <1>3, Pushed DEF MapIInv, Live
<1>5. hash_key' = [hash_key EXCEPT ![i] = k]
  BY <1>2 DEF PushStart
<1>6. hash_key'[i] = k /\ \A j \in Item : j # i => hash_key'[j] = hash_key[j]
  BY <1>5 DEF MapIInv, ListTypes
<1>7. (IF kind = "map" THEN k ELSE i) \in KeyKind /\ Key \cap Item = {}
  BY ContainersAssumption DEF KeyKind
<1>8. TreeIInv' /\ Keys' = Keys \cup {k} /\ Pairs' = {p \in Pairs : p[1] # k} \cup {<<k, v>>}
  BY <1>1, <1>2, <1>4, <1>6, <1>7, Insertion DEF MapIInv, ListTypes
<1>9. {hash_key'[j] : j \in Live'} = {hash_key[j] : j \in Live} \cup {k}
  BY <1>4, <1>6 DEF Live
<1>10. SizeInv'
  BY <1>1, <1>2, <1>4, LiveCount DEF MapIInv, SizeInv
<1> QED
  BY <1>1, <1>4, <1>8, <1>9, <1>10 DEF MapIInv, ClearInv, Clearing

\* The effect of deleting the key of an item from the tree, and the item from the list.
LEMMA ItemGone ==
  ASSUME MapIInv, NEW i \in Live, _del_node_by_key(hash_key[i]), RemoveItem(i), kind' = kind
  PROVE  /\ ListTypes' /\ Linked' /\ Live' = Live \ {i} /\ TreeIInv'
         /\ {hash_key'[j] : j \in Live'} = Keys'
         /\ Pairs' = {p \in Pairs : p[1] # hash_key[i]}
         /\ Cardinality(Live') = Cardinality(Live) - 1
         /\ i = items => items' = next[i]
<1>1. /\ ListTypes' /\ Linked' /\ Live' = Live \ {i}
      /\ i = items => items' = next[i]
  BY Unlinked DEF MapIInv
<1>2. i \in Item /\ hash_key[i] \in Key
  BY DEF MapIInv, ListTypes, Live
<1>3. \A j \in Item : j # i => hash_key'[j] = hash_key[j]
  BY <1>2 DEF RemoveItem, MapIInv, ListTypes
<1>4. TreeIInv' /\ Keys' = Keys \ {hash_key[i]} /\ Pairs' = {p \in Pairs : p[1] # hash_key[i]}
  BY <1>2, <1>3, Deletion DEF MapIInv
<1>5. {hash_key'[j] : j \in Live'} = {hash_key[j] : j \in Live} \ {hash_key[i]}
  BY <1>1, <1>3 DEF MapIInv, Linked, Live
<1>6. Cardinality(Live') = Cardinality(Live) - 1
  BY <1>1, LiveCount
<1> QED
  BY <1>1, <1>4, <1>5, <1>6 DEF MapIInv

LEMMA RemoveStep ==
  ASSUME MapIInv, NEW k \in Key, remove(k)
  PROVE  MapIInv' /\ Pairs' = {p \in Pairs : p[1] # k}
<1>1. /\ ~Clearing /\ _del_node_by_key(k) /\ UNCHANGED <<kind, iter, cleared, ret>>
      /\ \/ Find(k) = {} /\ UNCHANGED <<list, size>>
         \/ (\E i \in Find(k) : RemoveItem(i)) /\ size' = size - 1
  BY DEF remove
<1>2. CASE Find(k) = {} /\ UNCHANGED <<list, size>>
  <2>1. UNCHANGED <<items, next, prev, hash_key, size>>
    BY <1>2 DEF list
  <2>2. Live' = Live
    BY <2>1 DEF Live
  <2>3. k \notin Keys
    BY <1>2, Found DEF MapIInv
  <2>4. TreeIInv' /\ Keys' = Keys \ {k} /\ Pairs' = {p \in Pairs : p[1] # k}
    BY <1>1, <2>1, Deletion DEF MapIInv
  <2>5. Linked' /\ ListTypes' /\ SizeInv' /\ ClearInv'
    BY <1>1, <2>1, <2>2 DEF MapIInv, Linked, Visited, ListTypes, SizeInv, ClearInv, Clearing
  <2> QED
    BY <1>1, <2>1, <2>2, <2>3, <2>4, <2>5 DEF MapIInv
<1>3. CASE (\E i \in Find(k) : RemoveItem(i)) /\ size' = size - 1
  <2>1. PICK i \in Find(k) : RemoveItem(i)
    BY <1>3
  <2>2. i \in Live /\ hash_key[i] = k
    BY <2>1, Found DEF MapIInv
  <2>3. /\ ListTypes' /\ Linked' /\ TreeIInv' /\ {hash_key'[j] : j \in Live'} = Keys'
        /\ Pairs' = {p \in Pairs : p[1] # k} /\ Cardinality(Live') = Cardinality(Live) - 1
        /\ Live' = Live \ {i}
    BY <1>1, <2>1, <2>2, ItemGone
  <2>4. SizeInv'
    <3>1. Cardinality(Live) \in Nat /\ Cardinality(Live') \in Nat
      <4>1. IsFiniteSet(Live) /\ IsFiniteSet(Live')
        BY <2>3, LiveCount, FS_RemoveElement
      <4> QED
        BY <4>1, FS_CardinalityType
    <3> QED
      BY <1>1, <1>3, <2>3, <3>1 DEF MapIInv, SizeInv
  <2> QED
    BY <1>1, <2>3, <2>4 DEF MapIInv, ClearInv, Clearing
<1> QED
  BY <1>1, <1>2, <1>3

LEMMA ClearItemStep ==
  ASSUME MapIInv, ClearItem
  PROVE  MapIInv' /\ hash_key[items] \in Key /\ Pairs' = {p \in Pairs : p[1] # hash_key[items]}
<1>1. /\ Clearing /\ _del_node_by_key(hash_key[iter]) /\ RemoveItem(iter) /\ iter' = next[iter]
      /\ UNCHANGED <<kind, size, cleared, ret>>
  BY DEF ClearItem
<1>2. iter = items /\ kind = "hashmap" /\ cleared > 0 /\ items # NULL
  BY <1>1 DEF MapIInv, ClearInv, Clearing
<1>3. items \in Live
  BY <1>2, ListFacts DEF MapIInv
<1>4. /\ ListTypes' /\ Linked' /\ TreeIInv' /\ {hash_key'[j] : j \in Live'} = Keys'
      /\ Pairs' = {p \in Pairs : p[1] # hash_key[items]} /\ Cardinality(Live') = Cardinality(Live) - 1
      /\ items' = next[items]
  BY <1>1, <1>2, <1>3, ItemGone
<1>5. SizeInv'
  <2>1. Cardinality(Live) \in Nat /\ cleared' # 0
    BY <1>1, <1>2, LiveCount DEF MapIInv
  <2> QED
    BY <1>1, <1>4, <2>1 DEF MapIInv, SizeInv
<1>6. hash_key[items] \in Key
  BY <1>3 DEF MapIInv, ListTypes, Live
<1> QED
  BY <1>1, <1>2, <1>4, <1>5, <1>6 DEF MapIInv, ClearInv

LEMMA Untouched ==
  ASSUME MapIInv, UNCHANGED <<kind, tree, items, next, prev, hash_key>>
  PROVE  ListTypes' /\ Linked' /\ TreeIInv' /\ Keys' = Keys /\ Pairs' = Pairs /\ Live' = Live
BY DEF MapIInv, ListTypes, Linked, Live, Visited, TreeIInv, Hanging, IsNode, Ordered, KeyOf,
   KeyKind, KeysAlive, Keys, Pairs

\* What get answers.
LEMMA GetStep ==
  ASSUME MapIInv, NEW k \in Key, get(k)
  PROVE  /\ MapIInv' /\ Pairs' = Pairs
         /\ k \notin Keys => ret' = NULL
         /\ \A n \in tree : KeyOf(n) = k => ret' = n.data
<1>1. UNCHANGED <<kind, tree, items, next, prev, hash_key, size, iter, cleared>>
  BY DEF get, list
<1>2. PICK loc \in _find_loc(tree, <<>>, k) : \/ ~IsNode(tree, loc) /\ ret' = NULL
                                              \/ \E n \in tree : n.at = loc /\ ret' = n.data
  BY DEF get
<1>3. \A n \in tree : n.at = loc <=> KeyOf(n) = k
  <2>1. <<>> \in Place /\ k \in Int /\ Keyed(tree) /\ Hanging(tree) /\ Ordered(tree, <<>>)
    BY EmptySeq, TreeKeyed, ContainersAssumption DEF Place, MapIInv, TreeIInv
  <2>2. \A n \in tree : Below(<<>>, n.at)
    BY <2>1, BelowRoot DEF Hanging, Node
  <2> DEFINE r == <<>>
  <2>3. r \in Place /\ loc \in _find_loc(tree, r, k) /\ Ordered(tree, r) /\ \A n \in tree : Below(r, n.at)
    BY <2>1, <2>2
  <2> HIDE DEF r
  <2>4. \A n \in tree : n.at = loc => KeyOf(n) = k
    BY <2>1, <2>3, FindLoc
  <2>5. \A n \in tree : KeyOf(n) = k => n.at = loc
    BY <2>1, <2>3, Finds
  <2> QED
    BY <2>4, <2>5
<1>4. \A n, m \in tree : n.at = m.at => n = m
  BY DEF MapIInv, TreeIInv, Hanging
<1>5. k \notin Keys => ret' = NULL
  BY <1>2, <1>3 DEF Keys
<1>6. \A n \in tree : KeyOf(n) = k => ret' = n.data
  BY <1>2, <1>3, <1>4 DEF IsNode
<1>7. ret' \in Value \cup {NULL}
  BY <1>2, DataValue DEF MapIInv
<1>8. ListTypes' /\ Linked' /\ TreeIInv' /\ Keys' = Keys /\ Pairs' = Pairs /\ Live' = Live
  BY <1>1, Untouched
<1>9. MapIInv'
  BY <1>1, <1>7, <1>8 DEF MapIInv, SizeInv, ClearInv, Clearing
<1> QED
  BY <1>5, <1>6, <1>8, <1>9

\* Steps that leave the tree and the list alone.
LEMMA QuietMapStep ==
  ASSUME MapIInv, clear \/ UNCHANGED mapVars
  PROVE  MapIInv' /\ Pairs' = Pairs /\ UNCHANGED ret
<1>1. UNCHANGED <<kind, tree, items, next, prev, hash_key, size, ret>>
  BY DEF clear, mapVars, list
<1>2. ListTypes' /\ Linked' /\ TreeIInv' /\ Keys' = Keys /\ Pairs' = Pairs /\ Live' = Live
  BY <1>1, Untouched
<1>3. CASE clear
  <2>1. /\ kind = "hashmap" /\ cleared < MaxClears /\ iter' = items /\ cleared' = cleared + 1
    BY <1>3 DEF clear
  <2>2. cleared' \in 0..MaxClears /\ cleared' > 0
    BY <2>1, ContainersAssumption DEF MapIInv
  <2>3. SizeInv' /\ ClearInv'
    BY <1>1, <1>2, <2>1, <2>2 DEF MapIInv, SizeInv, ClearInv
  <2> QED
    BY <1>1, <1>2, <2>2, <2>3 DEF MapIInv
<1>4. CASE UNCHANGED mapVars
  <2>1. SizeInv' /\ ClearInv' /\ cleared' = cleared
    BY <1>1, <1>2, <1>4 DEF MapIInv, SizeInv, ClearInv, Clearing, mapVars
  <2> QED
    BY <1>1, <1>2, <2>1 DEF MapIInv
<1> QED
  BY <1>1, <1>2, <1>3, <1>4

LEMMA MapIInvStep == MapIInv /\ [MapNext]_mapVars => MapIInv'
<1> SUFFICES ASSUME MapIInv, [MapNext]_mapVars PROVE MapIInv'
  OBVIOUS
<1>1. ASSUME NEW k \in Key, NEW v \in Value, Update(k, v) PROVE MapIInv'
  BY <1>1, UpdateStep
<1>2. ASSUME NEW k \in Key, NEW v \in Value, add(k, v) PROVE MapIInv'
  BY <1>2, AddStep
<1>3. ASSUME NEW k \in Key, remove(k) PROVE MapIInv'
  BY <1>3, RemoveStep
<1>4. ASSUME NEW k \in Key, get(k) PROVE MapIInv'
  BY <1>4, GetStep
<1>5. ASSUME ClearItem PROVE MapIInv'
  BY <1>5, ClearItemStep
<1>6. ASSUME clear \/ UNCHANGED mapVars PROVE MapIInv'
  BY <1>6, QuietMapStep
<1> QED
  BY <1>1, <1>2, <1>3, <1>4, <1>5, <1>6 DEF MapNext

THEOREM MapInvariance == MapSpec => []MapIInv
BY MapInitIInv, MapIInvStep, PTL DEF MapSpec

-----------------------------------------------------------------------------
(* Containers: walks down the tree                                         *)

\* A tree has at least as many nodes as there are on the way to one of them.
LEMMA Height ==
  ASSUME NEW t, Hanging(t), IsFiniteSet(t), NEW n \in t
  PROVE  Cardinality(t) \in Nat /\ Len(n.at) < Cardinality(t)
<1>1. n.at \in Place /\ Len(n.at) \in Nat
  BY LenProperties DEF Hanging, Node, Place
<1> DEFINE on == [j \in 0..Len(n.at) |-> CHOOSE m \in t : m.at = SubSeq(n.at, 1, j)]
<1>2. \A j \in 0..Len(n.at) : on[j] \in t /\ on[j].at = SubSeq(n.at, 1, j)
  <2> TAKE j \in 0..Len(n.at)
  <2>1. \E m \in t : m.at = SubSeq(n.at, 1, j)
    BY DEF Hanging, IsNode
  <2> QED
    BY <2>1
<1>3. on \in [0..Len(n.at) -> t]
  BY <1>2
<1> HIDE DEF on
<1>4. ASSUME NEW j \in 0..Len(n.at), NEW l \in 0..Len(n.at), on[j] = on[l] PROVE j = l
  <2>1. Len(SubSeq(n.at, 1, j)) = j /\ Len(SubSeq(n.at, 1, l)) = l
    BY <1>1, Upper
  <2> QED
    BY <1>2, <1>4, <2>1
<1>5. on \in Injection(0..Len(n.at), t)
  BY <1>3, <1>4 DEF Injection, IsInjective
<1>6. Cardinality(0..Len(n.at)) <= Cardinality(t) /\ Cardinality(t) \in Nat
  BY <1>5, FS_Injection, FS_CardinalityType
<1>7. Cardinality(0..Len(n.at)) = Len(n.at) + 1
  BY <1>1, FS_Interval
<1> QED
  BY <1>1, <1>6, <1>7

\* No walk goes down from every node it visits.
LEMMA NoEndlessWalk ==
  ASSUME NEW t, Hanging(t), IsFiniteSet(t), NEW walk, walk \subseteq t,
         \A n \in walk : \E m \in walk : Len(m.at) = Len(n.at) + 1
  PROVE  walk = {}
<1>1. ASSUME NEW n \in walk PROVE Cardinality(t) \in Nat /\ Len(n.at) \in Nat /\ Len(n.at) < Cardinality(t)
  BY Height, LenProperties DEF Hanging, Node, Place
<1> DEFINE left == {Cardinality(t) - Len(n.at) : n \in walk}
<1>2. left \subseteq Nat
  BY <1>1
<1>3. ASSUME walk # {} PROVE FALSE
  <2>1. left # {}
    BY <1>3
  <2>2. PICK d \in left : \A e \in left : ~(e < d)
    <3> HIDE DEF left
    <3> QED
      BY <1>2, <2>1, Smallest
  <2>3. PICK n \in walk : d = Cardinality(t) - Len(n.at)
    BY <2>2
  <2>4. PICK m \in walk : Len(m.at) = Len(n.at) + 1
    BY <2>3
  <2>5. Cardinality(t) - Len(m.at) \in left /\ Cardinality(t) - Len(m.at) < d
    BY <1>1, <2>3, <2>4
  <2> QED
    BY <2>2, <2>5
<1> QED
  BY <1>3

LEMMA Extended ==
  ASSUME NEW p \in Place, NEW side \in Side
  PROVE  /\ Append(p, side) \in Place /\ Len(Append(p, side)) = Len(p) + 1 /\ Len(p) \in Nat
         /\ \A i \in 1..Len(p) : Append(p, side)[i] = p[i]
         /\ Append(p, side)[Len(p) + 1] = side
         /\ \A j \in 0..Len(p) : SubSeq(Append(p, side), 1, j) = SubSeq(p, 1, j)
<1> DEFINE q == Append(p, side)
<1>1. /\ q \in Place /\ Len(q) = Len(p) + 1 /\ Len(p) \in Nat
      /\ \A i \in 1..Len(p) : q[i] = p[i]
      /\ q[Len(p) + 1] = side
  BY AppendProperties, LenProperties DEF Place
<1> HIDE DEF q
<1>2. ASSUME NEW j \in 0..Len(p) PROVE SubSeq(q, 1, j) = SubSeq(p, 1, j)
  <2>1. /\ SubSeq(p, 1, j) \in Place /\ Len(SubSeq(p, 1, j)) = j
        /\ \A i \in 1..j : SubSeq(p, 1, j)[i] = p[i]
    BY Upper
  <2>2. Below(SubSeq(p, 1, j), q)
    BY <1>1, <2>1 DEF Below
  <2> QED
    BY <1>1, <2>1, <2>2, UpperIs
<1> QED
  BY <1>1, <1>2 DEF q

\* Every search ends.
LEMMA SearchEnds ==
  ASSUME NEW t, Hanging(t), IsFiniteSet(t), NEW root \in Place, root = <<>> \/ IsNode(t, root), NEW k
  PROVE  _find_loc(t, root, k) # {}
<1> DEFINE Turns(p) == \A j \in Len(root)..Len(p) - 1 :
                         \E m \in t : m.at = SubSeq(p, 1, j) /\ KeyOf(m) # k /\ p[j + 1] = Turn(k, m)
           walk == {n \in t : Below(root, n.at) /\ Turns(n.at)}
<1>1. Len(root) \in Nat /\ Below(root, root) /\ Turns(root)
  BY LenProperties DEF Place, Below
<1>2. ASSUME NEW p \in Place, Below(root, p), Turns(p), p = root \/ (\E n \in t, side \in Side : p = Append(n.at, side)),
             \A n \in t : n.at = p => KeyOf(n) = k
      PROVE  p \in _find_loc(t, root, k)
  <2>1. p \in {n.at : n \in t} \cup {<<>>} \cup {Append(n.at, side) : n \in t, side \in Side}
    BY <1>2 DEF IsNode
  <2>2. IsPrefix(root, p)
    BY <1>2, Prefix
  <2> QED
    BY <1>2, <2>1, <2>2 DEF _find_loc
<1>3. SUFFICES ASSUME _find_loc(t, root, k) = {} PROVE FALSE
  OBVIOUS
<1>4. \E n \in t : n.at = root
  BY <1>1, <1>2, <1>3
<1>5. walk # {}
  BY <1>1, <1>4
<1>6. ASSUME NEW n \in walk PROVE \E m \in walk : Len(m.at) = Len(n.at) + 1
  <2>1. n \in t /\ n.at \in Place /\ Len(n.at) \in Nat /\ Below(root, n.at) /\ Turns(n.at)
    BY LenProperties DEF Hanging, Node, Place
  <2>2. Turn(k, n) \in Side
    BY DEF Turn, Side
  <2> DEFINE p == Append(n.at, Turn(k, n))
  <2>3. /\ p \in Place /\ Len(p) = Len(n.at) + 1
        /\ \A i \in 1..Len(n.at) : p[i] = n.at[i]
        /\ p[Len(n.at) + 1] = Turn(k, n)
        /\ \A j \in 0..Len(n.at) : SubSeq(p, 1, j) = SubSeq(n.at, 1, j)
    BY <2>1, <2>2, Extended
  <2>4. \E m \in t, side \in Side : p = Append(m.at, side)
    BY <2>1, <2>2
  <2> HIDE DEF p
  <2>5. Below(root, p)
    BY <1>1, <2>1, <2>3 DEF Below
  <2>6. KeyOf(n) # k
    <3>1. ASSUME KeyOf(n) = k PROVE n.at \in _find_loc(t, root, k)
      <4>1. \A m \in t : m.at = n.at => KeyOf(m) = k
        BY <2>1, <3>1 DEF Hanging
      <4>2. IsPrefix(root, n.at)
        BY <2>1, Prefix
      <4> QED
        BY <2>1, <4>1, <4>2 DEF _find_loc
    <3> QED
      BY <1>3, <3>1
  <2>7. Turns(p)
    <3> SUFFICES ASSUME NEW j \in Len(root)..Len(p) - 1
                 PROVE  \E m \in t : m.at = SubSeq(p, 1, j) /\ KeyOf(m) # k /\ p[j + 1] = Turn(k, m)
      OBVIOUS
    <3>1. j \in 0..Len(n.at) /\ SubSeq(p, 1, j) = SubSeq(n.at, 1, j)
      BY <1>1, <2>1, <2>3
    <3>2. CASE j = Len(n.at)
      <4>1. SubSeq(n.at, 1, j) = n.at
        BY <2>1, <3>2, SubSeqFull DEF Place
      <4> QED
        BY <2>1, <2>3, <2>6, <3>1, <3>2, <4>1
    <3>3. CASE j # Len(n.at)
      <4>1. j \in Len(root)..Len(n.at) - 1 /\ j + 1 \in 1..Len(n.at)
        BY <1>1, <2>1, <2>3, <3>3
      <4>2. PICK m \in t : m.at = SubSeq(n.at, 1, j) /\ KeyOf(m) # k /\ n.at[j + 1] = Turn(k, m)
        BY <2>1, <4>1
      <4> QED
        BY <2>3, <3>1, <4>1, <4>2
    <3> QED
      BY <3>2, <3>3
  <2>8. PICK m \in t : m.at = p
    BY <1>2, <1>3, <2>3, <2>4, <2>5, <2>7
  <2> QED
    BY <2>3, <2>5, <2>7, <2>8
<1>7. walk = {}
  <2>1. walk \subseteq t
    OBVIOUS
  <2> HIDE DEF walk
  <2> QED
    BY <1>6, <2>1, NoEndlessWalk
<1> QED
  BY <1>5, <1>7

\* So does every walk to the least node.
LEMMA LeastEnds ==
  ASSUME NEW t, Hanging(t), IsFiniteSet(t), NEW root \in t
  PROVE  _min_node(t, root.at) # {}
<1> DEFINE Leftmost(p) == \A j \in Len(root.at) + 1..Len(p) : p[j] = "left"
           walk == {n \in t : Below(root.at, n.at) /\ Leftmost(n.at)}
<1>1. root.at \in Place /\ Len(root.at) \in Nat
  BY LenProperties DEF Hanging, Node, Place
<1>2. root \in walk
  BY <1>1 DEF Below
<1>3. SUFFICES ASSUME _min_node(t, root.at) = {} PROVE FALSE
  OBVIOUS
<1>4. ASSUME NEW n \in walk PROVE \E m \in walk : Len(m.at) = Len(n.at) + 1
  <2>1. n \in t /\ n.at \in Place /\ Len(n.at) \in Nat /\ Below(root.at, n.at) /\ Leftmost(n.at)
    BY LenProperties DEF Hanging, Node, Place
  <2>2. IsPrefix(root.at, n.at)
    BY <1>1, <2>1, Prefix
  <2>3. PICK m \in t : m.at = Append(n.at, "left")
    BY <1>3, <2>1, <2>2 DEF _min_node, IsNode
  <2>4. /\ m.at \in Place /\ Len(m.at) = Len(n.at) + 1
        /\ \A i \in 1..Len(n.at) : m.at[i] = n.at[i]
        /\ m.at[Len(n.at) + 1] = "left"
    <3>1. "left" \in Side
      BY DEF Side
    <3> QED
      BY <2>1, <2>3, <3>1, Extended
  <2>5. Below(root.at, m.at)
    BY <1>1, <2>1, <2>4 DEF Below
  <2>6. Leftmost(m.at)
    <3> SUFFICES ASSUME NEW j \in Len(root.at) + 1..Len(m.at) PROVE m.at[j] = "left"
      OBVIOUS
    <3>1. CASE j = Len(n.at) + 1
      BY <2>4, <3>1
    <3>2. CASE j # Len(n.at) + 1
      <4>1. j \in Len(root.at) + 1..Len(n.at) /\ j \in 1..Len(n.at)
        BY <1>1, <2>1, <2>4, <3>2
      <4> QED
        BY <2>1, <2>4, <4>1
    <3> QED
      BY <3>1, <3>2
  <2> QED
    BY <2>3, <2>4, <2>5, <2>6
<1>5. walk = {}
  <2>1. walk \subseteq t
    OBVIOUS
  <2> HIDE DEF walk
  <2> QED
    BY <1>4, <2>1, NoEndlessWalk
<1> QED
  BY <1>2, <1>5

\* There are no more nodes than items.
LEMMA FiniteTree == ASSUME MapIInv PROVE IsFiniteSet(tree)
<1> DEFINE item == [n \in tree |-> CHOOSE i \in Live : hash_key[i] = KeyOf(n)]
<1>1. \A n \in tree : item[n] \in Live /\ hash_key[item[n]] = KeyOf(n)
  <2> TAKE n \in tree
  <2>1. KeyOf(n) \in {hash_key[i] : i \in Live}
    BY DEF MapIInv, Keys
  <2>2. \E i \in Live : hash_key[i] = KeyOf(n)
    BY <2>1
  <2> QED
    BY <2>2
<1>2. item \in [tree -> Live]
  BY <1>1
<1> HIDE DEF item
<1>3. \A n, m \in tree : item[n] = item[m] => n = m
  BY <1>1, TreeKeyed DEF MapIInv
<1>4. item \in Injection(tree, Live)
  BY <1>2, <1>3 DEF Injection, IsInjective
<1> QED
  BY <1>4, LiveCount, FS_Injection

-----------------------------------------------------------------------------
(* Containers: the theorems                                                *)

\* The tree of both containers is a search tree at all times, for any keys and through
\* any sequence of insertions and deletions, and size never goes below zero.
THEOREM MapTypeOKThm == MapSpec => []MapTypeOK
<1>1. MapIInv => MapTypeOK
  <2> SUFFICES ASSUME MapIInv PROVE MapTypeOK
    OBVIOUS
  <2>1. Hanging(tree) /\ Ordered(tree, <<>>) /\ \A n \in tree : n.at \in Place /\ Below(<<>>, n.at)
    BY BelowRoot DEF MapIInv, TreeIInv, Hanging, Node
  <2>2. ASSUME NEW n \in tree, NEW side \in Side, NEW m \in Subtree(n, side)
        PROVE  m \in tree /\ On(n.at, side, m.at)
    BY <2>1, <2>2, PrefixAppend DEF Subtree
  <2>3. \A n \in tree : /\ \A m \in Subtree(n, "left") : KeyOf(m) < KeyOf(n)
                        /\ \A m \in Subtree(n, "right") : KeyOf(m) > KeyOf(n)
    <3> SUFFICES ASSUME NEW n \in tree
                 PROVE  /\ \A m \in Subtree(n, "left") : KeyOf(m) < KeyOf(n)
                        /\ \A m \in Subtree(n, "right") : KeyOf(m) > KeyOf(n)
      OBVIOUS
    <3>1. /\ \A m \in Subtree(n, "left") : m \in tree /\ On(n.at, "left", m.at)
          /\ \A m \in Subtree(n, "right") : m \in tree /\ On(n.at, "right", m.at)
      BY <2>2 DEF Side
    <3> QED
      BY <2>1, <3>1 DEF Ordered
  <2>4. tree \subseteq [at : Seq(Side), key : Key \cup Item, data : Value]
    BY <2>1 DEF Hanging, Node, Place
  <2>5. size \in Nat
    BY DEF MapIInv, SizeInv
  <2>6. /\ \A k \in Key : _find_loc(tree, <<>>, k) # {}
        /\ \A n \in tree : _min_node(tree, n.at) # {}
    <3>1. IsFiniteSet(tree)
      BY FiniteTree
    <3>2. ASSUME NEW k \in Key PROVE _find_loc(tree, <<>>, k) # {}
      <4> DEFINE root == <<>>
      <4>1. root \in Place /\ root = <<>>
        BY EmptySeq DEF Place
      <4> HIDE DEF root
      <4>2. _find_loc(tree, root, k) # {}
        BY <2>1, <3>1, <4>1, SearchEnds
      <4> QED
        BY <4>1, <4>2
    <3> QED
      BY <2>1, <3>1, <3>2, LeastEnds
  <2> QED
    <3>1. /\ \A n \in tree : \A j \in 0..Len(n.at) : IsNode(tree, SubSeq(n.at, 1, j))
          /\ \A n, m \in tree : n.at = m.at => n = m
      BY <2>1 DEF Hanging
    <3>2. /\ kind \in {"map", "hashmap"} /\ cleared \in 0..MaxClears /\ ret \in Value \cup {NULL}
          /\ iter \in Item \cup {NULL} /\ ListTypes
      BY DEF MapIInv, ClearInv, Clearing, ListTypes
    <3> QED
      BY <2>3, <2>4, <2>5, <2>6, <3>1, <3>2 DEF MapTypeOK, ListTypes
<1> QED
  BY <1>1, MapInvariance, PTL

\* No node of a hash map's tree points to the string of an item that was freed.
THEOREM KeysAliveThm == MapSpec => []KeysAlive
<1>1. MapIInv => KeysAlive
  BY DEF MapIInv, TreeIInv
<1> QED
  BY <1>1, MapInvariance, PTL

\* The list reaches every item that was not freed, it and the tree hold the same
\* keys, each once, and size is their number until a hash map is cleared.
THEOREM SameKeysThm == MapSpec => []SameKeys
<1>1. MapIInv => SameKeys
  <2> SUFFICES ASSUME MapIInv PROVE SameKeys
    OBVIOUS
  <2>1. Visited(next, items) = Live /\ {hash_key[i] : i \in Live} = {KeyOf(n) : n \in tree}
    BY DEF MapIInv, Linked, Keys
  <2>2. cleared = 0 => size = Cardinality(Live)
    BY DEF MapIInv, SizeInv
  <2>3. /\ \A i \in Item : next[i] # NULL => prev[next[i]] = i
        /\ \A i, j \in Live : hash_key[i] = hash_key[j] => i = j
    BY DEF MapIInv, Linked
  <2> QED
    BY <2>1, <2>2, <2>3 DEF SameKeys, Live
<1> QED
  BY <1>1, MapInvariance, PTL

-----------------------------------------------------------------------------
(* Containers: the refinement                                              *)

\* f is the map that the pairs make up.
Denotes(f, pairs) ==
  /\ f = [x \in DOMAIN f |-> f[x]]
  /\ \A x : x \in DOMAIN f <=> \E p \in pairs : p[1] = x
  /\ \A p \in pairs : f[p[1]] = p[2]

\* Content reads one datum for each key, as no two nodes have the same key.
LEMMA ContentDenotes == MapIInv => Denotes(Content, Pairs) /\ DOMAIN Content = Keys
<1> SUFFICES ASSUME MapIInv PROVE Denotes(Content, Pairs) /\ DOMAIN Content = Keys
  OBVIOUS
<1>1. \A x : x \in Keys <=> \E p \in Pairs : p[1] = x
  <2>1. ASSUME NEW x \in Keys PROVE \E p \in Pairs : p[1] = x
    <3>1. PICK n \in tree : x = KeyOf(n)
      BY DEF Keys
    <3>2. <<KeyOf(n), n.data>> \in Pairs
      BY DEF Pairs
    <3> QED
      BY <3>1, <3>2
  <2>2. ASSUME NEW p \in Pairs PROVE p[1] \in Keys
    BY DEF Pairs, Keys
  <2> QED
    BY <2>1, <2>2
<1>2. Content = [x \in Keys |-> Content[x]] /\ DOMAIN Content = Keys
  BY DEF Content, Keys
<1>3. ASSUME NEW n \in tree PROVE Content[KeyOf(n)] = n.data
  <2>1. Content[KeyOf(n)] = (CHOOSE m \in tree : KeyOf(m) = KeyOf(n)).data
    BY DEF Content
  <2>2. PICK m \in tree : m = (CHOOSE o \in tree : KeyOf(o) = KeyOf(n)) /\ KeyOf(m) = KeyOf(n)
    OBVIOUS
  <2>3. m = n
    BY <2>2, TreeKeyed DEF MapIInv
  <2> QED
    BY <2>1, <2>2, <2>3
<1>4. \A p \in Pairs : Content[p[1]] = p[2]
  BY <1>3 DEF Pairs
<1> QED
  BY <1>1, <1>2, <1>4 DEF Denotes

\* The pairs after an insertion, and after a deletion.
Inserted(now, pairs, k, v) == now = {p \in pairs : p[1] # k} \cup {<<k, v>>}

Dropped(now, pairs, k) == now = {p \in pairs : p[1] # k}

\* g is f with k mapped to v.
Overrides(g, f, k, v) == g = [x \in DOMAIN f \cup {k} |-> IF x = k THEN v ELSE f[x]]

LEMMA AddDenotes ==
  ASSUME NEW f, NEW g, NEW pairs, NEW k, NEW v, NEW now,
         Inserted(now, pairs, k, v), Denotes(f, pairs), Denotes(g, now)
  PROVE  Overrides(g, f, k, v)
<1>1. <<k, v>> \in now /\ \A p \in pairs : p[1] # k => p \in now
  BY DEF Inserted
<1>2. \A p \in now : p \in pairs \/ p[1] = k
  BY DEF Inserted
<1>3. /\ \A x : x \in DOMAIN f <=> \E p \in pairs : p[1] = x
      /\ \A p \in pairs : f[p[1]] = p[2]
  BY DEF Denotes
<1>4. /\ g = [x \in DOMAIN g |-> g[x]]
      /\ \A x : x \in DOMAIN g <=> \E p \in now : p[1] = x
      /\ \A p \in now : g[p[1]] = p[2]
  BY DEF Denotes
<1>5. g[k] = v /\ k \in DOMAIN g
  BY <1>1, <1>4
<1>6. ASSUME NEW x \in DOMAIN f, x # k PROVE x \in DOMAIN g /\ g[x] = f[x]
  <2>1. PICK p \in pairs : p[1] = x
    BY <1>3
  <2>2. p \in now
    BY <1>1, <1>6, <2>1
  <2> QED
    BY <1>3, <1>4, <2>1, <2>2
<1>7. DOMAIN g = DOMAIN f \cup {k}
  <2>1. DOMAIN g \subseteq DOMAIN f \cup {k}
    BY <1>2, <1>3, <1>4
  <2> QED
    BY <1>5, <1>6, <2>1
<1> QED
  BY <1>4, <1>5, <1>6, <1>7 DEF Overrides

LEMMA RemoveDenotes ==
  ASSUME NEW f, NEW g, NEW pairs, NEW k, NEW now,
         Dropped(now, pairs, k), Denotes(f, pairs), Denotes(g, now)
  PROVE  DOMAIN g = DOMAIN f \ {k} /\ \A x \in DOMAIN g : g[x] = f[x]
<1>1. \A p : p \in now <=> p \in pairs /\ p[1] # k
  BY DEF Dropped
<1>2. /\ \A x : x \in DOMAIN f <=> \E p \in pairs : p[1] = x
      /\ \A p \in pairs : f[p[1]] = p[2]
  BY DEF Denotes
<1>3. /\ g = [x \in DOMAIN g |-> g[x]]
      /\ \A x : x \in DOMAIN g <=> \E p \in now : p[1] = x
      /\ \A p \in now : g[p[1]] = p[2]
  BY DEF Denotes
<1>4. ASSUME NEW x \in DOMAIN f \ {k} PROVE x \in DOMAIN g /\ g[x] = f[x]
  <2>1. PICK p \in pairs : p[1] = x
    BY <1>2
  <2>2. p \in now
    BY <1>1, <1>4, <2>1
  <2> QED
    BY <1>2, <1>3, <2>1, <2>2
<1>5. DOMAIN g = DOMAIN f \ {k}
  <2>1. DOMAIN g \subseteq DOMAIN f \ {k}
    BY <1>1, <1>2, <1>3
  <2> QED
    BY <1>4, <2>1
<1> QED
  BY <1>3, <1>4, <1>5

LEMMA SameDenotes ==
  ASSUME NEW f, NEW g, NEW pairs, Denotes(f, pairs), Denotes(g, pairs)
  PROVE  g = f
<1>1. /\ f = [x \in DOMAIN f |-> f[x]] /\ g = [x \in DOMAIN g |-> g[x]]
      /\ \A x : x \in DOMAIN f <=> \E p \in pairs : p[1] = x
      /\ \A x : x \in DOMAIN g <=> \E p \in pairs : p[1] = x
  BY DEF Denotes
<1>2. DOMAIN g = DOMAIN f
  BY <1>1
<1>3. ASSUME NEW x \in DOMAIN f PROVE g[x] = f[x]
  BY <1>1 DEF Denotes
<1> QED
  BY <1>1, <1>2, <1>3

\* Both containers implement a finite map: every insertion and deletion changes the
\* value of its key alone, each round of a clear removes one key, and a query answers
\* with the value that was last stored for its key, or NULL.
THEOREM ImplementsMapThm == MapSpec => ImplementsMap
<1>1. MapInit => Map!Init
  <2> SUFFICES ASSUME MapInit PROVE Map!Init
    OBVIOUS
  <2>1. tree = {} /\ ret = NULL
    BY DEF MapInit
  <2>2. Content = <<>>
    BY <2>1 DEF Content
  <2> QED
    BY <2>1, <2>2 DEF Map!Init
<1>2. MapIInv /\ MapIInv' /\ [MapNext]_mapVars => [Map!Next]_(Map!vars)
  <2> SUFFICES ASSUME MapIInv, MapIInv', [MapNext]_mapVars PROVE Map!Next \/ UNCHANGED Map!vars
    OBVIOUS
  <2>1. Denotes(Content, Pairs) /\ DOMAIN Content = Keys
    BY ContentDenotes
  <2>2. Denotes(Content', Pairs')
    <3>1. MapIInv' => Denotes(Content, Pairs)'
      BY ContentDenotes, PTL
    <3> QED
      BY <3>1 DEF Denotes
  <2>3. ASSUME NEW k \in Key, NEW v \in Value, Update(k, v) \/ add(k, v) PROVE Map!Next
    <3>1. Pairs' = {p \in Pairs : p[1] # k} \cup {<<k, v>>} /\ ret' = ret
      BY <2>3, UpdateStep, AddStep DEF Update, add
    <3>2. Content' = [x \in DOMAIN Content \cup {k} |-> IF x = k THEN v ELSE Content[x]]
      <4> DEFINE f == Content
                 g == Content'
                 pairs == Pairs
                 now == Pairs'
      <4>1. Inserted(now, pairs, k, v) /\ Denotes(f, pairs) /\ Denotes(g, now)
        BY <2>1, <2>2, <3>1 DEF Inserted
      <4> HIDE DEF f, g, pairs, now
      <4>2. Overrides(g, f, k, v)
        BY <4>1, AddDenotes
      <4> QED
        BY <4>2 DEF Overrides, f, g
    <3> QED
      BY <3>1, <3>2 DEF Map!Next, Map!Add
  <2>4. ASSUME NEW k \in Key, Pairs' = {p \in Pairs : p[1] # k}, ret' = ret PROVE Map!Next
    <3>1. Content' = [x \in DOMAIN Content \ {k} |-> Content[x]]
      <4> DEFINE f == Content
                 g == Content'
                 pairs == Pairs
                 now == Pairs'
      <4>1. Dropped(now, pairs, k) /\ Denotes(f, pairs) /\ Denotes(g, now)
        BY <2>1, <2>2, <2>4 DEF Dropped
      <4> HIDE DEF f, g, pairs, now
      <4>2. DOMAIN g = DOMAIN f \ {k} /\ \A x \in DOMAIN g : g[x] = f[x]
        BY <4>1, RemoveDenotes
      <4>3. g = [x \in DOMAIN f \ {k} |-> f[x]]
        BY <4>1, <4>2 DEF Denotes
      <4> QED
        BY <4>3 DEF f, g
    <3> QED
      BY <2>4, <3>1 DEF Map!Next, Map!Remove, Map!Restrict
  <2>5. ASSUME NEW k \in Key, remove(k) PROVE Map!Next
    BY <2>4, <2>5, RemoveStep DEF remove
  <2>6. ASSUME ClearItem PROVE Map!Next
    BY <2>4, <2>6, ClearItemStep DEF ClearItem
  <2>7. ASSUME NEW k \in Key, get(k) PROVE Map!Next
    <3>1. /\ Pairs' = Pairs /\ (k \notin Keys => ret' = NULL)
          /\ \A n \in tree : KeyOf(n) = k => ret' = n.data
      BY <2>7, GetStep
    <3>2. Content' = Content
      BY <2>1, <2>2, <3>1, SameDenotes
    <3>3. ASSUME k \in Keys PROVE ret' = Content[k]
      <4>1. PICK n \in tree : KeyOf(n) = k
        BY <3>3 DEF Keys
      <4>2. <<k, n.data>> \in Pairs
        BY <4>1 DEF Pairs
      <4>3. Content[k] = n.data
        BY <2>1, <4>2 DEF Denotes
      <4> QED
        BY <3>1, <4>1, <4>3
    <3>4. Map!Get(k)
      BY <2>1, <3>1, <3>2, <3>3 DEF Map!Get
    <3> QED
      BY <3>4 DEF Map!Next
  <2>8. ASSUME clear \/ UNCHANGED mapVars PROVE UNCHANGED Map!vars
    <3>1. Pairs' = Pairs /\ ret' = ret
      BY <2>8, QuietMapStep
    <3>2. Content' = Content
      BY <2>1, <2>2, <3>1, SameDenotes
    <3> QED
      BY <3>1, <3>2 DEF Map!vars
  <2> QED
    BY <2>3, <2>5, <2>6, <2>7, <2>8 DEF MapNext
<1> QED
  BY <1>1, <1>2, MapInvariance, PTL DEF MapSpec, ImplementsMap, Map!Spec
=============================================================================
