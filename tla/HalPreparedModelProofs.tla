----------------------- MODULE HalPreparedModelProofs -----------------------
(***************************************************************************)
(* Proofs about HalPreparedModel, for any requests, inputs and pools.      *)
(*                                                                         *)
(* That a computation works on buffers of its own request cannot be seen   *)
(* from the step that computes: the arguments were bound one by one        *)
(* before, to an Execution that may be older than the request.  The        *)
(* invariant says what has been bound so far, and that an Execution which  *)
(* is kept was never computed with.                                        *)
(***************************************************************************)
EXTENDS HalPreparedModel, TLAPS

\* The arguments bound so far are bound as the request has them.
BoundSoFar ==
  request # None /\ model = "whole" =>
    \A a \in Args : a < next =>
      /\ PoolType(a) = "HAS_NO_VALUE" /\ a # Output => native_exec_[a] = "HAS_NO_VALUE"
      /\ PoolType(a) = "ashmem" => native_exec_[a] = request

\* An Execution that is there holds no buffers of a request that was computed.
NotComputed == native_exec_ # None => \A a \in Args : native_exec_[a] \notin computed

\* A request is computed before it is answered, and answered once.
Answered ==
  /\ \A r \in computed : answer[r] # None
  /\ request # None => answer[request] = None

HalfBound == native_exec_ # None /\ model # "whole" => native_exec_ = NewExecution

\* A model is made before a request is executed, and before an Execution.
Made == model = "none" => request = None /\ native_exec_ = None

IInv == TypeOK /\ BoundSoFar /\ NotComputed /\ Answered /\ HalfBound /\ Made

-----------------------------------------------------------------------------
LEMMA Numbers ==
  /\ NumInputs \in Nat \ {0} /\ NumPools \in Nat /\ Output \in Args
  /\ Args = 1..Output /\ Output \in Nat
  BY HalAssumption DEF Args, Output

LEMMA NoneIsNone == None \notin Request \cup Status /\ None \notin [Args -> Binding]
  BY HalAssumption

LEMMA NewExecutionType ==
  NewExecution \in [Args -> Binding] /\ \A a \in Args : NewExecution[a] \notin Request
  BY HalAssumption DEF NewExecution, Binding

-----------------------------------------------------------------------------
LEMMA InitIInv == Init => IInv
<1> SUFFICES ASSUME Init PROVE IInv
  OBVIOUS
<1>1. NoArgs \in [Args -> 0..NumPools] /\ 1 \in 1..Output + 1 /\ NoPools \in Pools
  BY Numbers DEF NoArgs, NoValue, NoPools, Pools
<1>2. TypeOK
  BY <1>1 DEF Init, TypeOK
<1> QED
  BY <1>2 DEF Init, IInv, BoundSoFar, NotComputed, Answered, HalfBound, Made

\* A request is answered: its arguments are forgotten, and nothing else.
LEMMA NotifyStep ==
  ASSUME IInv, NEW r \in Request, NEW status \in Status, Notify(r, status),
         request \in {None, r},
         model' = model \/ (native_exec_ = None /\ model' \in {"no_operands", "no_operations"}),
         UNCHANGED <<native_exec_, io_buffer_, computed, crashed>>,
         status # None
  PROVE  IInv'
<1>1. TypeOK'
  <2>1. NoArgs \in [Args -> 0..NumPools] /\ 1 \in 1..Output + 1
    BY Numbers DEF NoArgs, NoValue
  <2> QED
    BY <2>1 DEF IInv, TypeOK, Notify
<1> QED
  BY <1>1 DEF IInv, TypeOK, BoundSoFar, NotComputed, Answered, HalfBound, Made, Notify

LEMMA ExecuteStep ==
  ASSUME IInv, NEW r \in Request, NEW a \in [Args -> 0..NumPools], NEW pools \in Pools,
         Execute(r, a, pools)
  PROVE  IInv'
<1>1. TypeOK'
  BY Numbers, NoneIsNone, NewExecutionType DEF IInv, TypeOK, Execute
<1>2. NotComputed'
  BY NewExecutionType DEF IInv, TypeOK, NotComputed, Execute
<1>3. BoundSoFar'
  BY Numbers DEF BoundSoFar, Execute
<1>4. Answered'
  BY DEF IInv, Answered, Execute, New
<1>5. HalfBound' /\ Made'
  BY DEF IInv, TypeOK, HalfBound, Made, Execute
<1> QED
  BY <1>1, <1>2, <1>3, <1>4, <1>5 DEF IInv

\* The next argument is passed over, or bound.
LEMMA BindStep ==
  ASSUME IInv, NEW a \in Args, Arrived(a), next' = next + 1,
         UNCHANGED <<model, io_buffer_, request, args, answer, computed, crashed>>,
         NEW binding \in {"HAS_NO_VALUE", request},
         \/ UNCHANGED native_exec_
         \/ model = "whole" /\ native_exec_' = [native_exec_ EXCEPT ![a] = binding],
         model = "whole" =>
           /\ PoolType(a) = "HAS_NO_VALUE" /\ a # Output => native_exec_'[a] = "HAS_NO_VALUE"
           /\ PoolType(a) = "ashmem" => native_exec_'[a] = request
  PROVE  IInv'
<1>1. request \in Request /\ native_exec_ \in [Args -> Binding] /\ next = a
  BY DEF IInv, TypeOK, Arrived
<1>2. native_exec_' \in [Args -> Binding]
  BY <1>1 DEF Binding
<1>3. \A b \in Args : b # a => native_exec_'[b] = native_exec_[b]
  BY <1>1
<1>4. TypeOK'
  <2>1. next' \in 1..Output + 1
    BY <1>1, Numbers
  <2>2. native_exec_' # None
    BY <1>2, NoneIsNone
  <2> QED
    BY <1>2, <2>1, <2>2 DEF IInv, TypeOK
<1>5. request \notin computed /\ "HAS_NO_VALUE" \notin computed
  BY <1>1, HalAssumption DEF IInv, TypeOK, Answered
<1>6. NotComputed'
  <2>1. native_exec_ # None
    BY <1>1, NoneIsNone
  <2>2. ASSUME NEW b \in Args PROVE native_exec_'[b] \notin computed
    BY <1>1, <1>5, <2>1 DEF IInv, NotComputed
  <2> QED
    BY <2>2 DEF NotComputed
<1>7. BoundSoFar'
  <2>1. ASSUME NEW b \in Args, b < next', model = "whole"
        PROVE  /\ PoolType(b) = "HAS_NO_VALUE" /\ b # Output => native_exec_'[b] = "HAS_NO_VALUE"
               /\ PoolType(b) = "ashmem" => native_exec_'[b] = request
    <3>1. b = a \/ (b # a /\ b < next)
      BY <1>1, <2>1, Numbers
    <3> QED
      BY <1>1, <1>3, <2>1, <3>1 DEF IInv, BoundSoFar, Arrived
  <2>2. \A b \in Args : PoolType(b)' = PoolType(b)
    BY DEF PoolType
  <2> QED
    BY <2>1, <2>2 DEF BoundSoFar
<1>8. Answered' /\ Made'
  BY DEF IInv, Answered, Made
<1>9. HalfBound'
  BY DEF IInv, HalfBound
<1> QED
  BY <1>4, <1>6, <1>7, <1>8, <1>9 DEF IInv

LEMMA ComputeStep == IInv /\ compute => IInv'
<1> SUFFICES ASSUME IInv, compute PROVE IInv'
  OBVIOUS
<1>1. request \in Request
  BY DEF IInv, TypeOK, compute, Arrived
<1>2. PICK status \in Status : Notify(request, status)
  BY DEF compute, Status
<1>3. NoArgs \in [Args -> 0..NumPools] /\ 1 \in 1..Output + 1 /\ NoPools \in Pools
  BY Numbers DEF NoArgs, NoValue, NoPools, Pools
<1>4. /\ native_exec_' = None /\ io_buffer_' = NoPools /\ request' = None
      /\ computed' = computed \cup {request} /\ UNCHANGED <<model, crashed>>
  BY <1>2 DEF compute, ResetExecution, Notify
<1>5. TypeOK'
  BY <1>1, <1>2, <1>3, <1>4 DEF IInv, TypeOK, Notify
<1>6. Answered'
  BY <1>1, <1>2, <1>4, NoneIsNone DEF IInv, TypeOK, Answered, Notify
<1> QED
  BY <1>4, <1>5, <1>6 DEF IInv, BoundSoFar, NotComputed, HalfBound, Made

LEMMA IInvStep == IInv /\ [Next]_vars => IInv'
<1> SUFFICES ASSUME IInv, [Next]_vars PROVE IInv'
  OBVIOUS
<1>0. \A status \in Status : status # None
  BY NoneIsNone
<1>1. CASE UNCHANGED vars
  BY <1>1 DEF vars, IInv, TypeOK, BoundSoFar, NotComputed, Answered, HalfBound, Made, PoolType
<1>2. ASSUME NEW r \in Request, Refuse(r) PROVE IInv'
  BY <1>0, <1>2, NotifyStep DEF Refuse, New, Status
<1>3. ASSUME NEW r \in Request, NEW partial \in {"no_operands", "no_operations"},
             InitializeFails(r, partial)
      PROVE  IInv'
  BY <1>0, <1>3, NotifyStep DEF InitializeFails, New, Status, IInv, Made
<1>4. ASSUME NEW r \in Request, NEW a \in [Args -> 0..NumPools], NEW pools \in Pools,
             Execute(r, a, pools)
      PROVE  IInv'
  BY <1>4, ExecuteStep
<1>5. CASE Crash
  BY <1>5 DEF Crash, IInv, TypeOK, BoundSoFar, NotComputed, Answered, HalfBound, Made, PoolType
<1>6. ASSUME NEW a \in Args, BindNoValue(a) PROVE IInv'
  <2>1. request # None /\ native_exec_ \in [Args -> Binding]
    BY <1>6 DEF IInv, TypeOK, BindNoValue, Arrived
  <2>2. model = "whole" /\ a # Output => native_exec_'[a] = "HAS_NO_VALUE"
    BY <1>6, <2>1 DEF BindNoValue, RefusesIndex
  <2> QED
    BY <1>6, <2>2, BindStep DEF BindNoValue, RefusesIndex
<1>7. ASSUME NEW a \in Args, BindBuffer(a) PROVE IInv'
  <2>1. request \in Request /\ native_exec_ \in [Args -> Binding]
    BY <1>7 DEF IInv, TypeOK, BindBuffer, Arrived
  <2>2. CASE model # "whole"
    BY <1>0, <1>7, <2>1, <2>2, NotifyStep DEF BindBuffer, RefusesIndex, Status
  <2>3. CASE model = "whole"
    <3>1. native_exec_' = [native_exec_ EXCEPT ![a] = request] /\ native_exec_'[a] = request
      BY <1>7, <2>1, <2>3 DEF BindBuffer, RefusesIndex, Bind
    <3> QED
      BY <1>7, <2>3, <3>1, BindStep DEF BindBuffer, RefusesIndex, Bind
  <2> QED
    BY <2>2, <2>3
<1>8. ASSUME NEW a \in Args, PassOver(a) PROVE IInv'
  BY <1>8, BindStep DEF PassOver, Unmapped
<1>9. CASE OutputInsufficient
  <2>1. request \in Request
    BY <1>9 DEF IInv, TypeOK, OutputInsufficient, Arrived
  <2> QED
    BY <1>0, <1>9, <2>1, NotifyStep DEF OutputInsufficient, Status
<1>10. CASE compute
  BY <1>10, ComputeStep
<1> QED
  BY <1>1, <1>2, <1>3, <1>4, <1>5, <1>6, <1>7, <1>8, <1>9, <1>10 DEF Next, Step

THEOREM Invariance == Spec => []IInv
  BY InitIInv, IInvStep, PTL DEF Spec

\* Every variable has its type, and a request that is being answered has an execution
\* its arguments can be bound to (native_exec_ in executeBase).
THEOREM TypeOKThm == Spec => []TypeOK
<1>1. IInv => TypeOK
  BY DEF IInv
<1> QED
  BY <1>1, Invariance, PTL

\* A computation that may succeed works on the buffer of its own request wherever that
\* was bound, and nowhere on a buffer of a request that was computed; a half-built model
\* binds none.  An argument that is passed over may still have the buffer of a refused
\* request (executeBase returns without a reset): the theorem does not exclude that.
THEOREM OwnBuffersThm == Spec => []OwnBuffers
<1>1. IInv => OwnBuffers
  <2> SUFFICES ASSUME IInv PROVE OwnBuffers
    OBVIOUS
  <2>1. native_exec_ # None /\ model # "whole" => native_exec_ = NewExecution
    BY DEF IInv, HalfBound
  <2>2. ASSUME Arrived(Output + 1), model = "whole", NEW a \in Args
        PROVE  CASE PoolType(a) = "HAS_NO_VALUE" /\ a # Output -> native_exec_[a] = "HAS_NO_VALUE"
                 [] PoolType(a) = "ashmem" -> native_exec_[a] = request
                 [] OTHER -> native_exec_[a] \notin computed
    <3>1. a < next /\ request # None /\ native_exec_ # None
      BY <2>2, Numbers DEF Arrived, IInv, TypeOK
    <3> QED
      BY <2>2, <3>1 DEF IInv, BoundSoFar, NotComputed
  <2> QED
    BY <2>1, <2>2 DEF OwnBuffers
<1> QED
  BY <1>1, Invariance, PTL
=============================================================================
