----------------------- MODULE OperationTrackerProofs -----------------------
(***************************************************************************)
(* Proofs about OperationTracker for any sets of operations and Close      *)
(* calls.  The safety properties and the refinement of TrackerContract are *)
(* not inductive: that release starts with nothing admitted rests on the       *)
(* channel Close copied still being the one the last finish will close,    *)
(* which rests on nothing being admitted after closed was set.  IInv says  *)
(* so.                                                                     *)
(***************************************************************************)
EXTENDS OperationTracker, TLAPS

LeaderPcs == {"cancel", "drain", "release", "releasing", "publish"}

\* t.active holds exactly the operations between Begin and finish, and
\* t.activeDone is an open channel exactly while t.active is not empty.
ActiveInv ==
    /\ active = Admitted
    /\ active = {} <=> activeDone = 0
    /\ activeDone # 0 => activeDone = made
    /\ drained \subseteq 1..made
    /\ activeDone \notin drained

\* One Close call leads the shutdown; the others wait for its channel.
LeaderInv ==
    /\ closeDone = "nil" <=> ~closed
    /\ \A c \in Closers : closePc[c] # "idle" => closed
    /\ closeDone = "open" <=> \E c \in Closers : closePc[c] \in LeaderPcs
    /\ \A c, d \in Closers :
          closePc[c] \in LeaderPcs /\ closePc[d] \in LeaderPcs => c = d
    /\ \A c \in Closers :
          closePc[c] \in {"read", "returned"} => closeDone = "closed"

\* How many release callbacks have started, by the leader's position.
ReleaseInv ==
    /\ closeDone = "nil" => releases = 0
    /\ closeDone = "closed" => releases = 1
    /\ \A c \in Closers :
          /\ closePc[c] \in {"cancel", "drain", "release"} => releases = 0
          /\ closePc[c] \in {"releasing", "publish"} => releases = 1

\* While the leader waits, the channel it copied is the current one as long
\* as an operation is active; past the wait nothing is active any more.
DrainInv ==
    /\ closeDone = "closed" => active = {}
    /\ \A c \in Closers :
          /\ closePc[c] \in {"cancel", "drain"} /\ active # {}
                => awaits[c] = activeDone
          /\ closePc[c] \in {"release", "releasing", "publish"} => active = {}

\* What the leader has still to cancel is what is active and not cancelled.
CancelInv ==
    \A c \in Closers :
        /\ closePc[c] = "cancel" => active \subseteq cancelled \cup toCancel[c]
        /\ closePc[c] = "drain" => active \subseteq cancelled

ResultInv ==
    \A c \in Closers : closePc[c] = "returned" => closeResult[c] = closeErr

IInv ==
    TypeOK /\ ActiveInv /\ LeaderInv /\ ReleaseInv /\ DrainInv /\ CancelInv
      /\ ResultInv /\ GateToken

-----------------------------------------------------------------------------
\* Init establishes the inductive invariant.
LEMMA InitIInv == Init => IInv
  <1> SUFFICES ASSUME Init PROVE IInv
    OBVIOUS
  <1>1. TypeOK
    BY DEF Init, TypeOK, OpPcs, OpResults, ClosePcs
  <1>2. Admitted = {} /\ Gated = {}
    BY DEF Init, Admitted, Gated
  <1>3. ActiveInv /\ GateToken
    BY <1>2 DEF Init, ActiveInv, GateToken
  <1>4. LeaderInv /\ ReleaseInv /\ DrainInv /\ CancelInv /\ ResultInv
    BY DEF Init, LeaderInv, ReleaseInv, DrainInv, CancelInv, ResultInv, LeaderPcs
  <1> QED
    BY <1>1, <1>3, <1>4 DEF IInv

\* Every step keeps the types.
LEMMA NextTypeOK == TypeOK /\ [Next]_vars => TypeOK'
  <1> SUFFICES ASSUME TypeOK, [Next]_vars PROVE TypeOK'
    OBVIOUS
  <1> USE DEF TypeOK, OpPcs, OpResults, ClosePcs, stateVars, opVars,
              closerVars
  <1>1. ASSUME NEW o \in Ops, CallerCancels(o)
        PROVE  TypeOK'
    BY <1>1 DEF CallerCancels
  <1>2. ASSUME NEW o \in Ops, CheckContext(o) \/ BodyReturns(o) \/ OpStep(o)
        PROVE  TypeOK'
    <2>1. CASE CheckContext(o)
      BY <2>1 DEF CheckContext
    <2>2. CASE BodyReturns(o)
      BY <2>2 DEF BodyReturns
    <2>3. CASE BeginRefused(o)
      BY <2>3 DEF BeginRefused
    <2>4. CASE BeginAdmits(o)
      BY <2>4 DEF BeginAdmits
    <2>5. CASE TakeGate(o)
      BY <2>5 DEF TakeGate
    <2>6. CASE LeaveGate(o)
      BY <2>6 DEF LeaveGate
    <2>7. CASE CheckGated(o)
      BY <2>7 DEF CheckGated
    <2>8. CASE Outcome(o)
      <3>1. JoinedOutcome(o) \in OpResults
        BY DEF JoinedOutcome
      <3> QED
        BY <2>8, <3>1 DEF Outcome
    <2>9. CASE ReturnGate(o)
      BY <2>9 DEF ReturnGate
    <2>10. CASE Finish(o)
      <3>1. drained' \subseteq Nat /\ activeDone' \in Nat
        <4>1. CASE active \ {o} = {}
          <5>1. drained' = drained \cup {activeDone} /\ activeDone' = 0
            BY <2>10, <4>1 DEF Finish
          <5> QED
            BY <5>1
        <4>2. CASE active \ {o} # {}
          BY <2>10, <4>2 DEF Finish
        <4> QED
          BY <4>1, <4>2
      <3>2. active' \subseteq Ops /\ cancelled' \subseteq Ops
        BY <2>10 DEF Finish
      <3>3. opPc' \in [Ops -> OpPcs]
        BY <2>10 DEF Finish
      <3> QED
        BY <2>10, <3>1, <3>2, <3>3 DEF Finish
    <2> QED
      BY <1>2, <2>1, <2>2, <2>3, <2>4, <2>5, <2>6, <2>7, <2>8, <2>9, <2>10 DEF OpStep
  <1>3. ASSUME NEW c \in Closers, CloseBegins(c) \/ CloseJoins(c)
        PROVE  TypeOK'
    <2>1. CASE CloseBegins(c)
      BY <2>1 DEF CloseBegins, CancelSnapshot, DrainSnapshot
    <2>2. CASE CloseJoins(c)
      BY <2>2 DEF CloseJoins
    <2> QED
      BY <1>3, <2>1, <2>2
  <1>4. ASSUME NEW c \in Closers, CloseStep(c)
        PROVE  TypeOK'
    <2>1. CASE \E o \in Ops : CancelOne(c, o)
      BY <2>1 DEF CancelOne
    <2>2. CASE CancelsSent(c)
      BY <2>2 DEF CancelsSent
    <2>3. CASE Drained(c)
      BY <2>3 DEF Drained
    <2>4. CASE ReleaseStarts(c)
      BY <2>4 DEF ReleaseStarts
    <2>5. CASE ReleaseReturns(c)
      BY <2>5 DEF ReleaseReturns
    <2>6. CASE ClosePublishes(c)
      BY <2>6 DEF ClosePublishes, StoredError
    <2>7. CASE JoinWakes(c)
      BY <2>7 DEF JoinWakes
    <2>8. CASE JoinReads(c)
      BY <2>8 DEF JoinReads
    <2> QED
      BY <1>4, <2>1, <2>2, <2>3, <2>4, <2>5, <2>6, <2>7, <2>8 DEF CloseStep
  <1>5. CASE UNCHANGED vars
    BY <1>5 DEF vars
  <1> QED
    BY <1>1, <1>2, <1>3, <1>4, <1>5 DEF Next

-----------------------------------------------------------------------------
\* A step of an operation keeps the rest of the invariant.
LEMMA OpKeepsIInv ==
  ASSUME IInv, TypeOK', NEW o \in Ops,
         CallerCancels(o) \/ CheckContext(o) \/ BodyReturns(o) \/ OpStep(o)
  PROVE  IInv'
  <1> USE DEF TypeOK, OpPcs, stateVars, opVars, closerVars
  <1>1. ASSUME UNCHANGED <<closed, closeDone, closeErr, closerVars>>,
               active' \subseteq active, cancelled \subseteq cancelled',
               active' # {} => activeDone' = activeDone
        PROVE  LeaderInv' /\ ReleaseInv' /\ DrainInv' /\ CancelInv' /\ ResultInv'
    BY <1>1 DEF IInv, LeaderInv, ReleaseInv, DrainInv, CancelInv, ResultInv
  <1>2. ASSUME UNCHANGED <<stateVars, gate, closerVars>>,
               cancelled \subseteq cancelled',
               Admitted' = Admitted, Gated' = Gated
        PROVE  IInv'
    BY <1>1, <1>2 DEF IInv, ActiveInv, GateToken
  <1>3. CASE CallerCancels(o)
    BY <1>3, <1>2 DEF CallerCancels, Admitted, Gated
  <1>4. CASE CheckContext(o)
    BY <1>4, <1>2 DEF CheckContext, Admitted, Gated
  <1>5. CASE BodyReturns(o)
    BY <1>5, <1>2 DEF BodyReturns, Admitted, Gated
  <1>6. CASE BeginRefused(o)
    BY <1>6, <1>2 DEF BeginRefused, Admitted, Gated
  <1>7. CASE BeginAdmits(o)
    <2>1. ActiveInv'
      <3>1. Admitted' = Admitted \cup {o}
        BY <1>7 DEF BeginAdmits, Admitted
      <3> QED
        BY <1>7, <3>1 DEF BeginAdmits, NeedsChannel, IInv, ActiveInv
    <2>2. LeaderInv' /\ ReleaseInv' /\ ResultInv'
      BY <1>7 DEF BeginAdmits, IInv, LeaderInv, ReleaseInv, ResultInv
    <2>3. DrainInv' /\ CancelInv'
      BY <1>7
      DEF BeginAdmits, Refuses, IInv, LeaderInv, DrainInv, CancelInv, LeaderPcs
    <2>4. GateToken'
      <3>1. Gated' = Gated
        BY <1>7 DEF BeginAdmits, Gated
      <3> QED
        BY <1>7, <3>1 DEF BeginAdmits, IInv, GateToken
    <2> QED
      BY <2>1, <2>2, <2>3, <2>4 DEF IInv
  <1>8. CASE TakeGate(o)
    <2>1. Admitted' = Admitted /\ Gated' = Gated \cup {o}
      BY <1>8 DEF TakeGate, Admitted, Gated
    <2>2. ActiveInv'
      BY <1>8, <2>1 DEF TakeGate, IInv, ActiveInv
    <2>3. GateToken'
      BY <1>8, <2>1 DEF TakeGate, IInv, GateToken
    <2> QED
      BY <1>1, <1>8, <2>2, <2>3 DEF TakeGate, IInv
  <1>9. CASE LeaveGate(o)
    BY <1>9, <1>2 DEF LeaveGate, Admitted, Gated
  <1>10. CASE CheckGated(o)
    BY <1>10, <1>2 DEF CheckGated, Admitted, Gated
  <1>11. CASE Outcome(o)
    BY <1>11, <1>2 DEF Outcome, Admitted, Gated
  <1>12. CASE ReturnGate(o)
    <2>1. Admitted' = Admitted /\ Gated' = Gated \ {o} /\ o \in Gated
      BY <1>12 DEF ReturnGate, Admitted, Gated
    <2>2. ActiveInv'
      BY <1>12, <2>1 DEF ReturnGate, IInv, ActiveInv
    <2>3. GateToken'
      BY <1>12, <2>1 DEF ReturnGate, IInv, GateToken
    <2> QED
      BY <1>1, <1>12, <2>2, <2>3 DEF ReturnGate, IInv
  <1>13. CASE Finish(o)
    <2>1. Admitted' = Admitted \ {o} /\ Gated' = Gated /\ o \in Admitted
      BY <1>13 DEF Finish, Admitted, Gated
    <2>2. ActiveInv'
      <3>1. activeDone = made /\ made \in 1..made
        BY <2>1 DEF IInv, ActiveInv
      <3> QED
        BY <1>13, <2>1, <3>1 DEF Finish, IInv, ActiveInv
    <2>3. GateToken'
      BY <1>13, <2>1 DEF Finish, IInv, GateToken
    <2> QED
      BY <1>1, <1>13, <2>2, <2>3 DEF Finish, IInv
  <1> QED
    BY <1>3, <1>4, <1>5, <1>6, <1>7, <1>8, <1>9, <1>10, <1>11, <1>12, <1>13
    DEF OpStep

\* A step of a Close call keeps the rest of the invariant.
LEMMA CloserKeepsIInv ==
  ASSUME IInv, TypeOK', NEW c \in Closers,
         CloseBegins(c) \/ CloseJoins(c) \/ CloseStep(c)
  PROVE  IInv'
  <1> USE DEF TypeOK, ClosePcs, stateVars, opVars, closerVars
  <1>1. ASSUME UNCHANGED <<active, activeDone, made, drained, gate, opPc>>
        PROVE  ActiveInv' /\ GateToken'
    BY <1>1 DEF IInv, ActiveInv, GateToken, Admitted, Gated
  <1>2. CASE CloseBegins(c)
    <2>1. \A d \in Closers : closePc[d] = "idle"
      BY <1>2 DEF CloseBegins, ShutdownBegun, IInv, LeaderInv
    <2> QED
      BY <1>1, <1>2, <2>1
      DEF CloseBegins, ShutdownBegun, DrainSnapshot, CancelSnapshot, IInv, LeaderInv,
          ReleaseInv, DrainInv, CancelInv, ResultInv, LeaderPcs
  <1>3. CASE CloseJoins(c)
    BY <1>1, <1>3
    DEF CloseJoins, ShutdownBegun, IInv, LeaderInv, ReleaseInv, DrainInv,
        CancelInv, ResultInv, LeaderPcs
  <1>4. CASE \E o \in Ops : CancelOne(c, o)
    BY <1>1, <1>4
    DEF CancelOne, IInv, LeaderInv, ReleaseInv, DrainInv, CancelInv, ResultInv
  <1>5. CASE CancelsSent(c)
    BY <1>1, <1>5
    DEF CancelsSent, IInv, LeaderInv, ReleaseInv, DrainInv, CancelInv, ResultInv,
        LeaderPcs
  <1>6. CASE Drained(c)
    <2>1. active = {}
      BY <1>6 DEF Drained, DrainObserved, IInv, ActiveInv, DrainInv
    <2> QED
      BY <1>1, <1>6, <2>1
      DEF Drained, IInv, LeaderInv, ReleaseInv, DrainInv, CancelInv, ResultInv,
          LeaderPcs
  <1>7. CASE ReleaseStarts(c)
    BY <1>1, <1>7
    DEF ReleaseStarts, IInv, LeaderInv, ReleaseInv, DrainInv, CancelInv, ResultInv,
        LeaderPcs
  <1>8. CASE ReleaseReturns(c)
    BY <1>1, <1>8
    DEF ReleaseReturns, IInv, LeaderInv, ReleaseInv, DrainInv, CancelInv, ResultInv,
        LeaderPcs
  <1>9. CASE ClosePublishes(c)
    BY <1>1, <1>9
    DEF ClosePublishes, StoredError, IInv, LeaderInv, ReleaseInv, DrainInv,
        CancelInv, ResultInv, LeaderPcs
  <1>10. CASE JoinWakes(c)
    BY <1>1, <1>10
    DEF JoinWakes, CloseObserved, IInv, LeaderInv, ReleaseInv, DrainInv,
        CancelInv, ResultInv, LeaderPcs
  <1>11. CASE JoinReads(c)
    BY <1>1, <1>11
    DEF JoinReads, IInv, LeaderInv, ReleaseInv, DrainInv, CancelInv, ResultInv,
        LeaderPcs
  <1> QED
    BY <1>2, <1>3, <1>4, <1>5, <1>6, <1>7, <1>8, <1>9, <1>10, <1>11
    DEF CloseStep

LEMMA NextIInv == IInv /\ [Next]_vars => IInv'
  <1> SUFFICES ASSUME IInv, [Next]_vars PROVE IInv'
    OBVIOUS
  <1>1. TypeOK'
    BY NextTypeOK DEF IInv
  <1>2. CASE UNCHANGED vars
    BY <1>1, <1>2
    DEF IInv, vars, stateVars, opVars, closerVars, ActiveInv, LeaderInv,
        ReleaseInv, DrainInv, CancelInv, ResultInv, GateToken, Admitted, Gated
  <1> QED
    BY <1>1, <1>2, OpKeepsIInv, CloserKeepsIInv DEF Next

-----------------------------------------------------------------------------
\* The inductive invariant holds throughout, for any number of operations
\* and of Close calls.
THEOREM IInvHolds == Spec => []IInv
  BY InitIInv, NextIInv, PTL DEF Spec

\* Type correctness of the tracker, the gate and every call.
THEOREM TypeCorrect == Spec => []TypeOK
  <1>1. IInv => TypeOK
    BY DEF IInv
  <1> QED
    BY <1>1, IInvHolds, PTL

\* No operation is between Begin and finish once Tracker.Close runs release.
THEOREM DrainBeforeRelease == Spec => []ReleaseAfterDrain
  <1>1. IInv => ReleaseAfterDrain
    BY DEF IInv, TypeOK, ActiveInv, LeaderInv, ReleaseInv, DrainInv,
           ReleaseAfterDrain, LeaderPcs
  <1> QED
    BY <1>1, IInvHolds, PTL

\* Tracker.Close runs release at most once, and no call returns before it.
THEOREM ReleasedOnce == Spec => []ReleaseOnce
  <1>1. IInv => ReleaseOnce
    BY DEF IInv, TypeOK, LeaderInv, ReleaseInv, ReleaseOnce, LeaderPcs
  <1> QED
    BY <1>1, IInvHolds, PTL

\* All calls of Tracker.Close return the same error.
THEOREM ClosersAgree == Spec => []CloseAgreement
  <1>1. IInv => CloseAgreement
    BY DEF IInv, ResultInv, CloseAgreement
  <1> QED
    BY <1>1, IInvHolds, PTL

\* No finish callback closes a nil or closed channel.
THEOREM ChannelsSafe == Spec => []NoChannelPanic
  <1>1. IInv => NoChannelPanic
    BY DEF IInv, ActiveInv, NoChannelPanic
  <1> QED
    BY <1>1, IInvHolds, PTL

\* The gate's token is conserved and excludes concurrent bodies.
THEOREM GateExcludes == Spec => []GateToken
  <1>1. IInv => GateToken
    BY DEF IInv
  <1> QED
    BY <1>1, IInvHolds, PTL

\* Once Close has begun no step admits an operation.
THEOREM NoAdmissionAfterClose == Spec => AdmissionSealed
  <1>1. ASSUME [Next]_vars, closed
        PROVE  active' \subseteq active
    BY <1>1
    DEF Next, vars, stateVars, opVars, closerVars, OpStep, CloseStep,
        CallerCancels, CheckContext, BodyReturns, BeginRefused, BeginAdmits,
        Refuses, TakeGate, LeaveGate, CheckGated, Outcome, ReturnGate,
        Finish, CloseBegins, CloseJoins, CancelOne, CancelsSent, Drained,
        ReleaseStarts, ReleaseReturns, ClosePublishes, JoinWakes, JoinReads
  <1>2. [Next]_vars => [closed => active' \subseteq active]_vars
    BY <1>1
  <1> QED
    BY <1>2, PTL DEF Spec, AdmissionSealed

\* Past its cancel functions, Close has ended the context of whatever is left
\* between Begin and finish.
LEMMA SentIsEnded ==
  ASSUME IInv, CancelsAreSent
  PROVE  Admitted \subseteq cancelled
  <1>1. PICK c \in Closers :
          closePc[c] \in {"drain", "release", "releasing", "publish", "returned"}
    BY DEF CancelsAreSent
  <1> QED
    BY <1>1 DEF IInv, ActiveInv, LeaderInv, DrainInv, CancelInv

\* Once Close waits for the operations, none begins to use the device and none
\* reports success, for any number of operations and of Close calls.
THEOREM WorkIsEnded == Spec => ShutdownEndsWork
  <1> DEFINE Ends == CancelsAreSent => \A o \in Ops :
                       /\ opPc[o] # "body" => opPc'[o] # "body"
                       /\ opPc[o] = "outcome" /\ opPc'[o] = "ungate"
                             => opResult'[o] # "ok"
  <1>1. ASSUME IInv, [Next]_vars
        PROVE  Ends
    <2> SUFFICES ASSUME CancelsAreSent, NEW o \in Ops
                 PROVE  /\ opPc[o] # "body" => opPc'[o] # "body"
                        /\ opPc[o] = "outcome" /\ opPc'[o] = "ungate"
                              => opResult'[o] # "ok"
      OBVIOUS
    <2>1. opPc \in [Ops -> OpPcs] /\ opResult \in [Ops -> OpResults]
      BY <1>1 DEF IInv, TypeOK
    <2>2. opPc[o] \in {"check", "outcome"} => o \in cancelled
      BY <1>1, SentIsEnded DEF Admitted
    <2>3. CASE CheckGated(o) \/ Outcome(o)
      BY <2>1, <2>2, <2>3 DEF CheckGated, Outcome, JoinedOutcome
    <2>4. CASE \E p \in Ops : \/ CallerCancels(p) \/ CheckContext(p) \/ BodyReturns(p)
                              \/ OpStep(p) /\ (p = o => ~(CheckGated(o) \/ Outcome(o)))
      BY <2>1, <2>4
      DEF CallerCancels, CheckContext, BodyReturns, OpStep, BeginRefused, BeginAdmits,
          TakeGate, LeaveGate, CheckGated, Outcome, ReturnGate, Finish, opVars
    <2>5. CASE \E c \in Closers : CloseBegins(c) \/ CloseJoins(c) \/ CloseStep(c)
      BY <2>5
      DEF CloseBegins, CloseJoins, CloseStep, CancelOne, CancelsSent, Drained,
          ReleaseStarts, ReleaseReturns, ClosePublishes, JoinWakes, JoinReads, opVars
    <2>6. CASE UNCHANGED vars
      BY <2>6 DEF vars, opVars
    <2> QED
      BY <1>1, <2>3, <2>4, <2>5, <2>6 DEF Next
  <1>2. IInv /\ [Next]_vars => [Ends]_vars
    BY <1>1
  <1> QED
    BY <1>2, IInvHolds, PTL DEF Spec, ShutdownEndsWork
-----------------------------------------------------------------------------
\* A tracker that was just made is a contract that was just made.
LEMMA ContractInits == Init => Contract!ContractInit
  BY DEF Init, Contract!ContractInit, ShutdownPhase, Answers

\* A step that keeps the variables the view is made of keeps the view.
LEMMA ViewKept ==
  ASSUME UNCHANGED <<closed, closeDone, closeErr, active, closeResult, releases>>,
         \A c \in Closers : closePc'[c] = "returned" <=> closePc[c] = "returned"
  PROVE  UNCHANGED Contract!contractVars
  <1>1. ShutdownPhase' = ShutdownPhase
    BY DEF ShutdownPhase
  <1>2. Answers' = Answers
    BY DEF Answers
  <1> QED
    BY <1>1, <1>2 DEF Contract!contractVars

\* Steps of an operation: Begin admits, finish leaves, the others are not seen.
LEMMA OpKeepsContract ==
  ASSUME IInv, NEW o \in Ops,
         CallerCancels(o) \/ CheckContext(o) \/ BodyReturns(o) \/ OpStep(o)
  PROVE  Contract!ContractNext \/ UNCHANGED Contract!contractVars
  <1> USE DEF stateVars, opVars, closerVars
  <1>1. CASE BeginAdmits(o)
    <2>1. ShutdownPhase = "open" /\ UNCHANGED <<ShutdownPhase, Answers>>
      BY <1>1 DEF BeginAdmits, Refuses, ShutdownPhase, Answers
    <2>2. o \notin active
      BY <1>1 DEF BeginAdmits, IInv, ActiveInv, Admitted
    <2>3. Contract!Admit(o)
      BY <1>1, <2>1, <2>2 DEF BeginAdmits, Contract!Admit
    <2> QED
      BY <2>3 DEF Contract!ContractNext
  <1>2. CASE Finish(o)
    <2>1. UNCHANGED <<ShutdownPhase, Answers>>
      BY <1>2 DEF Finish, ShutdownPhase, Answers
    <2>2. o \in active
      BY <1>2 DEF Finish, IInv, ActiveInv, Admitted
    <2>3. Contract!Leave(o)
      BY <1>2, <2>1, <2>2 DEF Finish, Contract!Leave
    <2> QED
      BY <2>3 DEF Contract!ContractNext
  <1>3. CASE UNCHANGED <<stateVars, closerVars>>
    BY <1>3, ViewKept
  <1> QED
    BY <1>1, <1>2, <1>3
    DEF CallerCancels, CheckContext, BodyReturns, OpStep, BeginRefused, TakeGate,
        LeaveGate, CheckGated, Outcome, ReturnGate

\* Steps of a Close call: the first critical section shuts, the start of the
\* callback releases, the last critical section settles and a joining call
\* reports; waiting and cancelling are not seen.
LEMMA CloserKeepsContract ==
  ASSUME IInv, NEW c \in Closers,
         CloseBegins(c) \/ CloseJoins(c) \/ CloseStep(c)
  PROVE  Contract!ContractNext \/ UNCHANGED Contract!contractVars
  <1> USE DEF stateVars, opVars, closerVars
  <1>0. /\ closed \in BOOLEAN /\ releases \in Nat
        /\ closePc \in [Closers -> ClosePcs]
        /\ closeResult \in [Closers -> Errs \cup {NoErr}]
        /\ relErr \in [Closers -> Errs \cup {NoErr}]
    BY DEF IInv, TypeOK
  <1>1. CASE CloseBegins(c)
    <2>1. releases = 0
      BY <1>1 DEF CloseBegins, ShutdownBegun, IInv, LeaderInv, ReleaseInv
    <2>2. ShutdownPhase = "open" /\ ShutdownPhase' = "closing"
      BY <1>1, <2>1 DEF CloseBegins, ShutdownBegun, ShutdownPhase
    <2>3. Answers' = Answers
      BY <1>0, <1>1 DEF CloseBegins, Answers
    <2>4. Contract!Shut
      BY <1>1, <2>2, <2>3 DEF CloseBegins, Contract!Shut
    <2> QED
      BY <2>4 DEF Contract!ContractNext
  <1>2. CASE ReleaseStarts(c)
    <2>1. releases = 0 /\ active = {} /\ closed /\ closeDone = "open"
      BY <1>2 DEF ReleaseStarts, IInv, LeaderInv, ReleaseInv, DrainInv, LeaderPcs
    <2>2. ShutdownPhase = "closing" /\ ShutdownPhase' = "released"
      BY <1>2, <2>1 DEF ReleaseStarts, ShutdownPhase
    <2>3. Answers' = Answers
      BY <1>0, <1>2 DEF ReleaseStarts, Answers
    <2>4. Contract!Release
      BY <1>2, <2>1, <2>2, <2>3 DEF ReleaseStarts, Contract!Release
    <2> QED
      BY <2>4 DEF Contract!ContractNext
  <1>3. CASE ClosePublishes(c)
    <2>1. releases = 1 /\ closed /\ closeDone = "open"
      BY <1>3 DEF ClosePublishes, IInv, LeaderInv, ReleaseInv, LeaderPcs
    <2>2. ShutdownPhase = "released" /\ ShutdownPhase' = "settled"
      BY <1>3, <2>1 DEF ClosePublishes, ShutdownPhase
    <2>3. Answers[c] = {} /\ Answers' = [Answers EXCEPT ![c] = {relErr[c]}]
      BY <1>0, <1>3 DEF ClosePublishes, Answers
    <2>4. Contract!Settle(c, relErr[c])
      BY <1>3, <2>2, <2>3 DEF ClosePublishes, StoredError, Contract!Settle
    <2> QED
      BY <1>0, <2>4 DEF Contract!ContractNext
  <1>4. CASE JoinReads(c)
    <2>1. closed /\ closeDone = "closed"
      BY <1>4 DEF JoinReads, IInv, LeaderInv
    <2>2. ShutdownPhase = "settled" /\ ShutdownPhase' = ShutdownPhase
      BY <1>4, <2>1 DEF JoinReads, ShutdownPhase
    <2>3. Answers[c] = {} /\ Answers' = [Answers EXCEPT ![c] = {closeErr}]
      BY <1>0, <1>4 DEF JoinReads, Answers
    <2>4. Contract!Report(c)
      BY <1>4, <2>2, <2>3 DEF JoinReads, Contract!Report
    <2> QED
      BY <2>4 DEF Contract!ContractNext
  <1>5. CASE CloseJoins(c) \/ (\E o \in Ops : CancelOne(c, o)) \/ CancelsSent(c)
             \/ Drained(c) \/ ReleaseReturns(c) \/ JoinWakes(c)
    <2>1. UNCHANGED <<closed, closeDone, closeErr, active, closeResult, releases>>
      BY <1>5 DEF CloseJoins, CancelOne, CancelsSent, Drained, ReleaseReturns, JoinWakes
    <2>2. \A d \in Closers : closePc'[d] = "returned" <=> closePc[d] = "returned"
      BY <1>0, <1>5
      DEF CloseJoins, CancelOne, CancelsSent, Drained, ReleaseReturns, JoinWakes
    <2> QED
      BY <2>1, <2>2, ViewKept
  <1> QED
    BY <1>1, <1>2, <1>3, <1>4, <1>5 DEF CloseStep

\* The tracker implements its contract: for any number of operations and Close
\* calls, work is admitted until shutdown begins, release starts once and with
\* nothing admitted, and every call of Close returns what release returned.
THEOREM KeepsContract == Spec => ImplementsContract
  <1>1. IInv /\ [Next]_vars => [Contract!ContractNext]_Contract!contractVars
    <2> SUFFICES ASSUME IInv, [Next]_vars
                 PROVE  Contract!ContractNext \/ UNCHANGED Contract!contractVars
      OBVIOUS
    <2>1. CASE UNCHANGED vars
      BY <2>1, ViewKept DEF vars, stateVars, opVars, closerVars
    <2> QED
      BY <2>1, OpKeepsContract, CloserKeepsContract DEF Next
  <1> QED
    BY <1>1, ContractInits, IInvHolds, PTL
    DEF Spec, ImplementsContract, Contract!ContractSpec
=============================================================================
