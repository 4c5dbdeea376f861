-------------------------- MODULE OperationTracker --------------------------
(***************************************************************************)
(* internal/operation/tracker.go, and the way the input backends use it.   *)
(*                                                                         *)
(* A Tracker admits operations, cancels the admitted ones on Close, waits  *)
(* for them to drain and then runs the release callback.  The backends     *)
(* (xtest, uinput, wl-virtual) put every public operation between Begin    *)
(* and its finish callback, and serialise the admitted operations with a   *)
(* gate: a channel that holds one token.                                   *)
(*                                                                         *)
(* A member of Ops is one call of withOperation, a member of Closers one   *)
(* call of Close; each runs on a goroutine of its own.  A step is one      *)
(* critical section of t.mu, one channel operation or one context check.   *)
(* Channels are numbered in the order in which Begin makes them.           *)
(***************************************************************************)
EXTENDS Integers

CONSTANTS
    Ops,        \* calls of withOperation
    Closers,    \* calls of Close
    Errs,       \* errors the release callback may return
    NoErr       \* Go's nil error

ASSUME NoErrIsNotAnError == NoErr \notin Errs

VARIABLES
    closed,      \* t.closed
    closeDone,   \* t.closeDone: "nil", "open" or "closed"
    closeErr,    \* t.closeErr
    active,      \* domain of t.active
    activeDone,  \* t.activeDone: number of the channel, 0 for nil
    made,        \* number of channels Begin has made so far
    drained,     \* channels that finish has closed
    gate,        \* whether the token lies in the operation gate
    cancelled,   \* operations whose opCtx is done
    opPc,        \* where each operation is
    opResult,    \* what each operation has returned
    closePc,     \* where each Close call is
    toCancel,    \* Close: the local slice cancels, as the operations left
    awaits,      \* Close: the local activeDone
    relErr,      \* Close: the local err
    closeResult, \* what each Close call has returned
    releases     \* history: how often a release callback was started

opVars == <<opPc, opResult>>
closerVars == <<closePc, toCancel, awaits, relErr, closeResult, releases>>
stateVars == <<closed, closeDone, closeErr, active, activeDone, made, drained>>
vars == <<stateVars, gate, cancelled, opVars, closerVars>>

OpPcs == {"idle", "begin", "gate", "check", "body", "outcome", "ungate",
          "finish", "returned"}
OpResults == {"none", "ok", "failed", "canceled", "refused"}
ClosePcs == {"idle", "cancel", "drain", "release", "releasing", "publish",
             "join", "read", "returned"}

\* The operations that hold the gate's token.
Gated == {o \in Ops : opPc[o] \in {"check", "body", "outcome", "ungate"}}

\* The operations that Begin has admitted and finish has not removed.
Admitted == {o \in Ops : opPc[o] \in {"gate", "check", "body", "outcome",
                                      "ungate", "finish"}}

Init ==
    /\ closed = FALSE /\ closeDone = "nil" /\ closeErr = NoErr
    /\ active = {} /\ activeDone = 0 /\ made = 0 /\ drained = {}
    /\ gate = TRUE
    /\ cancelled = {}
    /\ opPc = [o \in Ops |-> "idle"]
    /\ opResult = [o \in Ops |-> "none"]
    /\ closePc = [c \in Closers |-> "idle"]
    /\ toCancel = [c \in Closers |-> {}]
    /\ awaits = [c \in Closers |-> 0]
    /\ relErr = [c \in Closers |-> NoErr]
    /\ closeResult = [c \in Closers |-> NoErr]
    /\ releases = 0

-----------------------------------------------------------------------------
(* The caller of an operation.                                             *)

\* The caller's context is cancelled or its deadline passes.  It is the
\* parent of opCtx, so opCtx is done as well.  A caller may cancel at any
\* time, and usually does once more after its call has returned.
CallerCancels(o) ==
    /\ cancelled' = cancelled \cup {o}
    /\ UNCHANGED <<stateVars, gate, opVars, closerVars>>

\* The context check that withOperation and Begin make before the lock.
CheckContext(o) ==
    /\ opPc[o] = "idle"
    /\ IF o \in cancelled
       THEN /\ opPc' = [opPc EXCEPT ![o] = "returned"]
            /\ opResult' = [opResult EXCEPT ![o] = "canceled"]
       ELSE /\ opPc' = [opPc EXCEPT ![o] = "begin"]
            /\ UNCHANGED opResult
    /\ UNCHANGED <<stateVars, gate, cancelled, closerVars>>

-----------------------------------------------------------------------------
(* Begin and finish.                                                       *)

\* if t.closed, in Begin.
Refuses == closed

\* if len(t.active) == 0, in Begin.
NeedsChannel == active = {}

\* Begin's critical section finds the tracker closed.
BeginRefused(o) ==
    /\ opPc[o] = "begin"
    /\ Refuses
    /\ opPc' = [opPc EXCEPT ![o] = "returned"]
    /\ opResult' = [opResult EXCEPT ![o] = "refused"]
    /\ UNCHANGED <<stateVars, gate, cancelled, closerVars>>

\* Begin's critical section admits the operation; the first one in an empty
\* set of active operations makes the channel that its drain will close.
BeginAdmits(o) ==
    /\ opPc[o] = "begin"
    /\ ~Refuses
    /\ IF NeedsChannel
       THEN made' = made + 1 /\ activeDone' = made + 1
       ELSE UNCHANGED <<made, activeDone>>
    /\ active' = active \cup {o}
    /\ opPc' = [opPc EXCEPT ![o] = "gate"]
    /\ UNCHANGED <<closed, closeDone, closeErr, drained, gate, cancelled,
                   opResult, closerVars>>

\* The finish callback, run once: cancel opCtx, then leave under the lock.
Finish(o) ==
    /\ opPc[o] = "finish"
    /\ cancelled' = cancelled \cup {o}
    /\ active' = active \ {o}
    /\ IF active \ {o} = {}
       THEN drained' = drained \cup {activeDone} /\ activeDone' = 0
       ELSE UNCHANGED <<drained, activeDone>>
    /\ opPc' = [opPc EXCEPT ![o] = "returned"]
    /\ UNCHANGED <<closed, closeDone, closeErr, made, gate, opResult,
                   closerVars>>

-----------------------------------------------------------------------------
(* withOperation between Begin and finish.                                 *)

\* select: the gate's token is there.
TakeGate(o) ==
    /\ opPc[o] = "gate"
    /\ gate
    /\ gate' = FALSE
    /\ opPc' = [opPc EXCEPT ![o] = "check"]
    /\ UNCHANGED <<stateVars, cancelled, opResult, closerVars>>

\* select: opCtx is done.  When both are ready Go chooses either.
LeaveGate(o) ==
    /\ opPc[o] = "gate"
    /\ o \in cancelled
    /\ opPc' = [opPc EXCEPT ![o] = "finish"]
    /\ opResult' = [opResult EXCEPT ![o] = "canceled"]
    /\ UNCHANGED <<stateVars, gate, cancelled, closerVars>>

\* opCtx.Err() is read again once the token is held.
CheckGated(o) ==
    /\ opPc[o] = "check"
    /\ IF o \in cancelled
       THEN /\ opPc' = [opPc EXCEPT ![o] = "ungate"]
            /\ opResult' = [opResult EXCEPT ![o] = "canceled"]
       ELSE /\ opPc' = [opPc EXCEPT ![o] = "body"]
            /\ UNCHANGED opResult
    /\ UNCHANGED <<stateVars, gate, cancelled, closerVars>>

\* fn(opCtx), which uses the device, returns: nil, or an error of its own.
BodyReturns(o) ==
    /\ opPc[o] = "body"
    /\ opPc' = [opPc EXCEPT ![o] = "outcome"]
    /\ \E r \in {"ok", "failed"} : opResult' = [opResult EXCEPT ![o] = r]
    /\ UNCHANGED <<stateVars, gate, cancelled, closerVars>>

\* errors.Join(fn(opCtx), contextOutcome(opCtx)): a done context is reported
\* whatever fn returned.
JoinedOutcome(o) == IF o \in cancelled THEN "canceled" ELSE opResult[o]

Outcome(o) ==
    /\ opPc[o] = "outcome"
    /\ opPc' = [opPc EXCEPT ![o] = "ungate"]
    /\ opResult' = [opResult EXCEPT ![o] = JoinedOutcome(o)]
    /\ UNCHANGED <<stateVars, gate, cancelled, closerVars>>

\* The first deferred call to run puts the token back; finish comes next.
ReturnGate(o) ==
    /\ opPc[o] = "ungate"
    /\ gate' = TRUE
    /\ opPc' = [opPc EXCEPT ![o] = "finish"]
    /\ UNCHANGED <<stateVars, cancelled, opResult, closerVars>>

-----------------------------------------------------------------------------
(* Close.                                                                  *)

\* if t.closed, in Close.
ShutdownBegun == closed

\* Mutant of CancelSnapshot: the cancel functions are not collected.
CancelNothing == {}

\* The cancel functions Close copies out of t.active.
CancelSnapshot == active

\* The channel Close copies out of t.activeDone.
DrainSnapshot == activeDone

\* Mutant of DrainObserved: Close does not wait for admitted operations.
DrainIgnored(c) == TRUE

\* What <-activeDone waits for; nothing when the channel is nil.
DrainObserved(c) == awaits[c] # 0 => awaits[c] \in drained

\* Mutant of StoredError: the result is returned but never stored.
ErrorForgotten(c) == closeErr

\* What Close stores in t.closeErr for the calls that joined it.
StoredError(c) == relErr[c]

\* What <-done waits for.
CloseObserved == closeDone = "closed"

\* First critical section of the call that begins the shutdown.
CloseBegins(c) ==
    /\ closePc[c] = "idle"
    /\ ~ShutdownBegun
    /\ closed' = TRUE
    /\ closeDone' = "open"
    /\ awaits' = [awaits EXCEPT ![c] = DrainSnapshot]
    /\ toCancel' = [toCancel EXCEPT ![c] = CancelSnapshot]
    /\ closePc' = [closePc EXCEPT ![c] = "cancel"]
    /\ UNCHANGED <<closeErr, active, activeDone, made, drained, gate,
                   cancelled, opVars, relErr, closeResult, releases>>

\* First critical section of a call that finds the shutdown begun.
CloseJoins(c) ==
    /\ closePc[c] = "idle"
    /\ ShutdownBegun
    /\ closePc' = [closePc EXCEPT ![c] = "join"]
    /\ UNCHANGED <<stateVars, gate, cancelled, opVars, toCancel, awaits,
                   relErr, closeResult, releases>>

\* One call of the loop over cancels; the order of a Go map is arbitrary.
CancelOne(c, o) ==
    /\ closePc[c] = "cancel"
    /\ o \in toCancel[c]
    /\ cancelled' = cancelled \cup {o}
    /\ toCancel' = [toCancel EXCEPT ![c] = @ \ {o}]
    /\ UNCHANGED <<stateVars, gate, opVars, closePc, awaits, relErr,
                   closeResult, releases>>

CancelsSent(c) ==
    /\ closePc[c] = "cancel"
    /\ toCancel[c] = {}
    /\ closePc' = [closePc EXCEPT ![c] = "drain"]
    /\ UNCHANGED <<stateVars, gate, cancelled, opVars, toCancel, awaits,
                   relErr, closeResult, releases>>

\* <-activeDone, skipped when nothing was active.
Drained(c) ==
    /\ closePc[c] = "drain"
    /\ DrainObserved(c)
    /\ closePc' = [closePc EXCEPT ![c] = "release"]
    /\ UNCHANGED <<stateVars, gate, cancelled, opVars, toCancel, awaits,
                   relErr, closeResult, releases>>

\* The release callback runs without the lock: it starts ...
ReleaseStarts(c) ==
    /\ closePc[c] = "release"
    /\ releases' = releases + 1
    /\ closePc' = [closePc EXCEPT ![c] = "releasing"]
    /\ UNCHANGED <<stateVars, gate, cancelled, opVars, toCancel, awaits,
                   relErr, closeResult>>

\* ... and returns nil or an error.
ReleaseReturns(c) ==
    /\ closePc[c] = "releasing"
    /\ \E e \in Errs \cup {NoErr} : relErr' = [relErr EXCEPT ![c] = e]
    /\ closePc' = [closePc EXCEPT ![c] = "publish"]
    /\ UNCHANGED <<stateVars, gate, cancelled, opVars, toCancel, awaits,
                   closeResult, releases>>

\* Last critical section: store the error, close the channel, return.
ClosePublishes(c) ==
    /\ closePc[c] = "publish"
    /\ closeErr' = StoredError(c)
    /\ closeDone' = "closed"
    /\ closeResult' = [closeResult EXCEPT ![c] = relErr[c]]
    /\ closePc' = [closePc EXCEPT ![c] = "returned"]
    /\ UNCHANGED <<closed, active, activeDone, made, drained, gate,
                   cancelled, opVars, toCancel, awaits, relErr, releases>>

\* <-done in a joining call.
JoinWakes(c) ==
    /\ closePc[c] = "join"
    /\ CloseObserved
    /\ closePc' = [closePc EXCEPT ![c] = "read"]
    /\ UNCHANGED <<stateVars, gate, cancelled, opVars, toCancel, awaits,
                   relErr, closeResult, releases>>

\* The joining call reads t.closeErr and returns it.
JoinReads(c) ==
    /\ closePc[c] = "read"
    /\ closeResult' = [closeResult EXCEPT ![c] = closeErr]
    /\ closePc' = [closePc EXCEPT ![c] = "returned"]
    /\ UNCHANGED <<stateVars, gate, cancelled, opVars, toCancel, awaits,
                   relErr, releases>>

-----------------------------------------------------------------------------
\* The steps of an operation after it was called, its body apart.
OpStep(o) ==
    \/ BeginRefused(o) \/ BeginAdmits(o) \/ TakeGate(o) \/ LeaveGate(o)
    \/ CheckGated(o) \/ Outcome(o) \/ ReturnGate(o) \/ Finish(o)

\* The steps of a Close call after its first critical section.
CloseStep(c) ==
    \/ \E o \in Ops : CancelOne(c, o)
    \/ CancelsSent(c) \/ Drained(c) \/ ReleaseStarts(c) \/ ReleaseReturns(c)
    \/ ClosePublishes(c) \/ JoinWakes(c) \/ JoinReads(c)

Next ==
    \/ \E o \in Ops :
          CallerCancels(o) \/ CheckContext(o) \/ BodyReturns(o) \/ OpStep(o)
    \/ \E c \in Closers : CloseBegins(c) \/ CloseJoins(c) \/ CloseStep(c)

\* A goroutine that can move does, and release returns.  Nobody is obliged
\* to call, to cancel or to close, and fn may block on the protocol for as
\* long as its context is live: it is only known to return once cancelled.
Fairness ==
    /\ \A o \in Ops : WF_vars(OpStep(o))
    /\ \A o \in Ops : WF_vars(o \in cancelled /\ BodyReturns(o))
    /\ \A c \in Closers : WF_vars(CloseStep(c))

Spec == Init /\ [][Next]_vars /\ Fairness

-----------------------------------------------------------------------------
TypeOK ==
    /\ closed \in BOOLEAN
    /\ closeDone \in {"nil", "open", "closed"}
    /\ closeErr \in Errs \cup {NoErr}
    /\ active \subseteq Ops
    /\ activeDone \in Nat
    /\ made \in Nat
    /\ drained \subseteq Nat
    /\ gate \in BOOLEAN
    /\ cancelled \subseteq Ops
    /\ opPc \in [Ops -> OpPcs]
    /\ opResult \in [Ops -> OpResults]
    /\ closePc \in [Closers -> ClosePcs]
    /\ toCancel \in [Closers -> SUBSET Ops]
    /\ awaits \in [Closers -> Nat]
    /\ relErr \in [Closers -> Errs \cup {NoErr}]
    /\ closeResult \in [Closers -> Errs \cup {NoErr}]
    /\ releases \in Nat

\* Tracker.Close "drains existing operations, and runs release exactly once"
\* (tracker.go:74): once a release callback has started no operation is
\* between Begin and finish, so none can touch the device or the connection
\* that release tears down.
ReleaseAfterDrain == releases > 0 => Admitted = {}

\* However many goroutines call Close, at most one release callback starts,
\* and every call that has returned did so after it.
ReleaseOnce ==
    /\ releases <= 1
    /\ (\E c \in Closers : closePc[c] = "returned") => releases = 1

\* "Concurrent callers receive the same close error" (tracker.go:75).
CloseAgreement ==
    \A c, d \in Closers :
        closePc[c] = "returned" /\ closePc[d] = "returned"
            => closeResult[c] = closeResult[d]

\* finish closes a channel that is neither nil nor closed already: either
\* would panic in Go.
NoChannelPanic ==
    \A o \in Ops : opPc[o] = "finish" /\ active = {o}
        => activeDone # 0 /\ activeDone \notin drained

\* At most one operation is inside the gate, and the token is never lost or
\* duplicated: it lies in the channel exactly when nobody holds it.
GateToken ==
    /\ \A o, p \in Gated : o = p
    /\ gate <=> Gated = {}

\* Begin "refuses new work as soon as shutdown begins" (tracker.go:26): from
\* then on the set of active operations only shrinks.
AdmissionSealed == [][closed => active' \subseteq active]_vars

\* A Close call has called the cancel functions it copied.
CancelsAreSent ==
    \E c \in Closers :
        closePc[c] \in {"drain", "release", "releasing", "publish", "returned"}

\* Close "cancels and drains existing operations" (tracker.go:74): from the
\* moment it waits for them, an operation does not begin to use the device any
\* more, whether it was then waiting for the gate or about to look at its
\* context, and one that was using the device does not report success
\* ("success must not be reported after an operation has lost its lifetime",
\* uinput.go:197).  Every operation between Begin and finish has to be among
\* those that Close copied, and none may be admitted behind its back.
ShutdownEndsWork ==
    [][CancelsAreSent => \A o \in Ops :
          /\ opPc[o] # "body" => opPc'[o] # "body"
          /\ opPc[o] = "outcome" /\ opPc'[o] = "ungate"
                => opResult'[o] # "ok"]_vars

\* No call is under way that has to return: every Close call, whatever the
\* operations were doing when it began (those that wait for the gate leave it,
\* the one inside finishes), and every operation whose context is cancelled,
\* even while another one occupies the gate for good (withOperation's select).
\* A call is made once and a context stays cancelled, so that all of them
\* return if again and again none is under way.
Quiet ==
    /\ \A c \in Closers : closePc[c] \in {"idle", "returned"}
    /\ \A o \in Ops \cap cancelled : opPc[o] \in {"idle", "returned"}
-----------------------------------------------------------------------------
(* The tracker as its users see it.                                        *)

\* How far the shutdown has come.
ShutdownPhase ==
    IF ~closed THEN "open"
    ELSE IF closeDone = "closed" THEN "settled"
    ELSE IF releases > 0 THEN "released" ELSE "closing"

\* The answers the calls of Close have given.
Answers == [c \in Closers |->
              IF closePc[c] = "returned" THEN {closeResult[c]} ELSE {}]

Contract == INSTANCE TrackerContract
    WITH phase <- ShutdownPhase, working <- active, outcome <- closeErr,
         told <- Answers

\* The critical sections and channels of tracker.go implement the contract in
\* its comments: Begin "refuses new work as soon as shutdown begins"
\* (tracker.go:26), Close "drains existing operations, and runs release
\* exactly once.  Concurrent callers receive the same close error"
\* (tracker.go:74).  Every step of the tracker is a step of TrackerContract
\* or leaves what its users see alone.
ImplementsContract == Contract!ContractSpec
=============================================================================
