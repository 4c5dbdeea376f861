------------------------- MODULE AccessibilityOwner -------------------------
(***************************************************************************)
(* accessibility_owner.go: the owner of a session's accessibility backend. *)
(*                                                                         *)
(* The backend can be replaced while the session lives (reopen).  Every    *)
(* backend is wrapped in a generation that counts the calls leased on it;  *)
(* a replaced generation is retired, and its backend is closed by whoever  *)
(* returns the last lease.  Close retires what is left and waits for all   *)
(* generations.  Persistent event subscriptions outlive generations: the   *)
(* pump of a subscription binds to each new generation in turn, and reopen *)
(* waits until every subscription has done so.                             *)
(*                                                                         *)
(* Every actor is one call on a goroutine of its own; a step is one        *)
(* critical section of o.mu, one lock of epochMu or reopenMu, one channel  *)
(* or context operation, or the return of one call of a backend.  The      *)
(* backends are outside this module: they answer as they like.             *)
(***************************************************************************)
EXTENDS Integers, FiniteSets

CONSTANTS
    Queries,       \* calls through withBackendContext
    Streamers,     \* calls of Events
    Invalidators,  \* calls of Invalidate
    Reopeners,     \* calls of reopen
    Closers,       \* calls of Close
    Subs,          \* calls of eventsAcrossReopens, each with its pump
    Casts,         \* which of these calls are made in one behaviour
    MaxGens,       \* bound: backends ever opened
    MaxNumber      \* bound: number a dispatcher may raise its backend to

ASSUME MaxGensPositive == MaxGens \in Nat \ {0}
ASSUME MaxNumberNat == MaxNumber \in Nat
ASSUME CastsAreCalls ==
    Casts \subseteq SUBSET (Queries \cup Streamers \cup Invalidators
                            \cup Reopeners \cup Closers \cup Subs)

VARIABLES
    current,       \* o.current: a generation, 0 for nil
    retired,       \* generations with retired set, retiredCh closed, ctx done
    active,        \* gen.active
    closeStarted,  \* generations with closeStarted set
    generations,   \* o.generations
    genDone,       \* generations whose closeDone is closed
    closeErrors,   \* o.closeErrors, as the generations that failed to close
    closed,        \* o.closed
    ownerDone,     \* o.closeDone: "nil", "open" or "closed"
    closeErr,      \* o.closeErr
    sessionClosed, \* session.closed
    sessionDone,   \* whether session.ctx is done
    epochMu,       \* holder of o.epochMu, "free" if nobody
    reopenMu,      \* holder of o.reopenMu
    capability,    \* whether session.capabilities reports accessibility
    born,          \* backends opened so far; generation n wraps backend n
    number,        \* Generation() of each backend
    dispatching,   \* backends whose event dispatcher runs
    backendCloses, \* how often Close was called on each backend
    handles,       \* history: <<backend, number>> of the node handles issued
    pc, lease, closing, result, cancelled,    \* every actor
    refLease, ret,                            \* inside refreshCapabilities
    fresh, waits,                             \* reopen
    holds, awaited,                           \* Close
    eventSubs, bound, mine, bindDone, subDone,\* subscriptions
    settled        \* history: newest generation a successful reopen installed

ownerVars == <<current, retired, active, closeStarted, generations, genDone,
               closeErrors>>
closeVars == <<closed, ownerDone, closeErr>>
sessionVars == <<sessionClosed, sessionDone>>
muVars == <<epochMu, reopenMu>>
backendVars == <<born, number, dispatching, backendCloses, handles>>
refVars == <<refLease, ret>>
reopenVars == <<fresh, waits, settled>>
closerVars == <<holds, awaited>>
subVars == <<eventSubs, bound, mine, bindDone, subDone>>
vars == <<ownerVars, closeVars, sessionVars, muVars, capability, backendVars,
          pc, lease, closing, result, cancelled, refVars, reopenVars,
          closerVars, subVars>>

Gens == 1..MaxGens
Actors == Queries \cup Streamers \cup Invalidators \cup Reopeners
             \cup Closers \cup Subs

\* Every call is made once, on a goroutine of its own.
ASSUME ActorsFinite == IsFiniteSet(Actors)
ASSUME KindsDiffer ==
    /\ (Queries \cup Streamers)
          \cap (Invalidators \cup Reopeners \cup Closers \cup Subs) = {}
    /\ Invalidators \cap (Reopeners \cup Closers \cup Subs) = {}
    /\ Reopeners \cap (Closers \cup Subs) = {}
    /\ Closers \cap Subs = {}

\* The value of epochMu and reopenMu when no call holds them.
ASSUME FreeIsNobody == "free" \notin Actors

\* Open has installed the first backend; nothing else has happened yet.
Init ==
    /\ current = 1 /\ retired = {} /\ active = [g \in Gens |-> 0]
    /\ closeStarted = {} /\ generations = {1} /\ genDone = {}
    /\ closeErrors = {}
    /\ closed = FALSE /\ ownerDone = "nil" /\ closeErr = {}
    /\ sessionClosed = FALSE /\ sessionDone = FALSE
    /\ epochMu = "free" /\ reopenMu = "free"
    /\ capability = TRUE
    /\ born = 1 /\ number = [g \in Gens |-> 0] /\ dispatching = {1}
    /\ backendCloses = [g \in Gens |-> 0] /\ handles = {}
    /\ \E cast \in Casts :
          pc = [a \in Actors |-> IF a \in cast THEN "idle" ELSE "absent"]
    /\ lease = [a \in Actors |-> 0]
    /\ closing = [a \in Actors |-> 0]
    /\ result = [a \in Actors |-> "none"]
    /\ cancelled = {}
    /\ refLease = [a \in Actors |-> 0] /\ ret = [a \in Actors |-> "none"]
    /\ fresh = [r \in Reopeners |-> 0] /\ waits = [r \in Reopeners |-> {}]
    /\ holds = [c \in Closers |-> {}] /\ awaited = [c \in Closers |-> {}]
    /\ eventSubs = {} /\ bound = [s \in Subs |-> 0]
    /\ mine = [s \in Subs |-> 0] /\ bindDone = {} /\ subDone = {}
    /\ settled = 0

-----------------------------------------------------------------------------
(* Steps every actor shares.                                               *)

\* a is at one place in its code, not busy closing a generation, and moves.
Moves(a, from, to) ==
    /\ pc[a] = from
    /\ closing[a] = 0
    /\ pc' = [pc EXCEPT ![a] = to]

\* The conditions of acquire and of acquireGeneration(gen).
CanAcquire == ~closed /\ current # 0 /\ current \notin retired
CanAcquireGen(gen) == CanAcquire /\ current = gen

\* Under o.mu: one more call on generation g.
Pin(g) == active' = [active EXCEPT ![g] = @ + 1]

\* retireLocked for a generation somebody holds a lease on, so that it never
\* starts the close itself.
RetirePinned(gs) == retired' = retired \cup gs

\* Mutant of LastLease: other leases are not looked at.
AnyLease(g) == g \in retired /\ g \notin closeStarted

\* closeNow in releaseGeneration.
LastLease(g) == g \in retired /\ active[g] = 1 /\ g \notin closeStarted

\* releaseGeneration: the last lease of a retired generation closes it.
ReleaseGen(a, g) ==
    /\ active' = [active EXCEPT ![g] = @ - 1]
    /\ IF LastLease(g)
       THEN /\ closeStarted' = closeStarted \cup {g}
            /\ backendCloses' = [backendCloses EXCEPT ![g] = @ + 1]
            /\ closing' = [closing EXCEPT ![a] = g]
       ELSE UNCHANGED <<closeStarted, backendCloses, closing>>
    /\ UNCHANGED <<current, retired, generations, genDone, closeErrors>>

\* Mutant of DoneWith: closeDone is not closed.
DoneWithoutSignal(g) == genDone

\* close(gen.closeDone)
DoneWith(g) == genDone \cup {g}

\* The second half of closeGeneration: backend.Close has returned.
CloseGeneration(a) ==
    /\ closing[a] # 0
    /\ generations' = generations \ {closing[a]}
    /\ genDone' = DoneWith(closing[a])
    /\ \/ closeErrors' = closeErrors
       \/ closeErrors' = closeErrors \cup {closing[a]}
    /\ closing' = [closing EXCEPT ![a] = 0]
    /\ UNCHANGED <<current, retired, active, closeStarted, closeVars,
                   sessionVars, muVars, capability, backendVars, pc, lease,
                   result, cancelled, refVars, reopenVars, closerVars,
                   subVars>>

\* The deferred lease.release() at the end of a call.
Release(a, from, to) ==
    /\ Moves(a, from, to)
    /\ ReleaseGen(a, lease[a])
    /\ lease' = [lease EXCEPT ![a] = 0]
    /\ UNCHANGED <<closeVars, sessionVars, muVars, capability, born, number,
                   dispatching, handles, result, cancelled, refVars,
                   reopenVars, closerVars, subVars>>

\* A caller's context is cancelled, before, during or after the call.
Cancel(a) ==
    /\ a \notin Closers \cup Invalidators /\ pc[a] # "absent"
    /\ cancelled' = cancelled \cup {a}
    /\ UNCHANGED <<ownerVars, closeVars, sessionVars, muVars, capability,
                   backendVars, pc, lease, closing, result, refVars,
                   reopenVars, closerVars, subVars>>

\* refreshCapabilities takes a lease, or returns when there is none to take.
RefreshAcquire(a) ==
    /\ IF CanAcquire
       THEN /\ Moves(a, "refresh", "write")
            /\ Pin(current)
            /\ refLease' = [refLease EXCEPT ![a] = current]
       ELSE /\ Moves(a, "refresh", ret[a])
            /\ UNCHANGED <<active, refLease>>
    /\ UNCHANGED <<current, retired, closeStarted, generations, genDone,
                   closeErrors, closeVars, sessionVars, muVars, capability,
                   backendVars, lease, closing, result, cancelled, ret,
                   reopenVars, closerVars, subVars>>

\* The recheck of refreshCapabilities under o.mu.
StillCurrent(g) == ~closed /\ current = g

\* Mutant of RefreshValid: only a closed owner is noticed.
RefreshUnlessClosed(a) == ~closed

RefreshValid(a) == StillCurrent(refLease[a])

\* refreshCapabilities publishes only for the generation it inspected.
RefreshWrite(a) ==
    /\ Moves(a, "write", "unpin")
    /\ capability' = IF RefreshValid(a) THEN TRUE ELSE capability
    /\ UNCHANGED <<ownerVars, closeVars, sessionVars, muVars, backendVars,
                   lease, closing, result, cancelled, refVars, reopenVars,
                   closerVars, subVars>>

RefreshRelease(a) ==
    /\ Moves(a, "unpin", ret[a])
    /\ ReleaseGen(a, refLease[a])
    /\ refLease' = [refLease EXCEPT ![a] = 0]
    /\ UNCHANGED <<closeVars, sessionVars, muVars, capability, born, number,
                   dispatching, handles, lease, result, cancelled, ret,
                   reopenVars, closerVars, subVars>>

-----------------------------------------------------------------------------
(* Calls: withBackendContext and Events.                                   *)

\* acquire, for a query or a stream.
Acquire(a) ==
    /\ IF CanAcquire
       THEN /\ Moves(a, "idle", IF a \in Queries THEN "precheck" ELSE "call")
            /\ Pin(current)
            /\ lease' = [lease EXCEPT ![a] = current]
            /\ UNCHANGED result
       ELSE /\ Moves(a, "idle", "returned")
            /\ result' = [result EXCEPT ![a] = "disconnected"]
            /\ UNCHANGED <<active, lease>>
    /\ UNCHANGED <<current, retired, closeStarted, generations, genDone,
                   closeErrors, closeVars, sessionVars, muVars, capability,
                   backendVars, closing, cancelled, refVars, reopenVars,
                   closerVars, subVars>>

\* The checks before the call.  context.AfterFunc cancels callCtx from a
\* goroutine of its own, so a retirement may not show in it yet.
Precheck(a) ==
    /\ \/ /\ a \in cancelled \/ sessionDone \/ lease[a] \in retired
          /\ Moves(a, "precheck", "release")
          /\ result' = [result EXCEPT ![a] = "canceled"]
       \/ /\ a \notin cancelled /\ ~sessionDone
          /\ Moves(a, "precheck", "call")
          /\ UNCHANGED result
    /\ UNCHANGED <<ownerVars, closeVars, sessionVars, muVars, capability,
                   backendVars, lease, closing, cancelled, refVars,
                   reopenVars, closerVars, subVars>>

\* The backend answers, with nodes that carry its current number or with an
\* error.
CallReturns(a) ==
    /\ Moves(a, "call", "postcheck")
    /\ \/ /\ result' = [result EXCEPT ![a] = "ok"]
          /\ handles' = handles \cup {<<lease[a], number[lease[a]]>>}
       \/ /\ result' = [result EXCEPT ![a] = "failed"]
          /\ UNCHANGED handles
    /\ UNCHANGED <<ownerVars, closeVars, sessionVars, muVars, capability,
                   born, number, dispatching, backendCloses, lease, closing,
                   cancelled, refVars, reopenVars, closerVars, subVars>>

\* What withBackendContext returns once the call has ended: the caller's
\* cancellation and the end of the session replace any answer, retirement
\* of the generation does not.
QueryOutcome(a) ==
    IF a \in cancelled \/ sessionDone THEN "canceled" ELSE result[a]

QueryPostcheck(a) ==
    /\ a \in Queries
    /\ Moves(a, "postcheck", "release")
    /\ result' = [result EXCEPT ![a] = QueryOutcome(a)]
    /\ UNCHANGED <<ownerVars, closeVars, sessionVars, muVars, capability,
                   backendVars, lease, closing, cancelled, refVars,
                   reopenVars, closerVars, subVars>>

\* Events: the caller's context, then streamCtx, which learns of a retirement
\* or of the end of the session only when its AfterFunc has run.
StreamPostcheck(a) ==
    /\ a \in Streamers
    /\ Moves(a, "postcheck", "release")
    /\ \/ /\ a \in cancelled
          /\ result' = [result EXCEPT ![a] = "canceled"]
       \/ /\ a \notin cancelled
          /\ sessionDone \/ lease[a] \in retired
          /\ result' = [result EXCEPT ![a] = "disconnected"]
       \/ /\ a \notin cancelled
          /\ UNCHANGED result
    /\ UNCHANGED <<ownerVars, closeVars, sessionVars, muVars, capability,
                   backendVars, lease, closing, cancelled, refVars,
                   reopenVars, closerVars, subVars>>

-----------------------------------------------------------------------------
(* Invalidate, and the backend's own invalidations.                        *)

InvalidateLock(a) ==
    /\ epochMu = "free"
    /\ epochMu' = a
    /\ Moves(a, "idle", "acquire")
    /\ UNCHANGED <<ownerVars, closeVars, sessionVars, reopenMu, capability,
                   backendVars, lease, closing, result, cancelled, refVars,
                   reopenVars, closerVars, subVars>>

InvalidateAcquire(a) ==
    /\ IF CanAcquire
       THEN /\ Moves(a, "acquire", "bump")
            /\ Pin(current)
            /\ lease' = [lease EXCEPT ![a] = current]
       ELSE /\ Moves(a, "acquire", "unlock")
            /\ UNCHANGED <<active, lease>>
    /\ UNCHANGED <<current, retired, closeStarted, generations, genDone,
                   closeErrors, closeVars, sessionVars, muVars, capability,
                   backendVars, closing, result, cancelled, refVars,
                   reopenVars, closerVars, subVars>>

InvalidateCall(a) ==
    /\ Moves(a, "bump", "release")
    /\ number' = [number EXCEPT ![lease[a]] = @ + 1]
    /\ UNCHANGED <<ownerVars, closeVars, sessionVars, muVars, capability,
                   born, dispatching, backendCloses, handles, lease, closing,
                   result, cancelled, refVars, reopenVars, closerVars,
                   subVars>>

InvalidateUnlock(a) ==
    /\ Moves(a, "unlock", "returned")
    /\ epochMu' = "free"
    /\ UNCHANGED <<ownerVars, closeVars, sessionVars, reopenMu, capability,
                   backendVars, lease, closing, result, cancelled, refVars,
                   reopenVars, closerVars, subVars>>

\* The dispatcher of a backend sees an event that revokes all its handles.
\* It runs until RetireEventsForReopen has stopped it or Close is called.
DispatcherInvalidates(g) ==
    /\ g \in dispatching /\ backendCloses[g] = 0
    /\ number[g] < MaxNumber
    /\ number' = [number EXCEPT ![g] = @ + 1]
    /\ UNCHANGED <<ownerVars, closeVars, sessionVars, muVars, capability,
                   born, dispatching, backendCloses, handles, pc, lease,
                   closing, result, cancelled, refVars, reopenVars,
                   closerVars, subVars>>

-----------------------------------------------------------------------------
(* reopen.                                                                 *)

ReopenLock(r) ==
    /\ reopenMu = "free"
    /\ reopenMu' = r
    /\ Moves(r, "idle", "acquire")
    /\ UNCHANGED <<ownerVars, closeVars, sessionVars, epochMu, capability,
                   backendVars, lease, closing, result, cancelled, refVars,
                   reopenVars, closerVars, subVars>>

ReopenAcquire(r) ==
    /\ IF CanAcquire
       THEN /\ Moves(r, "acquire", "open")
            /\ Pin(current)
            /\ lease' = [lease EXCEPT ![r] = current]
            /\ UNCHANGED <<result, reopenMu>>
       ELSE /\ Moves(r, "acquire", "returned")
            /\ reopenMu' = "free"
            /\ result' = [result EXCEPT ![r] = "failed"]
            /\ UNCHANGED <<active, lease>>
    /\ UNCHANGED <<current, retired, closeStarted, generations, genDone,
                   closeErrors, closeVars, sessionVars, epochMu, capability,
                   backendVars, closing, cancelled, refVars, reopenVars,
                   closerVars, subVars>>

\* openFreshBackend: Reopen returned a backend one number past the old one.
OpenFresh(r) ==
    /\ born < MaxGens
    /\ Moves(r, "open", "retire")
    /\ born' = born + 1
    /\ number' = [number EXCEPT ![born + 1] = number[lease[r]] + 1]
    /\ dispatching' = dispatching \cup {born + 1}
    /\ fresh' = [fresh EXCEPT ![r] = born + 1]
    /\ UNCHANGED <<ownerVars, closeVars, sessionVars, muVars, capability,
                   backendCloses, handles, lease, closing, result, cancelled,
                   refVars, waits, settled, closerVars, subVars>>

\* openFreshBackend: Reopen is unsupported, failed or returned nothing.
OpenFails(r) ==
    /\ Moves(r, "open", "unlock")
    /\ result' = [result EXCEPT ![r] = "failed"]
    /\ UNCHANGED <<ownerVars, closeVars, sessionVars, muVars, capability,
                   backendVars, lease, closing, cancelled, refVars,
                   reopenVars, closerVars, subVars>>

\* openFreshBackend: Reopen returned a backend and an error; it is closed.
OpenFailsWithBackend(r) ==
    /\ born < MaxGens
    /\ Moves(r, "open", "unlock")
    /\ born' = born + 1
    /\ backendCloses' = [backendCloses EXCEPT ![born + 1] = @ + 1]
    /\ result' = [result EXCEPT ![r] = "failed"]
    /\ UNCHANGED <<ownerVars, closeVars, sessionVars, muVars, capability,
                   number, dispatching, handles, lease, closing, cancelled,
                   refVars, reopenVars, closerVars, subVars>>

\* retireBeforeReopen: the old dispatcher has stopped.
RetireStops(r) ==
    /\ Moves(r, "retire", "retired")
    /\ dispatching' = dispatching \ {lease[r]}
    /\ UNCHANGED <<ownerVars, closeVars, sessionVars, muVars, capability,
                   born, number, backendCloses, handles, lease, closing,
                   result, cancelled, refVars, reopenVars, closerVars,
                   subVars>>

\* retireBeforeReopen: an error.  A cancelled caller and a closed session
\* give up.  Otherwise it was the timeout, which passes while the dispatcher,
\* out of its loop, deregisters: every subscription is marked limited and
\* the reopen goes on.
RetireFails(r) ==
    /\ IF r \in cancelled \/ sessionClosed
       THEN Moves(r, "retire", "drop") /\ UNCHANGED <<ret, dispatching>>
       ELSE /\ Moves(r, "retire", "refresh")
            /\ ret' = [ret EXCEPT ![r] = "retired"]
            /\ dispatching' = dispatching \ {lease[r]}
    /\ UNCHANGED <<ownerVars, closeVars, sessionVars, muVars, capability,
                   born, number, backendCloses, handles, lease, closing,
                   result, cancelled, refLease, reopenVars, closerVars,
                   subVars>>

\* The last check of retireBeforeReopen.
RetireChecked(r) ==
    /\ Moves(r, "retired", IF r \in cancelled THEN "drop" ELSE "epoch")
    /\ UNCHANGED <<ownerVars, closeVars, sessionVars, muVars, capability,
                   backendVars, lease, closing, result, cancelled, refVars,
                   reopenVars, closerVars, subVars>>

PublishLock(r) ==
    /\ epochMu = "free"
    /\ epochMu' = r
    /\ Moves(r, "epoch", "check")
    /\ UNCHANGED <<ownerVars, closeVars, sessionVars, reopenMu, capability,
                   backendVars, lease, closing, result, cancelled, refVars,
                   reopenVars, closerVars, subVars>>

\* publishFreshBackend: context, then canPublish under o.mu.
PublishCheck(r) ==
    /\ Moves(r, "check", IF r \notin cancelled /\ StillCurrent(lease[r])
                         THEN "advance" ELSE "unepoch")
    /\ UNCHANGED <<ownerVars, closeVars, sessionVars, muVars, capability,
                   backendVars, lease, closing, result, cancelled, refVars,
                   reopenVars, closerVars, subVars>>

\* Mutant of Advanced: an equal number is accepted.
NotBehind(n, old) == n >= old

\* source.Generation() > oldGeneration
Advanced(n, old) == n > old

\* advanceReopenedGeneration: the fresh backend's number must exceed the old
\* one's, if need be after one Invalidate.
Advance(r) ==
    LET old == number[lease[r]]
        n == number[fresh[r]]
    IN  /\ pc[r] = "advance"
        /\ IF Advanced(n, old)
           THEN Moves(r, "advance", "publish") /\ UNCHANGED number
           ELSE /\ number' = [number EXCEPT ![fresh[r]] = n + 1]
                /\ Moves(r, "advance", IF Advanced(n + 1, old)
                                       THEN "publish" ELSE "abandon")
        /\ UNCHANGED <<ownerVars, closeVars, sessionVars, muVars, capability,
                       born, dispatching, backendCloses, handles, lease,
                       closing, result, cancelled, refVars, reopenVars,
                       closerVars, subVars>>

\* abandonCurrentGeneration under o.mu.
Abandon(r) ==
    /\ IF current = lease[r]
       THEN /\ Moves(r, "abandon", "capability")
            /\ current' = 0
            /\ RetirePinned({lease[r]})
       ELSE Moves(r, "abandon", "unepoch") /\ UNCHANGED <<current, retired>>
    /\ UNCHANGED <<active, closeStarted, generations, genDone, closeErrors,
                   closeVars, sessionVars, muVars, capability, backendVars,
                   lease, closing, result, cancelled, refVars, reopenVars,
                   closerVars, subVars>>

\* abandonCurrentGeneration after o.mu: the capability is gone.
AbandonReported(r) ==
    /\ Moves(r, "capability", "unepoch")
    /\ capability' = FALSE
    /\ UNCHANGED <<ownerVars, closeVars, sessionVars, muVars, backendVars,
                   lease, closing, result, cancelled, refVars, reopenVars,
                   closerVars, subVars>>

\* publishReopenedBackend, under lifecycleMu and o.mu: session.closed, then
\* o.closed and o.current, are looked at once more.
MayPublish(r) == ~sessionClosed /\ StillCurrent(lease[r])

\* The fresh backend becomes current, the old generation is retired and
\* every live subscription is given a binding to the new one.
Publish(r) ==
    /\ MayPublish(r)
    /\ Moves(r, "publish", "bind")
    /\ current' = fresh[r]
    /\ generations' = generations \cup {fresh[r]}
    /\ RetirePinned({lease[r]})
    /\ bound' = [s \in Subs |-> IF s \in eventSubs \ subDone
                               THEN fresh[r] ELSE bound[s]]
    /\ waits' = [waits EXCEPT ![r] = eventSubs \ subDone]
    /\ epochMu' = "free"
    /\ UNCHANGED <<active, closeStarted, genDone, closeErrors, closeVars,
                   sessionVars, reopenMu, capability, backendVars, lease,
                   closing, result, cancelled, refVars, fresh, settled,
                   closerVars, eventSubs, mine, bindDone, subDone>>

PublishRefused(r) ==
    /\ ~MayPublish(r)
    /\ Moves(r, "publish", "unepoch")
    /\ UNCHANGED <<ownerVars, closeVars, sessionVars, muVars, capability,
                   backendVars, lease, closing, result, cancelled, refVars,
                   reopenVars, closerVars, subVars>>

PublishUnlock(r) ==
    /\ Moves(r, "unepoch", "drop")
    /\ epochMu' = "free"
    /\ UNCHANGED <<ownerVars, closeVars, sessionVars, reopenMu, capability,
                   backendVars, lease, closing, result, cancelled, refVars,
                   reopenVars, closerVars, subVars>>

\* Mutant of DropFresh: the backend that could not be published is forgotten.
ForgetFresh(r) ==
    /\ Moves(r, "drop", "unlock")
    /\ fresh' = [fresh EXCEPT ![r] = 0]
    /\ result' = [result EXCEPT ![r] = "failed"]
    /\ UNCHANGED <<ownerVars, closeVars, sessionVars, muVars, capability,
                   backendVars, lease, closing, cancelled, refVars, waits,
                   settled, closerVars, subVars>>

\* fresh.Close() of a backend that was not published.
DropFresh(r) ==
    /\ Moves(r, "drop", "unlock")
    /\ backendCloses' = [backendCloses EXCEPT ![fresh[r]] = @ + 1]
    /\ dispatching' = dispatching \ {fresh[r]}
    /\ fresh' = [fresh EXCEPT ![r] = 0]
    /\ result' = [result EXCEPT ![r] = "failed"]
    /\ UNCHANGED <<ownerVars, closeVars, sessionVars, muVars, capability,
                   born, number, handles, lease, closing, cancelled, refVars,
                   waits, settled, closerVars, subVars>>

\* waitBinding returns because the binding or the subscription ended.
BindingDone(r, s) == <<s, fresh[r]>> \in bindDone \/ s \in subDone

\* finishReopen: the next binding is waited for ...
AwaitBinding(r, s) ==
    /\ s \in waits[r]
    /\ BindingDone(r, s)
    /\ Moves(r, "bind", "bind")
    /\ waits' = [waits EXCEPT ![r] = @ \ {s}]
    /\ UNCHANGED <<ownerVars, closeVars, sessionVars, muVars, capability,
                   backendVars, lease, closing, result, cancelled, refVars,
                   fresh, settled, closerVars, subVars>>

\* Mutant of AllBound: reopen does not wait for the subscriptions.
BoundOrNot(r) == TRUE

AllBound(r) == waits[r] = {}

\* ... until all are there or the caller gives up; then the capability is
\* refreshed.
BindingsAwaited(r) ==
    /\ AllBound(r) \/ r \in cancelled
    /\ Moves(r, "bind", "refresh")
    /\ ret' = [ret EXCEPT ![r] = "finish"]
    /\ UNCHANGED <<ownerVars, closeVars, sessionVars, muVars, capability,
                   backendVars, lease, closing, result, cancelled, refLease,
                   reopenVars, closerVars, subVars>>

\* The error finishReopen returns.
FinishReopen(r) ==
    /\ Moves(r, "finish", "unlock")
    /\ IF r \in cancelled \/ sessionClosed
       THEN /\ result' = [result EXCEPT ![r] = "failed"]
            /\ UNCHANGED settled
       ELSE /\ result' = [result EXCEPT ![r] = "ok"]
            /\ settled' = fresh[r]
    /\ UNCHANGED <<ownerVars, closeVars, sessionVars, muVars, capability,
                   backendVars, lease, closing, cancelled, refVars, fresh,
                   waits, closerVars, subVars>>

\* The deferred calls: reopenMu first, then the lease.
ReopenUnlock(r) ==
    /\ Moves(r, "unlock", "release")
    /\ reopenMu' = "free"
    /\ UNCHANGED <<ownerVars, closeVars, sessionVars, epochMu, capability,
                   backendVars, lease, closing, result, cancelled, refVars,
                   reopenVars, closerVars, subVars>>

-----------------------------------------------------------------------------
(* Session.Close reaches the owner after it has marked the session closed  *)
(* and cancelled its context.                                              *)

SessionCloses ==
    /\ ~sessionClosed
    /\ sessionClosed' = TRUE
    /\ UNCHANGED <<ownerVars, closeVars, sessionDone, muVars, capability,
                   backendVars, pc, lease, closing, result, cancelled,
                   refVars, reopenVars, closerVars, subVars>>

SessionCancels ==
    /\ sessionClosed /\ ~sessionDone
    /\ sessionDone' = TRUE
    /\ UNCHANGED <<ownerVars, closeVars, sessionClosed, muVars, capability,
                   backendVars, pc, lease, closing, result, cancelled,
                   refVars, reopenVars, closerVars, subVars>>

\* if !gen.closeStarted, in Close: the generations that are held open until
\* their events are retired.
HeldOnClose == generations \ closeStarted

\* Mutant of AwaitedOnClose: a generation that somebody else is closing is
\* not waited for.
AwaitedIfHeld == HeldOnClose

\* gens, in Close: the generations it waits for.
AwaitedOnClose == generations

\* First critical section of Close.
CloseBegins(c) ==
    /\ sessionDone /\ ~closed
    /\ Moves(c, "idle", "retire")
    /\ closed' = TRUE
    /\ ownerDone' = "open"
    /\ current' = 0
    /\ active' = [g \in Gens |-> IF g \in HeldOnClose THEN active[g] + 1
                                 ELSE active[g]]
    /\ RetirePinned(HeldOnClose)
    /\ holds' = [holds EXCEPT ![c] = HeldOnClose]
    /\ awaited' = [awaited EXCEPT ![c] = AwaitedOnClose]
    /\ UNCHANGED <<closeStarted, generations, genDone, closeErrors, closeErr,
                   sessionVars, muVars, capability, backendVars, lease,
                   closing, result, cancelled, refVars, reopenVars, subVars>>

\* retireEvents for one held generation, then the hold is released.
CloseRetires(c, g) ==
    /\ g \in holds[c]
    /\ Moves(c, "retire", "retire")
    /\ ReleaseGen(c, g)
    /\ dispatching' = dispatching \ {g}
    /\ holds' = [holds EXCEPT ![c] = @ \ {g}]
    /\ UNCHANGED <<closeVars, sessionVars, muVars, capability, born, number,
                   handles, lease, result, cancelled, refVars, reopenVars,
                   awaited, subVars>>

\* <-gen.closeDone, for every generation Close found.
GensClosed(c) == awaited[c] \subseteq genDone

\* Last critical section of Close.
CloseEnds(c) ==
    /\ holds[c] = {}
    /\ GensClosed(c)
    /\ Moves(c, "retire", "returned")
    /\ closeErr' = closeErrors
    /\ ownerDone' = "closed"
    /\ result' = [result EXCEPT ![c] = "ok"]
    /\ UNCHANGED <<ownerVars, closed, sessionVars, muVars, capability,
                   backendVars, lease, closing, cancelled, refVars,
                   reopenVars, closerVars, subVars>>

\* A Close call that finds the owner closed waits for the first one.
CloseJoins(c) ==
    /\ closed /\ ownerDone = "closed"
    /\ Moves(c, "idle", "returned")
    /\ result' = [result EXCEPT ![c] = "ok"]
    /\ UNCHANGED <<ownerVars, closeVars, sessionVars, muVars, capability,
                   backendVars, lease, closing, cancelled, refVars,
                   reopenVars, closerVars, subVars>>

-----------------------------------------------------------------------------
(* Persistent subscriptions: eventsAcrossReopens and the pump.             *)

\* eventsAcrossReopens under o.mu.
Subscribe(s) ==
    /\ IF s \in cancelled \/ closed \/ current = 0
       THEN /\ Moves(s, "idle", "returned")
            /\ UNCHANGED <<eventSubs, bound, mine>>
       ELSE /\ Moves(s, "idle", "open")
            /\ eventSubs' = eventSubs \cup {s}
            /\ bound' = [bound EXCEPT ![s] = current]
            /\ mine' = [mine EXCEPT ![s] = current]
    /\ UNCHANGED <<ownerVars, closeVars, sessionVars, muVars, capability,
                   backendVars, lease, closing, result, cancelled, refVars,
                   reopenVars, closerVars, bindDone, subDone>>

\* openBinding: acquireGeneration(binding.gen).  A failure is recorded as
\* the subscription's limit, which refreshes the capability, and completes
\* the binding.
OpenBinding(s) ==
    /\ IF CanAcquireGen(mine[s])
       THEN /\ Moves(s, "open", "events")
            /\ Pin(mine[s])
            /\ lease' = [lease EXCEPT ![s] = mine[s]]
            /\ UNCHANGED <<ret, result>>
       ELSE /\ Moves(s, "open", "refresh")
            /\ ret' = [ret EXCEPT ![s] = "complete"]
            /\ result' = [result EXCEPT ![s] = "failed"]
            /\ UNCHANGED <<active, lease>>
    /\ UNCHANGED <<current, retired, closeStarted, generations, genDone,
                   closeErrors, closeVars, sessionVars, muVars, capability,
                   backendVars, closing, cancelled, refLease, reopenVars,
                   closerVars, subVars>>

\* source.Events returns a stream or an error; then lease.release().
EventsReturn(s) ==
    /\ Moves(s, "events", "unlease")
    /\ \E r \in {"stream", "failed"} : result' = [result EXCEPT ![s] = r]
    /\ UNCHANGED <<ownerVars, closeVars, sessionVars, muVars, capability,
                   backendVars, lease, closing, cancelled, refVars,
                   reopenVars, closerVars, subVars>>

\* The checks of openBinding after the call: the caller, streamCtx (which may
\* not show a retirement yet), the provider's error and isCurrent under o.mu.
BindingAccepted(s) ==
    /\ s \notin cancelled
    /\ result[s] = "stream"
    /\ StillCurrent(mine[s])

VerifyBinding(s) ==
    /\ Moves(s, "verify", "refresh")
    /\ ret' = [ret EXCEPT ![s] = "complete"]
    /\ \/ /\ BindingAccepted(s)
          /\ UNCHANGED result
       \/ /\ ~BindingAccepted(s) \/ sessionDone
          /\ result' = [result EXCEPT ![s] = "failed"]
    /\ UNCHANGED <<ownerVars, closeVars, sessionVars, muVars, capability,
                   backendVars, lease, closing, cancelled, refLease,
                   reopenVars, closerVars, subVars>>

\* binding.complete, after the limit was recorded.
CompleteBinding(s) ==
    /\ Moves(s, "complete", IF result[s] = "stream" THEN "forward" ELSE "next")
    /\ bindDone' = bindDone \cup {<<s, mine[s]>>}
    /\ UNCHANGED <<ownerVars, closeVars, sessionVars, muVars, capability,
                   backendVars, lease, closing, result, cancelled, refVars,
                   reopenVars, closerVars, eventSubs, bound, mine, subDone>>

\* forwardGeneration, select: the caller is done, or the generation retired.
\* With more than one case ready Go picks any.
ForwardEnds(s) ==
    /\ \/ s \in cancelled /\ Moves(s, "forward", "finish")
       \/ mine[s] \in retired /\ Moves(s, "forward", "next")
    /\ UNCHANGED <<ownerVars, closeVars, sessionVars, muVars, capability,
                   backendVars, lease, closing, result, cancelled, refVars,
                   reopenVars, closerVars, subVars>>

\* select: the provider closed its stream; the limit is recorded.
StreamEnds(s) ==
    /\ Moves(s, "forward", "refresh")
    /\ ret' = [ret EXCEPT ![s] = "next"]
    /\ UNCHANGED <<ownerVars, closeVars, sessionVars, muVars, capability,
                   backendVars, lease, closing, result, cancelled, refLease,
                   reopenVars, closerVars, subVars>>

\* select: an event arrives.
TakeEvent(s) ==
    /\ Moves(s, "forward", "event")
    /\ UNCHANGED <<ownerVars, closeVars, sessionVars, muVars, capability,
                   backendVars, lease, closing, result, cancelled, refVars,
                   reopenVars, closerVars, subVars>>

\* isCurrent under o.mu: events of a replaced generation are dropped.
EventIsCurrent(s) == StillCurrent(mine[s])

CheckEvent(s) ==
    /\ Moves(s, "event", IF EventIsCurrent(s) THEN "deliver" ELSE "forward")
    /\ UNCHANGED <<ownerVars, closeVars, sessionVars, muVars, capability,
                   backendVars, lease, closing, result, cancelled, refVars,
                   reopenVars, closerVars, subVars>>

\* The context is read again, then the event is offered to the subscriber.
DeliverEvent(s) ==
    /\ Moves(s, "deliver", IF s \in cancelled THEN "finish" ELSE "forward")
    /\ UNCHANGED <<ownerVars, closeVars, sessionVars, muVars, capability,
                   backendVars, lease, closing, result, cancelled, refVars,
                   reopenVars, closerVars, subVars>>

\* nextBinding under o.mu: there is nothing to bind to.
NoSuccessor(s) == closed \/ current = 0 \/ current = mine[s]

\* nextBinding waits for the retirement, then binds to the successor.
NextBinding(s) ==
    /\ \/ /\ s \in cancelled
          /\ Moves(s, "next", "finish")
          /\ UNCHANGED <<bound, mine>>
       \/ /\ mine[s] \in retired
          /\ IF NoSuccessor(s)
             THEN Moves(s, "next", "finish") /\ UNCHANGED <<bound, mine>>
             ELSE /\ Moves(s, "next", "open")
                  /\ bound' = [bound EXCEPT ![s] = current]
                  /\ mine' = [mine EXCEPT ![s] = current]
    /\ UNCHANGED <<ownerVars, closeVars, sessionVars, muVars, capability,
                   backendVars, lease, closing, result, cancelled, refVars,
                   reopenVars, closerVars, eventSubs, bindDone, subDone>>

\* finishStream under o.mu ...
FinishStream(s) ==
    /\ Moves(s, "finish", "end")
    /\ eventSubs' = eventSubs \ {s}
    /\ UNCHANGED <<ownerVars, closeVars, sessionVars, muVars, capability,
                   backendVars, lease, closing, result, cancelled, refVars,
                   reopenVars, closerVars, bound, mine, bindDone, subDone>>

\* ... and under s.mu: the last binding is completed for whoever waits.
EndStream(s) ==
    /\ Moves(s, "end", "returned")
    /\ subDone' = subDone \cup {s}
    /\ bindDone' = bindDone \cup {<<s, bound[s]>>}
    /\ UNCHANGED <<ownerVars, closeVars, sessionVars, muVars, capability,
                   backendVars, lease, closing, result, cancelled, refVars,
                   reopenVars, closerVars, eventSubs, bound, mine>>

-----------------------------------------------------------------------------
\* What an actor does on its own once called; a backend that was not told
\* to stop may keep a call for as long as it likes.
SharedStep(a) ==
    \/ CloseGeneration(a) \/ RefreshAcquire(a) \/ RefreshWrite(a)
    \/ RefreshRelease(a)

CallStep(a) ==
    \/ Precheck(a) \/ QueryPostcheck(a) \/ StreamPostcheck(a)
    \/ Release(a, "release", "returned")

InvalidateStep(a) ==
    \/ InvalidateAcquire(a) \/ InvalidateCall(a)
    \/ Release(a, "release", "unlock") \/ InvalidateUnlock(a)

ReopenStep(r) ==
    \/ ReopenAcquire(r) \/ RetireStops(r) \/ RetireFails(r)
    \/ RetireChecked(r) \/ PublishLock(r) \/ PublishCheck(r) \/ Advance(r)
    \/ Abandon(r) \/ AbandonReported(r) \/ Publish(r) \/ PublishRefused(r)
    \/ PublishUnlock(r) \/ DropFresh(r) \/ \E s \in Subs : AwaitBinding(r, s)
    \/ BindingsAwaited(r) \/ FinishReopen(r) \/ ReopenUnlock(r)
    \/ Release(r, "release", "returned")

ReopenCallReturns(r) ==
    OpenFresh(r) \/ OpenFails(r) \/ OpenFailsWithBackend(r)

CloseStep(c) == \E g \in Gens : CloseRetires(c, g)

PumpStep(s) ==
    \/ OpenBinding(s) \/ Release(s, "unlease", "verify") \/ VerifyBinding(s)
    \/ CompleteBinding(s) \/ ForwardEnds(s) \/ CheckEvent(s)
    \/ DeliverEvent(s) \/ NextBinding(s) \/ FinishStream(s) \/ EndStream(s)

Next ==
    \/ \E a \in Actors : Cancel(a) \/ SharedStep(a)
    \/ \E a \in Queries \cup Streamers :
          Acquire(a) \/ CallReturns(a) \/ CallStep(a)
    \/ \E a \in Invalidators : InvalidateLock(a) \/ InvalidateStep(a)
    \/ \E r \in Reopeners :
          ReopenLock(r) \/ ReopenCallReturns(r) \/ ReopenStep(r)
    \/ SessionCloses \/ SessionCancels
    \/ \E c \in Closers :
          CloseBegins(c) \/ CloseStep(c) \/ CloseEnds(c) \/ CloseJoins(c)
    \/ \E s \in Subs :
          Subscribe(s) \/ EventsReturn(s) \/ StreamEnds(s) \/ TakeEvent(s)
             \/ PumpStep(s)
    \/ \E g \in Gens : DispatcherInvalidates(g)

\* The context handed to the backend for a's call has been cancelled.
Told(a) == a \in cancelled \/ sessionDone \/ lease[a] \in retired

\* Goroutines that can move do, mutexes are handed on, Close runs once the
\* session is closed.  A backend is only known to return from a call once it
\* was told to stop; nobody is obliged to call, to cancel or to close.  The
\* pump's select picks a ready case at random, so a stream that never runs
\* dry does not hide a retirement for ever.
Fairness ==
    /\ WF_vars(SessionCancels)
    /\ \A a \in Actors : WF_vars(SharedStep(a))
    /\ \A a \in Queries \cup Streamers :
          WF_vars(CallStep(a)) /\ WF_vars(Told(a) /\ CallReturns(a))
    /\ \A a \in Invalidators : WF_vars(InvalidateStep(a))
    /\ \A r \in Reopeners :
          WF_vars(ReopenStep(r)) /\ WF_vars(Told(r) /\ ReopenCallReturns(r))
    /\ \A c \in Closers : WF_vars(CloseStep(c)) /\ WF_vars(CloseEnds(c))
    /\ \A s \in Subs :
          /\ WF_vars(PumpStep(s)) /\ SF_vars(ForwardEnds(s))
          /\ WF_vars(Told(s) /\ EventsReturn(s))

Spec == Init /\ [][Next]_vars /\ Fairness

-----------------------------------------------------------------------------
\* A backend is never used after Close was called on it: whoever is inside a
\* call, refreshes the capability or retires events has it pinned
\* ("its lease pins that generation until the operation completes",
\* accessibility_owner.go:240).
NoUseAfterClose ==
    /\ \A a \in Actors : \A g \in {lease[a], refLease[a]} \ {0} :
          backendCloses[g] = 0
    /\ \A c \in Closers : \A g \in holds[c] : backendCloses[g] = 0
    /\ current # 0 => backendCloses[current] = 0

\* No backend is closed twice, and none that was opened is forgotten: it is
\* closed, owned as a generation, or in the hands of the reopen that made it.
ClosedOnceOrOwned ==
    \A g \in 1..born :
        \/ backendCloses[g] = 1
        \/ /\ backendCloses[g] = 0
           /\ g \in generations \/ \E r \in Reopeners : fresh[r] = g

\* No Close call returns before every generation is closed, including one
\* that a returning call was just closing, and every error of doing so is in
\* the result: no later step adds one.
CloseIsComplete ==
    (\E c \in Closers : pc[c] = "returned") =>
        /\ generations = {}
        /\ closeErr = closeErrors
        /\ \A g \in retired : g \in genDone /\ backendCloses[g] = 1

\* After a reopen gave up and abandoned the only backend, the session no
\* longer reports accessibility, and a refreshCapabilities that was under way
\* for the abandoned backend cannot bring it back.
AbandonedStaysUnavailable ==
    current = 0 /\ ~closed /\ (\A r \in Reopeners : pc[r] # "capability")
        => ~capability

\* A node handle issued by a replaced backend never carries the number the
\* current backend accepts ("so no old handle can become valid again",
\* accessibility/lifecycle.go:92).
HandlesStayDead ==
    \A h \in handles :
        current # 0 /\ h[1] # current => h[2] # number[current]

\* Nothing of a backend that was replaced or abandoned revives: neither its
\* handles under its successor's numbers (NextAccessibilityGeneration) nor its
\* capability by a refresh that was under way (refreshCapabilities).
NothingRevives == HandlesStayDead /\ AbandonedStaysUnavailable

\* Once a reopen has returned successfully no subscriber is handed an event
\* of a generation before the one it installed, although the check that the
\* generation is current and the delivery are separate steps.
StaleEventsEnd ==
    \A s \in Subs : pc[s] = "deliver" /\ s \notin cancelled
        => mine[s] >= settled

Called(a) == pc[a] \notin {"idle", "absent"}

\* No call is under way that has to return: Close, although calls, refreshes
\* and subscriptions hold leases; a reopen whose caller gives up or whose
\* session closes, wherever it waits (for a backend, for a mutex, or for a
\* subscription to rebind); and every pump once the owner is closed, so that
\* its stream is closed.
Quiet ==
    /\ \A c \in Closers : Called(c) => pc[c] = "returned"
    /\ \A r \in Reopeners :
          Called(r) /\ (r \in cancelled \/ sessionDone) => pc[r] = "returned"
    /\ \A s \in Subs : Called(s) /\ closed => pc[s] = "returned"
=============================================================================
