---------------------------- MODULE SessionWait -----------------------------
(***************************************************************************)
(* Session.Wait of session_wait.go: waiters that evaluate a condition over *)
(* the state of the desktop, the invalidation hub whose epochs wake them,  *)
(* the goroutines that feed the hub, and the closing of the session.       *)
(*                                                                         *)
(* The desktop is a set of facts, one for each kind of state a condition   *)
(* can ask about: "window", "accessibility" and "application", whose       *)
(* changes reach the hub, and "caller", the state of a Predicate, which    *)
(* does not.  A member of Waiters is one call of WaitWithEvidence on a     *)
(* goroutine of its own.  A condition is a record [mode, kids]: kids is    *)
(* the sequence of the facts it reads and mode is "all", "any" or "not"    *)
(* (a single sessionCondition or Predicate is "all" of one fact).  A       *)
(* waiter reads its facts one after the other while they change.           *)
(***************************************************************************)
EXTENDS WaitFailures, Integers, Sequences, SequencesExt, FiniteSets

CONSTANTS
    Waiters,      \* calls of WaitWithEvidence
    Scenes,       \* the situations to consider, as records:
                  \*   facts       the kinds of state that this session has and
                  \*               its caller asks for
                  \*   conditions  of the waiters that there are
                  \*   cancelling  the waiters whose callers may cancel
                  \*   changes     bound: how often a fact changes
                  \*   faults      bound: how often a fact becomes unreadable
    Buffer,       \* capacity of the channel of each streaming source
    MaxTime       \* bound on the clock

AllStreams == {"window", "accessibility"}      \* sources with a forwarder
Errors == {"transient", "permanent"}
Unread == [val |-> "unread", ver |-> 0]

ASSUME ScenesAreScenes ==
    \A s \in Scenes :
        /\ s.facts \subseteq AllStreams \cup {"application", "caller"}
        /\ s.cancelling \subseteq DOMAIN s.conditions
        /\ DOMAIN s.conditions \subseteq Waiters
        /\ \A w \in DOMAIN s.conditions :
              /\ s.conditions[w].mode \in {"all", "any", "not"}
              /\ s.conditions[w].kids \in Seq(s.facts)
              /\ s.conditions[w].mode = "not" => Len(s.conditions[w].kids) = 1
        /\ s.changes \in Nat \ {0} /\ s.faults \in Nat

ASSUME BoundsAreNaturals ==
    (\A s \in AllStreams : Buffer[s] \in Nat \ {0}) /\ MaxTime \in Nat

VARIABLES
    scene,      \* the situation, which does not change
    truth,      \* each fact: whether it holds now
    version,    \* each fact: how often it has changed
    emitted,    \* each fact: the last version its source has announced
    health,     \* each fact: "ok", or the error that reading it meets
    faults,     \* how often a fact has become unreadable
    now,        \* the clock
    stream,     \* each streaming source: "off", "opening", "open", "ended"
    hints,      \* each streaming source: messages in its channel
    forwarder,  \* each streaming source: "off", "receive", "notify", "ended"
    reaper,     \* Application.reap: "wait", "lookup", "notify", "ended"
    once,       \* s.hubOnce: "no", "running", "done"
    hub,        \* whether s.hub is set
    notices,    \* the changes of the epochs closed so far, in order; the
                \* current epoch is the one after them
    closed,     \* s.closed
    cancelled,  \* whether s.ctx is done
    ctxDone,    \* waiters whose context is done
    pc, kid, errs, obs, epoch, failures, wakes, obsolete, result

desktop == <<truth, version, emitted, health, faults>>
feeds == <<stream, hints, forwarder, reaper>>
hubVars == <<once, hub, notices>>
session == <<closed, cancelled>>
\* The locals of waitWithEvidence: where it is, the next child to evaluate,
\* the errors of the children before it, what each child has reported in this
\* round, the subscribed epoch (0 for nil), the failures and the evidence;
\* and two histories, whether the evaluation ended after the caller or the
\* session had given up, and the result.
locals == <<pc, kid, errs, obs, epoch, failures, wakes, obsolete, result>>
vars == <<desktop, now, feeds, hubVars, session, ctxDone, locals>>

Facts == scene.facts
Streams == Facts \cap AllStreams
Sources == Facts \ {"caller"}
MaxChanges == scene.changes

Here(w) == w \in DOMAIN scene.conditions
Kids(w) == IF Here(w) THEN scene.conditions[w].kids ELSE <<>>
Mode(w) == IF Here(w) THEN scene.conditions[w].mode ELSE "all"

Init ==
    /\ scene \in Scenes
    /\ truth = [f \in Facts |-> FALSE]
    /\ version = [f \in Facts |-> 0] /\ emitted = [f \in Facts |-> 0]
    /\ health = [f \in Facts |-> "ok"] /\ faults = 0
    /\ now = 0
    /\ stream = [s \in Streams |-> "off"]
    /\ hints = [s \in Streams |-> 0]
    /\ forwarder = [s \in Streams |-> "off"]
    /\ reaper = "wait"
    /\ once = "no" /\ hub = FALSE /\ notices = <<>>
    /\ closed = FALSE /\ cancelled = FALSE
    /\ ctxDone = {}
    /\ pc = [w \in Waiters |-> IF Here(w) THEN "idle" ELSE "absent"]
    /\ kid = [w \in Waiters |-> 1]
    /\ errs = [w \in Waiters |-> {}]
    /\ obs = [w \in Waiters |-> [i \in DOMAIN Kids(w) |-> Unread]]
    /\ epoch = [w \in Waiters |-> 0]
    /\ failures = [w \in Waiters |-> NoFailures]
    /\ wakes = [w \in Waiters |-> [s \in Sources |-> 0]]
    /\ obsolete = [w \in Waiters |-> FALSE]
    /\ result = [w \in Waiters |-> "none"]

-----------------------------------------------------------------------------
(* The desktop.                                                            *)

\* A window or an accessible object changes, and its source announces it on
\* its channel if it is listening; a full channel keeps what it has.
Change(s) ==
    /\ version[s] < MaxChanges
    /\ truth' = [truth EXCEPT ![s] = ~@]
    /\ version' = [version EXCEPT ![s] = @ + 1]
    /\ IF stream[s] = "open"
       THEN /\ emitted' = [emitted EXCEPT ![s] = version'[s]]
            /\ hints' = [hints EXCEPT ![s] = IF @ < Buffer[s] THEN @ + 1 ELSE @]
       ELSE UNCHANGED <<emitted, hints>>
    /\ UNCHANGED <<health, faults, now, stream, forwarder, reaper, hubVars,
                   session, ctxDone, locals>>

\* The state behind a Predicate changes; nothing announces it.
CallerChanges ==
    /\ "caller" \in Facts
    /\ version["caller"] < MaxChanges
    /\ truth' = [truth EXCEPT !["caller"] = ~@]
    /\ version' = [version EXCEPT !["caller"] = @ + 1]
    /\ UNCHANGED <<emitted, health, faults, now, feeds, hubVars, session,
                   ctxDone, locals>>

\* A fact can no longer be read, for the moment or for good.
BecomeUnreadable(f, e) ==
    /\ health[f] = "ok"
    /\ faults < scene.faults
    /\ health' = [health EXCEPT ![f] = e]
    /\ faults' = faults + 1
    /\ UNCHANGED <<truth, version, emitted, now, feeds, hubVars, session,
                   ctxDone, locals>>

\* A transient failure passes.
BecomeReadable(f) ==
    /\ health[f] = "transient"
    /\ health' = [health EXCEPT ![f] = "ok"]
    /\ UNCHANGED <<truth, version, emitted, faults, now, feeds, hubVars,
                   session, ctxDone, locals>>

TimePasses ==
    /\ now < MaxTime
    /\ now' = now + 1
    /\ UNCHANGED <<desktop, feeds, hubVars, session, ctxDone, locals>>

-----------------------------------------------------------------------------
(* The hub and the goroutines that feed it.                                *)

\* notify: the current epoch gets its change and is closed, a new one begins.
Notify(change) == notices' = Append(notices, change)

\* The source is subscribed and announces changes from now on.  The window
\* forwarder already waits; openEvents returns to the accessibility one.
StreamOpens(s) ==
    /\ stream[s] = "opening"
    /\ stream' = [stream EXCEPT ![s] = "open"]
    /\ forwarder' = [forwarder EXCEPT ![s] = IF @ = "off" THEN "receive" ELSE @]
    /\ UNCHANGED <<desktop, now, hints, reaper, hubVars, session, ctxDone, locals>>

\* The source cannot be opened, or its channel is closed; messages that are
\* already in the channel can still be received.
StreamEnds(s) ==
    /\ stream[s] \in {"opening", "open"}
    /\ stream' = [stream EXCEPT ![s] = "ended"]
    /\ forwarder' = [forwarder EXCEPT ![s] = IF @ = "off" THEN "ended" ELSE @]
    /\ UNCHANGED <<desktop, now, hints, reaper, hubVars, session, ctxDone, locals>>

\* case <-changes (or <-events), with a message.
Receive(s) ==
    /\ forwarder[s] = "receive"
    /\ hints[s] > 0
    /\ hints' = [hints EXCEPT ![s] = @ - 1]
    /\ forwarder' = [forwarder EXCEPT ![s] = "notify"]
    /\ UNCHANGED <<desktop, now, stream, reaper, hubVars, session, ctxDone, locals>>

\* hub.notify, by a forwarder.
Forward(s) ==
    /\ forwarder[s] = "notify"
    /\ Notify(s)
    /\ forwarder' = [forwarder EXCEPT ![s] = "receive"]
    /\ UNCHANGED <<desktop, now, stream, hints, reaper, once, hub, session,
                   ctxDone, locals>>

\* case <-s.ctx.Done(), or the channel is closed and empty.
ForwarderEnds(s) ==
    /\ forwarder[s] = "receive"
    /\ cancelled \/ (stream[s] = "ended" /\ hints[s] = 0)
    /\ forwarder' = [forwarder EXCEPT ![s] = "ended"]
    /\ UNCHANGED <<desktop, now, stream, hints, reaper, hubVars, session,
                   ctxDone, locals>>

\* Application.reap: the process has exited and a.done is closed.
ApplicationExits ==
    /\ "application" \in Facts
    /\ reaper = "wait"
    /\ reaper' = "lookup"
    /\ truth' = [truth EXCEPT !["application"] = TRUE]
    /\ version' = [version EXCEPT !["application"] = 1]
    /\ emitted' = [emitted EXCEPT !["application"] = 1]
    /\ UNCHANGED <<health, faults, now, stream, hints, forwarder, hubVars,
                   session, ctxDone, locals>>

\* notifyWaiters reads s.hub; without a hub there is nobody to notify.
ReaperLooksUp ==
    /\ reaper = "lookup"
    /\ reaper' = IF hub THEN "notify" ELSE "ended"
    /\ UNCHANGED <<desktop, now, stream, hints, forwarder, hubVars, session,
                   ctxDone, locals>>

\* notifyWaiters calls hub.notify.
ReaperNotifies ==
    /\ reaper = "notify"
    /\ Notify("application")
    /\ reaper' = "ended"
    /\ UNCHANGED <<desktop, now, stream, hints, forwarder, once, hub, session,
                   ctxDone, locals>>

-----------------------------------------------------------------------------
(* Cancellation.                                                           *)

CallerCancels(w) ==
    /\ w \in scene.cancelling \ ctxDone
    /\ ctxDone' = ctxDone \cup {w}
    /\ UNCHANGED <<desktop, now, feeds, hubVars, session, locals>>

\* Session.close sets s.closed and then cancels s.ctx.
SessionCloses ==
    /\ ~closed
    /\ closed' = TRUE
    /\ UNCHANGED <<desktop, now, feeds, hubVars, cancelled, ctxDone, locals>>

SessionCancels ==
    /\ closed /\ ~cancelled
    /\ cancelled' = TRUE
    /\ UNCHANGED <<desktop, now, feeds, hubVars, closed, ctxDone, locals>>

-----------------------------------------------------------------------------
(* A waiter.                                                               *)

GoTo(w, l) == pc' = [pc EXCEPT ![w] = l]

Return(w, r) ==
    /\ GoTo(w, "returned")
    /\ result' = [result EXCEPT ![w] = r]

\* waitState: nothing, or the error it returns.
GivenUp(w) == w \in ctxDone \/ closed
StateError(w) == IF w \in ctxDone THEN "canceled" ELSE "closed"

\* ensureOpen, before the loop.
Call(w) ==
    /\ pc[w] = "idle"
    /\ IF closed THEN Return(w, "closed")
                 ELSE GoTo(w, "state") /\ UNCHANGED result
    /\ UNCHANGED <<desktop, now, feeds, hubVars, session, ctxDone, kid, errs,
                   obs, epoch, failures, wakes, obsolete>>

\* waitState, at the head of the loop.
CheckState(w) ==
    /\ pc[w] = "state"
    /\ IF GivenUp(w) THEN Return(w, StateError(w))
                     ELSE GoTo(w, "subscribe") /\ UNCHANGED result
    /\ UNCHANGED <<desktop, now, feeds, hubVars, session, ctxDone, kid, errs,
                   obs, epoch, failures, wakes, obsolete>>

\* hubOnce.Do, by the first waiter: the hub is published ...
PublishHub(w) ==
    /\ pc[w] = "subscribe"
    /\ once = "no"
    /\ once' = "running" /\ hub' = TRUE
    /\ GoTo(w, "sources")
    /\ UNCHANGED <<desktop, now, feeds, notices, session, ctxDone, kid, errs,
                   obs, epoch, failures, wakes, obsolete, result>>

\* ... and the sources are asked for their changes.
StartSources(w) ==
    /\ pc[w] = "sources"
    /\ stream' = [s \in Streams |-> "opening"]
    /\ forwarder' = [s \in Streams |-> IF s = "window" THEN "receive" ELSE "off"]
    /\ once' = "done"
    /\ GoTo(w, "subscribe")
    /\ UNCHANGED <<desktop, now, hints, reaper, hub, notices, session,
                   ctxDone, kid, errs, obs, epoch, failures, wakes, obsolete, result>>

\* Mutant of Subscribed: notify closes the epoch but does not replace it.
SubscribedClosed(w) == IF notices = <<>> THEN 1 ELSE Len(notices)

\* hub.subscribe: the epoch that the next notification will close.
Subscribed(w) == Len(notices) + 1

\* The end of waitChanges: the waiter holds an epoch and starts to evaluate.
Subscribe(w) ==
    /\ pc[w] = "subscribe"
    /\ once = "done"
    /\ epoch' = [epoch EXCEPT ![w] = Subscribed(w)]
    /\ GoTo(w, "evaluate")
    /\ UNCHANGED <<desktop, now, feeds, hubVars, session, ctxDone, kid, errs,
                   obs, failures, wakes, obsolete, result>>

\* What reading a fact may report.  A reading that is under way when the
\* caller or the session gives up may fail instead.
Reading(w, f) ==
    {IF health[f] # "ok" THEN health[f] ELSE IF truth[f] THEN "true" ELSE "false"}
    \cup (IF GivenUp(w) THEN Errors ELSE {})

\* conditionFunc.evaluate, for the next child; a Predicate under way may be
\* what cancels the caller's own context (CallerCancels).
ReadChild(w) ==
    /\ pc[w] = "evaluate"
    /\ kid[w] <= Len(Kids(w))
    /\ \E v \in Reading(w, Kids(w)[kid[w]]) :
          obs' = [obs EXCEPT ![w][kid[w]] =
                     [val |-> v, ver |-> version[Kids(w)[kid[w]]]]]
    /\ GoTo(w, "combine")
    /\ UNCHANGED <<desktop, now, feeds, hubVars, session, ctxDone, kid, errs,
                   epoch, failures, wakes, obsolete, result>>

\* The error that errors.Join gives for errors E, as isPermanentWaitError
\* classifies it.
Joined(E) == CASE "permanent" \in E -> "permanent"
               [] E = {"transient"} -> "transient"
               [] E = {} -> "false"

\* Mutant of Decided: the negation of a failed child counts as its success.
DecidedBlindly(mode, v) ==
    CASE mode # "not" -> v
      [] mode = "not" /\ v = "true" -> "false"
      [] mode = "not" /\ v # "true" -> "true"

\* Mutant of ShortCircuits: one unreadable alternative decides an "any".
ShortCircuitsOnError(mode, v) ==
    CASE mode = "all" -> v # "true"
      [] mode = "any" -> v # "false"
      [] mode = "not" -> TRUE

\* compositeCondition.evaluate: whether a child's report decides the result.
ShortCircuits(mode, v) ==
    CASE mode = "all" -> v # "true"
      [] mode = "any" -> v = "true"
      [] mode = "not" -> TRUE

\* The result that such a report gives.
Decided(mode, v) ==
    CASE mode # "not" \/ v \in Errors -> v
      [] mode = "not" /\ v = "true" -> "false"
      [] mode = "not" /\ v = "false" -> "true"

\* The result when no report has decided it.
Undecided(mode, E) == IF mode = "all" THEN "true" ELSE Joined(E)

\* The result leaves evaluate, and its locals end: without an error the
\* failure streak ends too.
Evaluated(w, v) ==
    /\ kid' = [kid EXCEPT ![w] = 1]
    /\ errs' = [errs EXCEPT ![w] = {}]
    /\ GoTo(w, IF v \in Errors THEN v ELSE IF v = "true" THEN "recheck" ELSE "select")
    /\ failures' = [failures EXCEPT ![w] = IF v \in Errors THEN @ ELSE Reset(@)]
    /\ obsolete' = [obsolete EXCEPT ![w] = v = "true" /\ GivenUp(w)]

\* Back in the loop over the children.
Combine(w) ==
    /\ pc[w] = "combine"
    /\ LET v == obs[w][kid[w]].val
       IN  IF ShortCircuits(Mode(w), v)
           THEN Evaluated(w, Decided(Mode(w), v))
           ELSE /\ kid' = [kid EXCEPT ![w] = @ + 1]
                /\ errs' = [errs EXCEPT ![w] = @ \cup ({v} \cap Errors)]
                /\ GoTo(w, "evaluate")
                /\ UNCHANGED <<failures, obsolete>>
    /\ UNCHANGED <<desktop, now, feeds, hubVars, session, ctxDone, obs, epoch,
                   wakes, result>>

\* The loop over the children ends without a decision.
EndOfChildren(w) ==
    /\ pc[w] = "evaluate"
    /\ kid[w] > Len(Kids(w))
    /\ Evaluated(w, Undecided(Mode(w), errs[w]))
    /\ UNCHANGED <<desktop, now, feeds, hubVars, session, ctxDone, obs, epoch,
                   wakes, result>>

\* evaluateWaitCondition with an error: a wait that was given up says so, a
\* permanent error ends the wait, another one is counted.
JudgeError(w) ==
    /\ pc[w] \in Errors
    /\ CASE GivenUp(w) -> Return(w, StateError(w)) /\ UNCHANGED failures
         [] ~GivenUp(w) /\ pc[w] = "permanent" ->
               Return(w, "permanent") /\ UNCHANGED failures
         [] OTHER ->
               /\ failures' = [failures EXCEPT ![w] = Recorded(@, now)]
               /\ IF Exhausted(failures'[w], now)
                  THEN Return(w, "exhausted")
                  ELSE GoTo(w, "select") /\ UNCHANGED result
    /\ UNCHANGED <<desktop, now, feeds, hubVars, session, ctxDone, kid, errs,
                   obs, epoch, wakes, obsolete>>

\* if ok: waitState once more, then success.
Recheck(w) ==
    /\ pc[w] = "recheck"
    /\ Return(w, IF GivenUp(w) THEN StateError(w) ELSE "ok")
    /\ UNCHANGED <<desktop, now, feeds, hubVars, session, ctxDone, kid, errs,
                   obs, epoch, failures, wakes, obsolete>>

\* Mutant of PollingOnly: one Predicate makes the whole condition poll.
PollingIfAny(w) == \E f \in ToSet(Kids(w)) : f = "caller"

\* condition.pollingOnly(): no event can change the result.
PollingOnly(w) == \A f \in ToSet(Kids(w)) : f = "caller"

\* case <-waitEpochDone(epoch) is ready.
EpochDone(w) == ~PollingOnly(w) /\ epoch[w] <= Len(notices)

\* epoch.change, which recordWaitChange counts.
RecordedChange(w) == notices[epoch[w]]

\* The next round of the loop begins, with an epoch of its own.
NextRound(w) ==
    /\ GoTo(w, "state")
    /\ epoch' = [epoch EXCEPT ![w] = 0]
    /\ obs' = [obs EXCEPT ![w] = [i \in DOMAIN Kids(w) |-> Unread]]

\* case <-waitEpochDone(epoch).
WakeByEvent(w) ==
    /\ pc[w] = "select"
    /\ EpochDone(w)
    /\ wakes' = [wakes EXCEPT ![w][RecordedChange(w)] = @ + 1]
    /\ NextRound(w)
    /\ UNCHANGED <<desktop, now, feeds, hubVars, session, ctxDone, kid, errs,
                   failures, obsolete, result>>

\* Mutant of WakeByPoll: a condition that is not polling-only is not polled.
WakeByPollIfPolling(w) ==
    /\ pc[w] = "select"
    /\ PollingOnly(w)
    /\ NextRound(w)
    /\ UNCHANGED <<desktop, now, feeds, hubVars, session, ctxDone, kid, errs,
                   failures, wakes, obsolete, result>>

\* case <-ticker.C.
WakeByPoll(w) ==
    /\ pc[w] = "select"
    /\ NextRound(w)
    /\ UNCHANGED <<desktop, now, feeds, hubVars, session, ctxDone, kid, errs,
                   failures, wakes, obsolete, result>>

\* case <-ctx.Done().
SelectCancelled(w) ==
    /\ pc[w] = "select"
    /\ w \in ctxDone
    /\ Return(w, "canceled")
    /\ UNCHANGED <<desktop, now, feeds, hubVars, session, ctxDone, kid, errs,
                   obs, epoch, failures, wakes, obsolete>>

\* case <-s.ctx.Done().
SelectClosed(w) ==
    /\ pc[w] = "select"
    /\ cancelled
    /\ Return(w, "closed")
    /\ UNCHANGED <<desktop, now, feeds, hubVars, session, ctxDone, kid, errs,
                   obs, epoch, failures, wakes, obsolete>>

\* Every step of a waiter that needs nobody else; the ticker is one.
WaiterStep(w) ==
    \/ Call(w) \/ CheckState(w) \/ PublishHub(w) \/ StartSources(w)
    \/ Subscribe(w) \/ ReadChild(w) \/ Combine(w) \/ EndOfChildren(w)
    \/ JudgeError(w) \/ Recheck(w) \/ WakeByEvent(w) \/ WakeByPoll(w)
    \/ SelectCancelled(w) \/ SelectClosed(w)

FeedStep ==
    \/ \E s \in Streams : StreamOpens(s) \/ Receive(s) \/ Forward(s)
                          \/ ForwarderEnds(s)
    \/ ReaperLooksUp \/ ReaperNotifies

Environment ==
    \/ \E s \in Streams : Change(s) \/ StreamEnds(s)
    \/ \E f \in Facts : BecomeReadable(f)
    \/ \E f \in Facts, e \in Errors : BecomeUnreadable(f, e)
    \/ CallerChanges \/ ApplicationExits \/ TimePasses
    \/ \E w \in Waiters : CallerCancels(w)
    \/ SessionCloses \/ SessionCancels

Next ==
    /\ Environment \/ FeedStep \/ \E w \in Waiters : WaiterStep(w)
    /\ UNCHANGED scene

Spec == Init /\ [][Next]_<<scene, vars>>

\* Goroutines run when they can, the ticker ticks, evaluations return, and
\* Session.close goes on to cancel s.ctx.
Fairness ==
    /\ \A w \in Waiters : WF_vars(WaiterStep(w))
    /\ \A s \in AllStreams :
          /\ WF_vars(s \in Streams /\ StreamOpens(s))
          /\ WF_vars(s \in Streams /\ (Receive(s) \/ ForwarderEnds(s)))
          /\ WF_vars(s \in Streams /\ Forward(s))
    /\ WF_vars(ReaperLooksUp \/ ReaperNotifies)
    /\ WF_vars(SessionCancels)

FairSpec == Spec /\ Fairness

-----------------------------------------------------------------------------
(* Properties.                                                             *)

\* An announced change of fact f that has not closed an epoch yet.
OnItsWay(f) ==
    \/ f \in Streams /\ (hints[f] > 0 \/ forwarder[f] = "notify")
    \/ f = "application" /\ reaper \in {"lookup", "notify"}

\* No wakeup is lost (waitWithEvidence subscribes before it evaluates): when a
\* fact that a sleeping waiter has read changes later and its source announces
\* the change, the waiter's epoch is closed or the announcement is on its way;
\* the waiter does not depend on the poll.  A session that is shutting down
\* stops its forwarders and wakes the waiter itself.
NoLostWakeup ==
    \A w \in Waiters : pc[w] = "select" =>
        \A i \in DOMAIN Kids(w) :
            LET f == Kids(w)[i]
            IN  /\ obs[w][i] # Unread
                /\ emitted[f] > obs[w][i].ver
                => EpochDone(w) \/ OnItsWay(f) \/ cancelled

\* One notification wakes a waiter at most once: the evidence never counts
\* more wakeups by a source than the source has caused, so a waiter does not
\* spin on an epoch it has seen (recordWaitChange, invalidationHub.notify).
EvidenceIsTrue ==
    \A w \in Waiters, s \in Sources :
        wakes[w][s] <= Cardinality({n \in DOMAIN notices : notices[n] = s})

\* A waiter misses no announced change of what it has read, and one change wakes
\* it once (waitWithEvidence, invalidationHub.notify and subscribe).
WakeupsAreExact == NoLostWakeup /\ EvidenceIsTrue

\* What a waiter has read in this round, child by child.
Read(w) == {i \in DOMAIN Kids(w) : obs[w][i] # Unread}
Reported(w, v) == {i \in Read(w) : obs[w][i].val = v}

\* A waiter sleeps only if what it has read leaves the condition open, and
\* succeeds only if what it has read establishes it: an unreadable child of an
\* Any neither hides a satisfied one nor ends the evaluation, and an
\* unreadable child never counts as satisfied, not even under Not
\* (compositeCondition.evaluate, notCondition.evaluate).  A success that was
\* established after the caller had cancelled or the session had closed is not
\* reported (the waitState after evaluate).
VerdictFollowsReadings ==
    \A w \in Waiters :
        /\ pc[w] = "select" =>
              CASE Mode(w) = "all" -> Read(w) # Reported(w, "true")
                [] Mode(w) = "any" -> /\ Read(w) = DOMAIN Kids(w)
                                      /\ Reported(w, "true") = {}
                [] Mode(w) = "not" -> Reported(w, "false") = {}
        /\ result[w] = "ok" =>
              CASE Mode(w) = "all" -> Reported(w, "true") = DOMAIN Kids(w)
                [] Mode(w) = "any" -> Reported(w, "true") # {}
                [] Mode(w) = "not" -> Reported(w, "false") # {}
        /\ result[w] = "ok" => ~obsolete[w]

\* The condition holds and can be read.
Holds(w) ==
    /\ \A f \in ToSet(Kids(w)) : health[f] = "ok"
    /\ CASE Mode(w) = "all" -> \A f \in ToSet(Kids(w)) : truth[f]
         [] Mode(w) = "any" -> \E f \in ToSet(Kids(w)) : truth[f]
         [] Mode(w) = "not" -> \A f \in ToSet(Kids(w)) : ~truth[f]

\* What obliges a wait to end if it stays so: its condition holds, somebody gave
\* it up, or nothing it reads can be read (the loop of waitWithEvidence).
Reasons == {"holds", "over", "unreadable"}
Obliged(w, why) ==
    /\ Here(w)
    /\ CASE why = "holds" -> Holds(w)
         [] why = "over" -> w \in ctxDone \/ closed
         [] why = "unreadable" -> Kids(w) # <<>> /\ \A f \in ToSet(Kids(w)) : health[f] # "ok"

\* The goroutines that feed the hub end with the session (case <-s.ctx.Done()).
FeedersEnded == closed => \A s \in Streams : forwarder[s] \in {"off", "ended"}
=============================================================================
