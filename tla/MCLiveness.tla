----------------------------- MODULE MCLiveness -----------------------------
(* Instances for TLC of the modules whose calls wait for one another, one   *)
(* at a time, under the fairness that each of them states: those of         *)
(* MCSession, AccessibilityOwner, SessionWait, AtspiEvents, RemoteDesktop.  *)
EXTENDS MCSession

CONSTANT Nil

VARIABLES
    \* AccessibilityOwner, with an o before the names that others have too
    current, retired, oActive, closeStarted, generations, genDone, closeErrors,
    oClosed, ownerDone, oCloseErr, sessionClosed, sessionDone, epochMu, reopenMu,
    capability, born, number, dispatching, backendCloses, handles, oPc, lease,
    closing, oResult, oCancelled, refLease, ret, fresh, waits, holds, awaited,
    eventSubs, bound, mine, bindDone, subDone, oSettled,
    \* SessionWait, with a w
    wScene, truth, version, emitted, health, faults, now, stream, hints,
    forwarder, reaper, wOnce, hub, notices, wClosed, wCancelled, ctxDone, wPc,
    kid, wErrs, obs, epoch, failures, wakes, obsolete, wResult,
    \* AtspiEvents, with an e
    eScene, ev, link, starts, runs, remote, caller, stopper, signals,
    \* RemoteDesktop, with an r
    rScene, session, rCall, writer, reader, writeMu, heldKeys, downKeys, stray

ownerVars == <<current, retired, oActive, closeStarted, generations, genDone,
    closeErrors, oClosed, ownerDone, oCloseErr, sessionClosed, sessionDone,
    epochMu, reopenMu, capability, born, number, dispatching, backendCloses,
    handles, oPc, lease, closing, oResult, oCancelled, refLease, ret, fresh,
    waits, holds, awaited, eventSubs, bound, mine, bindDone, subDone, oSettled>>
waitVars == <<truth, version, emitted, health, faults, now, stream,
    hints, forwarder, reaper, wOnce, hub, notices, wClosed, wCancelled, ctxDone,
    wPc, kid, wErrs, obs, epoch, failures, wakes, obsolete, wResult>>
eventVars == <<eScene, ev, link, starts, runs, remote, caller, stopper, signals>>
portalVars == <<rScene, session, rCall, writer, reader, writeMu, heldKeys, downKeys, stray>>
\* wScene never changes.
sessionParts == <<vars, lifecycleVars, infraVars, cleanupVars, wScene>>

\* The helper of SessionInfra.
JustDbus == <<"dbus">>

\* A subscription, a reopen and Close.
Owner == INSTANCE AccessibilityOwner WITH
    Queries <- {}, Streamers <- {}, Invalidators <- {}, Reopeners <- {"r1"},
    Closers <- {"c1"}, Subs <- {"s1"}, Casts <- {{"r1", "c1", "s1"}},
    MaxGens <- 2, MaxNumber <- 0,
    active <- oActive, closed <- oClosed, closeErr <- oCloseErr, pc <- oPc,
    result <- oResult, cancelled <- oCancelled, settled <- oSettled

\* A conjunction that reads its facts one after the other.
AllScene ==
    [facts |-> {"window", "caller"},
     conditions |-> "w1" :> [mode |-> "all", kids |-> <<"window", "caller">>],
     cancelling |-> {"w1"}, changes |-> 1, faults |-> 1]

Wait == INSTANCE SessionWait WITH
    Waiters <- {"w1"}, Scenes <- {AllScene}, MaxTime <- 0,
    Buffer <- "window" :> 1 @@ "accessibility" :> 1,
    FailureLimit <- 2, TotalLimit <- 3, StreakBudget <- 2,
    scene <- wScene, once <- wOnce, closed <- wClosed, cancelled <- wCancelled,
    pc <- wPc, errs <- wErrs, result <- wResult

\* Two calls of Events, and Close.
Events == INSTANCE AtspiEvents WITH
    Callers <- {"c1", "c2"}, Strict <- {"c1"}, Families <- <<"f">>,
    Required <- {"f"}, Buffer <- 1, RetryLimit <- 1,
    Scenes <- {[callers |-> {"c1", "c2"}, signals |-> 0, ends |-> {"close"}]},
    scene <- eScene

\* A command, Close and a compositor that stops to read.
Portal == INSTANCE RemoteDesktop WITH
    Callers <- {"c1"}, Inputs <- {"a", "ctrl"}, ModifierOrder <- <<"ctrl">>, Nothing <- Nil,
    Scenes <- {[ops |-> [c1 |-> {<<[kind |-> "down", key |-> "a", mods |-> {}]>>}],
                stalls |-> TRUE, closes |-> TRUE]},
    scene <- rScene, call <- rCall

LiveInit ==
    /\ part \in {"tracker", "lifecycle", "infra", "owner", "wait", "events", "portal"}
    /\ PartsInit /\ Owner!Init /\ Wait!Init /\ Events!EventsInit /\ Portal!PortalInit

SessionNext ==
    /\ TrackerPart \/ LifecyclePart \/ InfraPart
    /\ UNCHANGED <<cleanupVars, wScene, ownerVars, waitVars, eventVars, portalVars>>

OwnerNext ==
    /\ part = "owner" /\ Owner!Next
    /\ UNCHANGED <<part, sessionParts, waitVars, eventVars, portalVars>>

WaitNext ==
    /\ part = "wait" /\ Wait!Next
    /\ UNCHANGED <<part, sessionParts, ownerVars, eventVars, portalVars>>

EventsNext ==
    /\ part = "events" /\ Events!EventsNext
    /\ UNCHANGED <<part, sessionParts, ownerVars, waitVars, portalVars>>

PortalNext ==
    /\ part = "portal" /\ Portal!PortalNext
    /\ UNCHANGED <<part, sessionParts, ownerVars, waitVars, eventVars>>

\* The fairness that the modules state, for the part that moves.
SessionFairness ==
    /\ \A o \in Ops :
          /\ WF_vars(part = "tracker" /\ OpStep(o))
          /\ WF_vars(part = "tracker" /\ o \in cancelled /\ BodyReturns(o))
    /\ \A c \in Closers : WF_vars(part = "tracker" /\ CloseStep(c))
    /\ WF_lifecycleVars(part = "lifecycle" /\ OpenStep)
    /\ WF_lifecycleVars(part = "lifecycle" /\ CloseCalled(Opener))
    /\ WF_lifecycleVars(part = "lifecycle" /\ CloseBody)
    /\ WF_lifecycleVars(part = "lifecycle" /\ (GraceEnds \/ KillDeadline))
    /\ \A c \in CloseCalls : WF_lifecycleVars(part = "lifecycle" /\ CloseReturns(c))
    /\ \A a \in Apps :
          /\ WF_lifecycleVars(part = "lifecycle" /\ LaunchStep(a))
          /\ WF_lifecycleVars(part = "lifecycle" /\ (ReapApp(a) \/ PublishExit(a)))
    /\ WF_infraVars(part = "infra" /\ StartStep) /\ WF_infraVars(part = "infra" /\ CallStop("startup"))
    /\ WF_infraVars(part = "infra" /\ StopBody)
    /\ WF_infraVars(part = "infra" /\ (TermTimesOut \/ KillTimesOut))
    /\ WF_infraVars(part = "infra" /\ (HandlerEnds \/ (infraCtx /\ HandlerWakes)))
    /\ \A c \in StopCalls : WF_infraVars(part = "infra" /\ JoinStop(c))
    /\ \A p \in Procs : WF_infraVars(part = "infra" /\ ContextKills(p)) /\ WF_infraVars(part = "infra" /\ ReapHelper(p))

OwnerFairness ==
    /\ WF_ownerVars(part = "owner" /\ Owner!SessionCancels)
    /\ \A a \in Owner!Actors : WF_ownerVars(part = "owner" /\ Owner!SharedStep(a))
    /\ WF_ownerVars(part = "owner" /\ Owner!ReopenStep("r1"))
    /\ WF_ownerVars(part = "owner" /\ Owner!Told("r1") /\ Owner!ReopenCallReturns("r1"))
    /\ WF_ownerVars(part = "owner" /\ Owner!CloseStep("c1")) /\ WF_ownerVars(part = "owner" /\ Owner!CloseEnds("c1"))
    /\ WF_ownerVars(part = "owner" /\ Owner!PumpStep("s1")) /\ SF_ownerVars(part = "owner" /\ Owner!ForwardEnds("s1"))
    /\ WF_ownerVars(part = "owner" /\ Owner!Told("s1") /\ Owner!EventsReturn("s1"))

WaitFairness ==
    /\ WF_waitVars(part = "wait" /\ Wait!WaiterStep("w1"))
    /\ WF_waitVars(part = "wait" /\ Wait!StreamOpens("window"))
    /\ WF_waitVars(part = "wait" /\ (Wait!Receive("window") \/ Wait!ForwarderEnds("window")))
    /\ WF_waitVars(part = "wait" /\ Wait!Forward("window"))
    /\ WF_waitVars(part = "wait" /\ (Wait!ReaperLooksUp \/ Wait!ReaperNotifies))
    /\ WF_waitVars(part = "wait" /\ Wait!SessionCancels)

EventsFairness ==
    /\ \A c \in {"c1", "c2"} : WF_eventVars(part = "events" /\ Events!Step(c))
    /\ \A r \in 1..4 : WF_eventVars(part = "events" /\ r \in DOMAIN runs /\ Events!RunStep(r))
    /\ WF_eventVars(part = "events" /\ Events!StopperStep)

PortalFairness ==
    /\ \A c \in Portal!Users : WF_portalVars(part = "portal" /\ Portal!CallerStep(c))
    /\ WF_portalVars(part = "portal" /\ Portal!WriterStep)
    /\ WF_portalVars(part = "portal" /\ Portal!Block("reader"))
    /\ WF_portalVars(part = "portal" /\ (Portal!Pong \/ Portal!PongFails))
    /\ WF_portalVars(part = "portal" /\ Portal!ReaderEnded) /\ WF_portalVars(part = "portal" /\ Portal!Retire)
    /\ WF_portalVars(part = "portal" /\ Portal!Stop) /\ WF_portalVars(part = "portal" /\ Portal!CloseReturns)

LiveSpec ==
    /\ LiveInit
    /\ [][SessionNext \/ OwnerNext \/ WaitNext \/ EventsNext \/ PortalNext]_
           <<part, sessionParts, ownerVars, waitVars, eventVars, portalVars>>
    /\ SessionFairness /\ OwnerFairness /\ WaitFairness /\ EventsFairness /\ PortalFairness

-----------------------------------------------------------------------------
\* Every call returns that has to, again and again none is under way:
\* Close of a tracker, of a session, of its infrastructure and of an owner
\* whatever operations, applications, helpers and backends do; cancelled
\* operations, Open, Launch and startup, the signal handler, a reopen that is
\* given up, and the pumps; a canceled call of Events, whose stream is closed,
\* and all of them after Close; the calls on a portal session and its Close
\* (Tracker.Close, Session.Close, managedSession.stop, accessibilityOwner.Close,
\* reopen, eventsAcrossReopens, watchSubscriber, stopEvents, submit).
EveryCallReturns ==
    []<>(/\ part = "tracker" => Quiet
         /\ part = "lifecycle" => LifecycleQuiet
         /\ part = "infra" => InfraQuiet
         /\ part = "owner" => Owner!Quiet
         /\ part = "events" => Events!Quiet
         /\ part = "portal" => Portal!PortalQuiet)

\* A wait ends once its condition holds for good, what it reads stays unreadable,
\* its caller cancels or its session closes, and then its feeders end too
\* (waitWithEvidence).  A wait that has returned stays so: an obligation that
\* stays without it is what must not be.
WaitsEnd ==
    /\ <>[](part = "wait" => Wait!FeedersEnded)
    /\ \A why \in Wait!Reasons :
          []<>(part = "wait" /\ Wait!Obliged("w1", why) => wPc["w1"] = "returned")
=============================================================================
