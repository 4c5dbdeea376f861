---------------------------- MODULE AtspiEvents -----------------------------
(***************************************************************************)
(* The event streams of accessibility/events.go: callers of Events share   *)
(* one dispatcher over one private connection.  The first caller registers *)
(* the event families and publishes the dispatcher, others wait for its    *)
(* setup or reuse it, and the last one to leave ends it.  Close, a lost    *)
(* connection and RetireEventsForReopen end it as well.                    *)
(*                                                                         *)
(* A step is what happens under eventsMu, or one call to the registry.     *)
(* What the dispatcher does to the handles is AtspiBackend's.              *)
(***************************************************************************)
EXTENDS Naturals, Sequences, FiniteSets

CONSTANTS
    Nil,
    Callers,      \* calls of Events, one stream each
    Strict,       \* those with RequireSemanticCoverage
    Families,     \* the event families, in the order they are registered
    Required,     \* semanticObservationEventFamilies
    Buffer,       \* opts.Buffer
    RetryLimit,   \* eventStartRetryLimit
    Scenes        \* records of the callers that call, the ends that may come
                  \* and a bound on signals

\* Nil is no dispatcher, no setup and no error.
ASSUME NilIsNothing ==
    Nil \notin Nat \cup {"canceled", "disconnected", "unsupported", "timeout", "failed"}
ASSUME CallersFinite == IsFiniteSet(Callers)
ASSUME RetryLimitNat == RetryLimit \in Nat
ASSUME FamiliesInOrder == Families \in Seq({Families[i] : i \in DOMAIN Families})

VARIABLES
    scene,     \* one of Scenes
    ev,        \* dbusBackend's fields under eventsMu
    link,      \* the connection, and what the backend knows of it: down is
               \* disconnected or closed, gone is access set to nil
    starts,    \* eventStart records, in the order they were made
    runs,      \* dispatchers, in the order they were published
    remote,    \* families the registry sends to this connection
    caller,    \* each call of Events and its stream
    stopper,   \* one Close, lost connection or RetireEventsForReopen
    signals

evars == <<scene, ev, link, starts, runs, remote, caller, stopper, signals>>

Connected == ~link.down

Set(c, r) == caller' = [caller EXCEPT ![c] = r]
Goto(c, pc) == Set(c, [caller[c] EXCEPT !.pc = pc])

\* closeEventSubscriber
CloseStream(r) == [r EXCEPT !.closed = @ + 1]

\* Events without a stream: the subscriber is taken out and closed, unless
\* somebody else has closed it.
Refused(c, err) ==
    /\ ev' = [ev EXCEPT !.subs = @ \ {c}]
    /\ Set(c, LET r == [caller[c] EXCEPT !.pc = "refused", !.err = err]
              IN  IF c \in ev.subs \/ caller[c].pc \in {"admit", "waitRun"}
                  THEN CloseStream(r) ELSE r)

-----------------------------------------------------------------------------
(* Admission.                                                               *)

Call(c) ==
    /\ c \in scene.callers /\ caller[c].pc = "idle" /\ Goto(c, "admit")
    /\ UNCHANGED <<scene, ev, link, starts, runs, remote, stopper, signals>>

\* The caller's context ends.
Cancel(c) ==
    /\ caller[c].pc # "idle" /\ ~caller[c].canceled
    /\ Set(c, [caller[c] EXCEPT !.canceled = TRUE])
    /\ UNCHANGED <<scene, ev, link, starts, runs, remote, stopper, signals>>

\* The run, or else the setup, there is.
Blocking == [run |-> ev.cancel, start |-> IF ev.cancel = Nil THEN ev.starting ELSE Nil]

\* A subscriber without company waits for the end of what there is.
IsBlocked == ev.subs = {} /\ (ev.cancel # Nil \/ ev.starting # Nil)

\* reserveEventSubscriber
Reserve(c) ==
    /\ caller[c].pc = "admit"
    /\ IF caller[c].canceled THEN Refused(c, "canceled")
       ELSE IF ~Connected \/ ev.retired THEN Refused(c, "disconnected")
       ELSE IF IsBlocked
       THEN Set(c, [caller[c] EXCEPT !.pc = "waitRun", !.on = Blocking]) /\ UNCHANGED ev
       ELSE Goto(c, "check") /\ ev' = [ev EXCEPT !.subs = @ \cup {c}]
    /\ UNCHANGED <<scene, link, starts, runs, remote, stopper, signals>>

Over(on) ==
    IF on.run # Nil THEN runs[on.run].phase = "over" ELSE starts[on.start].done

\* waitForEventRun
WaitForRun(c) ==
    /\ caller[c].pc = "waitRun"
    /\ \/ Over(caller[c].on) /\ Set(c, [caller[c] EXCEPT !.pc = "admit", !.on = Nil])
          /\ UNCHANGED ev
       \/ caller[c].canceled /\ Refused(c, "canceled")
    /\ UNCHANGED <<scene, link, starts, runs, remote, stopper, signals>>

-----------------------------------------------------------------------------
(* startEvents.                                                             *)

\* validateSemanticEventCoverage
Covers(families) == Required \subseteq families

NewStart == [done |-> FALSE, err |-> Nil, byCaller |-> FALSE, stopped |-> FALSE, late |-> FALSE]

CheckConnected(c) ==
    /\ caller[c].pc = "check"
    /\ IF caller[c].canceled \/ ~Connected
       THEN Refused(c, IF caller[c].canceled THEN "canceled" ELSE "disconnected")
       ELSE Goto(c, "start") /\ UNCHANGED ev
    /\ UNCHANGED <<scene, link, starts, runs, remote, stopper, signals>>

\* Under eventsMu: the dispatcher there is, the setup there is, or a new one.
StartEvents(c) ==
    /\ caller[c].pc = "start"
    /\ IF caller[c].canceled THEN Refused(c, "canceled") /\ UNCHANGED starts
       ELSE IF ev.retired \/ (link.gone /\ ev.cancel = Nil /\ ev.starting = Nil)
       THEN Refused(c, "disconnected") /\ UNCHANGED starts
       ELSE IF ev.cancel # Nil
       THEN /\ IF c \in Strict /\ ~Covers(ev.registered) THEN Refused(c, "unsupported")
               ELSE Goto(c, "stream") /\ UNCHANGED ev
            /\ UNCHANGED starts
       ELSE IF ev.starting # Nil
       THEN /\ Set(c, [caller[c] EXCEPT !.pc = "waitStart", !.linked = Connected,
                                        !.on = [run |-> Nil, start |-> ev.starting]])
            /\ UNCHANGED <<ev, starts>>
       ELSE /\ starts' = Append(starts, NewStart)
            /\ ev' = [ev EXCEPT !.starting = Len(starts) + 1]
            /\ Set(c, [caller[c] EXCEPT !.pc = "register", !.mine = Len(starts) + 1, !.next = 1])
    /\ UNCHANGED <<scene, link, runs, remote, stopper, signals>>

\* Mutant of TriesAgain: a waiter fails with the setup it waits for.
NeverTriesAgain(k, s) == FALSE

\* Whether a waiter tries again after somebody else's setup has failed.
TriesAgain(k, s) == s.byCaller /\ k.linked /\ k.retries < RetryLimit

\* waitForEventStart: one canceled setup of another caller is tried again.
WaitForStart(c) ==
    /\ caller[c].pc = "waitStart"
    /\ LET k == caller[c]
           s == starts[k.on.start]
       IN  \/ k.canceled /\ Refused(c, "canceled")
           \/ /\ s.done /\ ~k.canceled
              /\ IF s.err = Nil
                 THEN Set(c, [k EXCEPT !.pc = "start", !.on = Nil]) /\ UNCHANGED ev
                 ELSE IF TriesAgain(k, s)
                 THEN /\ Set(c, [k EXCEPT !.pc = "start", !.on = Nil, !.retries = @ + 1])
                      /\ UNCHANGED ev
                 ELSE Refused(c, IF s.byCaller /\ ~k.linked THEN "disconnected" ELSE s.err)
    /\ UNCHANGED <<scene, link, starts, runs, remote, stopper, signals>>

\* eventSetupContext: the setup ends with its caller, with stopEvents or after
\* eventSetupTimeout.
Late(c) == starts[caller[c].mine].late
SetupEnded(c) == caller[c].canceled \/ starts[caller[c].mine].stopped \/ Late(c)
EndOfSetup(c) == IF Late(c) THEN "timeout" ELSE "canceled"

SetupTimeout(c) ==
    /\ "timeout" \in scene.ends /\ caller[c].pc = "register" /\ ~SetupEnded(c)
    /\ starts' = [starts EXCEPT ![caller[c].mine].late = TRUE]
    /\ UNCHANGED <<scene, ev, link, runs, remote, caller, stopper, signals>>

Setup(c, families, pc, err) ==
    Set(c, [caller[c] EXCEPT !.families = families, !.pc = pc, !.err = err,
                             !.next = IF pc = "register" THEN @ + 1 ELSE @])

\* registerEventFamilies, one family: an outcome that is not known because the
\* context ended is to be compensated like a registration.
Register(c) ==
    /\ caller[c].pc = "register" /\ caller[c].next <= Len(Families)
    /\ LET f == Families[caller[c].next]
           mine == caller[c].families
       IN  \/ SetupEnded(c) /\ Setup(c, mine, "undo", EndOfSetup(c)) /\ UNCHANGED remote
           \* the registry answers, perhaps too late
           \/ /\ link.open /\ remote' = remote \cup {f}
              /\ Setup(c, mine \cup {f}, IF SetupEnded(c) THEN "undo" ELSE "register",
                       IF SetupEnded(c) THEN EndOfSetup(c) ELSE Nil)
           \* it refuses, or the connection is closed
           \/ ~SetupEnded(c) /\ Setup(c, mine, "register", Nil) /\ UNCHANGED remote
           \* nobody knows
           \/ SetupEnded(c) /\ Setup(c, mine \cup {f}, "undo", EndOfSetup(c)) /\ UNCHANGED remote
    /\ UNCHANGED <<scene, ev, link, starts, runs, stopper, signals>>

\* The end of registerEventFamilies, and subscribeEventMatches
Subscribe(c) ==
    /\ caller[c].pc = "register" /\ caller[c].next > Len(Families)
    /\ LET k == caller[c]
       IN  \/ SetupEnded(c) /\ Setup(c, k.families, "undo", EndOfSetup(c))
           \/ (k.families = {} \/ (c \in Strict /\ ~Covers(k.families)))
              /\ ~SetupEnded(c) /\ Setup(c, k.families, "undo", "unsupported")
           \/ k.families # {} /\ (c \in Strict => Covers(k.families))
              /\ ~SetupEnded(c) /\ link.open /\ Setup(c, k.families, "publish", Nil)
           \/ ~link.open /\ ~SetupEnded(c) /\ Setup(c, k.families, "undo", "failed")
    /\ UNCHANGED <<scene, ev, link, starts, runs, remote, stopper, signals>>

\* The dispatcher is published, and the setup is over, unless the backend went
\* or was retired meanwhile.
PublishRun(c) ==
    /\ caller[c].pc = "publish"
    /\ LET k == caller[c]
           live == ~ev.retired /\ Connected /\ ev.subs # {}
       IN  IF live
           THEN /\ runs' = Append(runs, [phase |-> "live", stopped |-> FALSE,
                                         families |-> k.families])
                /\ starts' = [starts EXCEPT ![k.mine].done = TRUE]
                /\ ev' = [ev EXCEPT !.cancel = Len(runs) + 1, !.registered = k.families,
                                    !.starting = Nil]
                /\ Goto(c, "stream")
           ELSE /\ Set(c, [k EXCEPT !.pc = "undo", !.err = "disconnected"])
                /\ UNCHANGED <<runs, starts, ev>>
    /\ UNCHANGED <<scene, link, remote, stopper, signals>>

\* Mutant of Undo: a failed setup leaves what it registered.
UndoNothing(c) ==
    /\ caller[c].pc = "undo" /\ Goto(c, "finish")
    /\ UNCHANGED <<scene, ev, link, starts, runs, remote, stopper, signals>>

\* deregisterEvents after a failed setup, which takes place before
\* finishEventStart lets anybody else try.
Undo(c) ==
    /\ caller[c].pc = "undo"
    /\ remote' = IF link.open THEN remote \ caller[c].families ELSE remote
    /\ Goto(c, "finish")
    /\ UNCHANGED <<scene, ev, link, starts, runs, stopper, signals>>

\* finishEventStart, and the return of Events
FinishStart(c) ==
    /\ caller[c].pc = "finish"
    /\ LET k == caller[c]
       IN  /\ starts' = [starts EXCEPT ![k.mine] =
                            [@ EXCEPT !.done = TRUE, !.err = k.err,
                                     !.byCaller = k.canceled /\ k.err \in
                                        {"canceled", "timeout", "disconnected"}]]
           /\ ev' = [ev EXCEPT !.starting = Nil, !.registered = {}]
           /\ Set(c, [k EXCEPT !.pc = "failed", !.families = {}])
    /\ UNCHANGED <<scene, link, runs, remote, stopper, signals>>

StartFailed(c) ==
    /\ caller[c].pc = "failed" /\ Refused(c, caller[c].err)
    /\ UNCHANGED <<scene, link, starts, runs, remote, stopper, signals>>

-----------------------------------------------------------------------------
(* Streams.                                                                 *)

\* watchSubscriber: the subscriber is taken out, and then, if it was the last,
\* the dispatcher is canceled.
Leave(c) ==
    /\ caller[c].pc = "stream" /\ caller[c].canceled /\ c \in ev.subs
    /\ ev' = [ev EXCEPT !.subs = @ \ {c}]
    /\ Set(c, [CloseStream(caller[c]) EXCEPT
                  !.pc = IF ev.subs = {c} THEN "last" ELSE "left",
                  !.on = Blocking])
    /\ UNCHANGED <<scene, link, starts, runs, remote, stopper, signals>>

StopStart(s) == [starts EXCEPT ![s].stopped = TRUE]
StopRun(r) == [runs EXCEPT ![r].stopped = TRUE]

CancelRun(c) ==
    /\ caller[c].pc = "last" /\ Goto(c, "left")
    /\ LET on == caller[c].on
       IN  /\ runs' = IF on.run # Nil THEN StopRun(on.run) ELSE runs
           /\ starts' = IF on.run = Nil /\ on.start # Nil THEN StopStart(on.start) ELSE starts
    /\ UNCHANGED <<scene, ev, link, remote, stopper, signals>>

\* The consumer takes an event.
Receive(c) ==
    /\ caller[c].buf # <<>>
    /\ Set(c, [caller[c] EXCEPT !.buf = Tail(@), !.told = @ + 1 + Head(caller[c].buf)])
    /\ UNCHANGED <<scene, ev, link, starts, runs, remote, stopper, signals>>

\* Mutant of Delivered: an event that does not fit is forgotten.
DeliveredOrForgotten(r) ==
    IF Len(r.buf) < Buffer
    THEN [r EXCEPT !.buf = Append(@, r.dropped), !.dropped = 0, !.due = @ + 1]
    ELSE [r EXCEPT !.due = @ + 1]

\* deliverEvent: a full channel loses the event, and the next one says so.
Delivered(r) ==
    IF Len(r.buf) < Buffer
    THEN [r EXCEPT !.buf = Append(@, r.dropped), !.dropped = 0, !.due = @ + 1]
    ELSE [r EXCEPT !.dropped = @ + 1, !.due = @ + 1]

\* One signal: it is delivered, or coalesced with the one before.
Signal(r) ==
    /\ signals < scene.signals /\ runs[r].phase = "live" /\ remote # {} /\ link.open
    /\ signals' = signals + 1
    /\ \E coalesced \in {FALSE, signals > 0} :
          caller' = [c \in Callers |->
                       IF c \notin ev.subs THEN caller[c]
                       ELSE IF coalesced
                       THEN [caller[c] EXCEPT !.dropped = @ + 1, !.due = @ + 1]
                       ELSE Delivered(caller[c])]
    /\ UNCHANGED <<scene, ev, link, starts, runs, remote, stopper>>

\* The dispatcher ends: beginEventDispatcherCleanup closes every stream
EndRun(r) ==
    /\ runs[r].phase = "live" /\ (runs[r].stopped \/ ~link.open)
    /\ runs' = [runs EXCEPT ![r].phase = "cleanup"]
    /\ link' = IF link.open THEN link ELSE [link EXCEPT !.down = TRUE]
    /\ caller' = [c \in Callers |-> IF c \in ev.subs /\ ev.cancel = r
                                    THEN CloseStream(caller[c]) ELSE caller[c]]
    /\ ev' = IF ev.cancel = r THEN [ev EXCEPT !.subs = {}] ELSE ev
    /\ UNCHANGED <<scene, starts, remote, stopper, signals>>

\* deregistration, which the timeout of the cleanup may cut short
Deregister(r) ==
    /\ runs[r].phase = "cleanup"
    /\ remote' = IF link.open THEN remote \ runs[r].families ELSE remote
    /\ runs' = [runs EXCEPT ![r].phase = "finish"]
    /\ UNCHANGED <<scene, ev, link, starts, caller, stopper, signals>>

\* finishEventDispatcher
FinishRun(r) ==
    /\ runs[r].phase = "finish"
    /\ runs' = [runs EXCEPT ![r].phase = "over"]
    /\ ev' = IF ev.cancel = r THEN [ev EXCEPT !.cancel = Nil, !.registered = {}] ELSE ev
    /\ UNCHANGED <<scene, link, starts, remote, caller, stopper, signals>>

-----------------------------------------------------------------------------
(* The ends of a backend.                                                   *)

\* The bus goes away.
Lose ==
    /\ "lose" \in scene.ends /\ link.open /\ link' = [link EXCEPT !.open = FALSE]
    /\ UNCHANGED <<scene, ev, starts, runs, remote, caller, stopper, signals>>

\* Close and markDisconnected begin under b.mu; RetireEventsForReopen with the
\* flag under eventsMu.
BeginStop(kind) ==
    /\ kind \in scene.ends /\ stopper.pc = "idle"
    /\ kind = "watch" => ~link.open /\ ~link.down
    /\ stopper' = [stopper EXCEPT !.kind = kind, !.pc = IF kind = "retire" THEN "cancel" ELSE "look",
                                  !.start = ev.starting, !.run = ev.cancel]
    /\ link' = IF kind = "retire" THEN link ELSE [link EXCEPT !.down = TRUE, !.gone = (kind = "close")]
    /\ ev' = IF kind = "retire" THEN [ev EXCEPT !.retired = TRUE] ELSE ev
    /\ UNCHANGED <<scene, starts, runs, remote, caller, signals>>

\* stopEvents reads what there is to stop
Look ==
    /\ stopper.pc = "look"
    /\ stopper' = [stopper EXCEPT !.pc = "cancel", !.start = ev.starting, !.run = ev.cancel]
    /\ UNCHANGED <<scene, ev, link, starts, runs, remote, caller, signals>>

\* and stops it, and closes the connection unless calls are to go on.
StopAll ==
    /\ stopper.pc = "cancel"
    /\ starts' = IF stopper.start = Nil THEN starts ELSE StopStart(stopper.start)
    /\ runs' = IF stopper.run = Nil THEN runs ELSE StopRun(stopper.run)
    /\ link' = IF stopper.kind = "retire" THEN link ELSE [link EXCEPT !.open = FALSE]
    /\ stopper' = [stopper EXCEPT !.pc = "wait"]
    /\ UNCHANGED <<scene, ev, remote, caller, signals>>

\* The wait for both ends, or its timeout
StopReturns ==
    /\ stopper.pc = "wait"
    /\ LET stopped == /\ stopper.start = Nil \/ starts[stopper.start].done
                      /\ stopper.run = Nil \/ runs[stopper.run].phase = "over"
       IN  stopper' = [stopper EXCEPT !.pc = "returned", !.clean = stopped]
    /\ UNCHANGED <<scene, ev, link, starts, runs, remote, caller, signals>>

-----------------------------------------------------------------------------
NewCaller ==
    [pc |-> "idle", canceled |-> FALSE, err |-> Nil, on |-> Nil, linked |-> TRUE, mine |-> Nil, next |-> 1,
     families |-> {}, retries |-> 0, closed |-> 0,
     buf |-> <<>>, dropped |-> 0, told |-> 0, due |-> 0]

EventsInit ==
    /\ scene \in Scenes
    /\ ev = [retired |-> FALSE, starting |-> Nil, cancel |-> Nil, subs |-> {}, registered |-> {}]
    /\ link = [open |-> TRUE, down |-> FALSE, gone |-> FALSE]
    /\ starts = <<>> /\ runs = <<>> /\ remote = {} /\ signals = 0
    /\ caller = [c \in Callers |-> NewCaller]
    /\ stopper = [kind |-> Nil, pc |-> "idle", start |-> Nil, run |-> Nil, clean |-> FALSE]

Step(c) ==
    \/ Reserve(c) \/ WaitForRun(c) \/ CheckConnected(c) \/ StartEvents(c) \/ WaitForStart(c)
    \/ Register(c) \/ Subscribe(c) \/ PublishRun(c) \/ Undo(c) \/ FinishStart(c) \/ StartFailed(c)
    \/ Leave(c) \/ CancelRun(c)
RunStep(r) == EndRun(r) \/ Deregister(r) \/ FinishRun(r)
StopperStep == Look \/ StopAll \/ StopReturns

EventsNext ==
    \/ \E c \in Callers : Call(c) \/ Cancel(c) \/ SetupTimeout(c) \/ Step(c) \/ Receive(c)
    \/ \E r \in DOMAIN runs : Signal(r) \/ RunStep(r)
    \/ Lose \/ StopperStep
    \/ \E kind \in {"close", "watch", "retire"} : BeginStop(kind)

\* Goroutines run, the registry's calls end with their contexts, and a lost
\* connection is noticed.
EventsFairness ==
    /\ \A c \in Callers : WF_evars(Step(c))
    /\ \A r \in 1..(Cardinality(Callers) * (RetryLimit + 1)) :
          WF_evars(r \in DOMAIN runs /\ RunStep(r))
    /\ WF_evars(StopperStep)

EventsSpec == EventsInit /\ [][EventsNext]_evars /\ EventsFairness

-----------------------------------------------------------------------------
(* Properties.                                                              *)

\* While a dispatcher is published, the registry sends what it registered: the
\* cleanup of an earlier run or of a failed setup takes nothing away from it.
\* With neither dispatcher nor setup left, nothing stays registered, whatever
\* was canceled in between (finishEventStart and finishEventDispatcher come
\* after deregistration; registerEventFamilies counts unknown outcomes).
RegistrationsMatchRuns ==
    link.open =>
        /\ \A r \in DOMAIN runs :
              runs[r].phase = "live" => ev.cancel = r /\ runs[r].families \subseteq remote
        /\ ev.cancel = Nil /\ ev.starting = Nil => remote = {}

\* Every stream is closed exactly once, when its subscriber is gone, and none
\* is left to a dispatcher that is over (closeEventSubscriber).
StreamsCloseOnce ==
    \A c \in Callers :
        /\ caller[c].closed <= 1
        /\ caller[c].pc \in {"stream", "left", "refused"} /\ c \notin ev.subs => caller[c].closed = 1
        /\ c \in ev.subs /\ caller[c].pc = "stream" => ev.cancel # Nil

\* An event says how many its subscriber has missed: the running totals over
\* the events in the channel lead from those it has been told of to every signal
\* since it subscribed, but for those that are counted and not told yet
\* (deliverEvent, and coalesceEvent before it).
DropsAreCounted ==
    \A c \in Callers :
        LET r == caller[c]
        IN  \E total \in [0..Len(r.buf) -> 0..r.due] :
                /\ total[0] = r.told
                /\ \A i \in 1..Len(r.buf) : total[i] = total[i - 1] + 1 + r.buf[i]
                /\ r.due = total[Len(r.buf)] + r.dropped

\* Every stream is closed exactly once, when its subscriber is gone, and an
\* event says how many its subscriber has missed (closeEventSubscriber,
\* deliverEvent).
StreamsAreExact == StreamsCloseOnce /\ DropsAreCounted

\* A caller is not told that it was canceled because of one other caller that
\* was: it takes RetryLimit + 1 of them (waitForEventStart).
CancellationIsPrivate ==
    \A c \in Callers :
        caller[c].err = "canceled" /\ caller[c].pc = "refused" /\ ~caller[c].canceled
            /\ stopper.pc = "idle" =>
            Cardinality({d \in Callers : caller[d].canceled}) > RetryLimit

\* A dispatcher without subscribers ends (startEvents, watchSubscriber).
EventsSettle == (ev.subs = {} /\ ev.cancel # Nil) ~> (ev.cancel = Nil)

\* No call is under way that has to return: a caller whose context ends is told
\* and its stream is closed, and after Close nobody waits and no stream is open
\* (waitForEventRun, waitForEventStart, watchSubscriber, stopEvents).
Quiet ==
    \A c \in Callers :
        caller[c].canceled \/ (caller[c].pc # "idle" /\ stopper.kind = "close") =>
            caller[c].pc \in {"last", "left", "refused", "stream"} /\ caller[c].closed = 1
=============================================================================
