-------------------------- MODULE SessionWaitProofs --------------------------
(***************************************************************************)
(* The waits of SessionWait, for any number of waiters, any conditions and *)
(* any number of changes: no wakeup is lost, the evidence is true, and the *)
(* verdict follows what was read; and the failures of a wait, any number   *)
(* of them, exceed a limit exactly when the wait gives up.                 *)
(***************************************************************************)
EXTENDS SessionWait, WaitFailureLog, FiniteSetTheorems, SequenceTheorems, TLAPS

-----------------------------------------------------------------------------
(* Types.                                                                  *)

Vals == {"unread", "true", "false", "transient", "permanent"}
Readings == [val : Vals, ver : Nat]
\* Where a waiter has an epoch
Holding == {"evaluate", "combine", "transient", "permanent", "recheck", "select"}
Places == Holding \cup {"absent", "idle", "state", "subscribe", "sources", "returned"}

\* The scene is one of those considered.
SceneOK == scene \in Scenes

\* The types of the desktop, the goroutines that feed the hub, and the hub.
FeedsOK ==
    /\ truth \in [Facts -> BOOLEAN]
    /\ version \in [Facts -> Nat] /\ emitted \in [Facts -> Nat]
    /\ health \in [Facts -> {"ok"} \cup Errors]
    /\ hints \in [Streams -> Nat]
    /\ stream \in [Streams -> {"off", "opening", "open", "ended"}]
    /\ forwarder \in [Streams -> {"off", "receive", "notify", "ended"}]
    /\ reaper \in {"wait", "lookup", "notify", "ended"}
    /\ reaper # "wait" => "application" \in Facts
    /\ once \in {"no", "running", "done"} /\ hub \in BOOLEAN
    /\ notices \in Seq(Sources)
    /\ closed \in BOOLEAN /\ cancelled \in BOOLEAN

\* The types of a waiter's locals that the properties are about.
WaitersOK ==
    /\ pc \in [Waiters -> Places]
    /\ kid \in [Waiters -> Nat \ {0}]
    /\ errs \in [Waiters -> SUBSET Errors]
    /\ DOMAIN obs = Waiters /\ obs = [w \in Waiters |-> obs[w]]
    /\ \A w \in Waiters : obs[w] \in [DOMAIN Kids(w) -> Readings]
    /\ epoch \in [Waiters -> Nat]
    /\ wakes \in [Waiters -> [Sources -> Nat]]
    /\ obsolete \in [Waiters -> BOOLEAN]
    /\ result \in [Waiters -> {"none", "ok", "canceled", "closed", "permanent", "exhausted"}]

\* The type invariant of SessionWait.
TypeOK == SceneOK /\ FeedsOK /\ WaitersOK

\* What a scene is.
LEMMA SceneFacts ==
    ASSUME SceneOK
    PROVE  /\ Facts \subseteq AllStreams \cup {"application", "caller"}
           /\ Streams \subseteq Sources /\ Sources \subseteq Facts /\ "caller" \notin Sources
           /\ \A w \in Waiters :
                 /\ Kids(w) \in Seq(Facts) /\ Len(Kids(w)) \in Nat
                 /\ DOMAIN Kids(w) = 1..Len(Kids(w))
                 /\ \A i \in DOMAIN Kids(w) : Kids(w)[i] \in Facts
                 /\ Mode(w) \in {"all", "any", "not"}
                 /\ Mode(w) = "not" => Len(Kids(w)) = 1
<1>1. /\ scene.facts \subseteq AllStreams \cup {"application", "caller"}
      /\ \A w \in DOMAIN scene.conditions :
              /\ scene.conditions[w].mode \in {"all", "any", "not"}
              /\ scene.conditions[w].kids \in Seq(scene.facts)
              /\ scene.conditions[w].mode = "not" => Len(scene.conditions[w].kids) = 1
  BY ScenesAreScenes DEF SceneOK
<1>2. Facts \subseteq AllStreams \cup {"application", "caller"}
  BY <1>1 DEF Facts
<1>3. Streams \subseteq Sources /\ Sources \subseteq Facts /\ "caller" \notin Sources
  BY DEF Streams, Sources, AllStreams
<1>4. ASSUME NEW w \in Waiters
      PROVE  Kids(w) \in Seq(Facts) /\ Mode(w) \in {"all", "any", "not"}
             /\ (Mode(w) = "not" => Len(Kids(w)) = 1)
  <2>1. CASE Here(w)
    BY <1>1, <2>1 DEF Here, Kids, Mode, Facts
  <2>2. CASE ~Here(w)
    <3>1. Kids(w) = <<>> /\ Mode(w) = "all"
      BY <2>2 DEF Kids, Mode
    <3> QED BY <3>1
  <2> QED BY <2>1, <2>2
<1>5. ASSUME NEW s \in Seq(Facts)
      PROVE  Len(s) \in Nat /\ DOMAIN s = 1..Len(s) /\ \A i \in DOMAIN s : s[i] \in Facts
  OBVIOUS
<1> QED BY <1>2, <1>3, <1>4, <1>5

\* The scene stays, and with it all that it says.
LEMMA SceneStays ==
    ASSUME scene' = scene
    PROVE  /\ Facts' = Facts /\ Streams' = Streams /\ Sources' = Sources
           /\ \A w \in Waiters : Kids(w)' = Kids(w) /\ Mode(w)' = Mode(w)
  BY DEF Facts, Streams, Sources, Kids, Mode, Here
\* A step of the desktop or of the feeds keeps the types (Environment, FeedStep).
LEMMA FeedsStay ==
    ASSUME SceneOK, FeedsOK, scene' = scene, Environment \/ FeedStep
    PROVE  FeedsOK'
<1>0. /\ Facts' = Facts /\ Streams' = Streams /\ Sources' = Sources
      /\ Streams \subseteq Sources /\ Sources \subseteq Facts
  BY SceneStays, SceneFacts
<1> USE <1>0 DEF FeedsOK
<1>1. ASSUME NEW s \in Streams, Change(s) PROVE FeedsOK'
  <2>1. s \in Facts /\ version[s] \in Nat /\ hints[s] \in Nat /\ version[s] + 1 \in Nat /\ hints[s] + 1 \in Nat
    BY <1>1
  <2>2. truth' \in [Facts -> BOOLEAN] /\ version' \in [Facts -> Nat]
    BY <1>1, <2>1 DEF Change
  <2>3. emitted' \in [Facts -> Nat] /\ hints' \in [Streams -> Nat]
    <3>1. CASE stream[s] = "open"
      <4>1. /\ emitted' = [emitted EXCEPT ![s] = version'[s]]
            /\ hints' = [hints EXCEPT ![s] = IF @ < Buffer[s] THEN @ + 1 ELSE @]
        BY <1>1, <3>1 DEF Change
      <4>2. version'[s] \in Nat
        BY <2>1, <2>2
      <4> QED BY <4>1, <4>2, <2>1
    <3>2. CASE stream[s] # "open"
      BY <1>1, <3>2 DEF Change
    <3> QED BY <3>1, <3>2
  <2>4. UNCHANGED <<health, stream, forwarder, reaper, once, hub, notices, closed, cancelled>>
    BY <1>1 DEF Change, hubVars, session
  <2> QED BY <2>2, <2>3, <2>4
<1>2. ASSUME NEW s \in Streams, StreamEnds(s) \/ StreamOpens(s) \/ Receive(s) \/ ForwarderEnds(s) PROVE FeedsOK'
  <2>1. UNCHANGED <<truth, version, emitted, health, reaper, once, hub, notices, closed, cancelled>>
    BY <1>2 DEF StreamEnds, StreamOpens, Receive, ForwarderEnds, desktop, hubVars, session
  <2>2. /\ stream' \in [Streams -> {"off", "opening", "open", "ended"}]
        /\ forwarder' \in [Streams -> {"off", "receive", "notify", "ended"}]
    BY <1>2 DEF StreamEnds, StreamOpens, Receive, ForwarderEnds
  <2>3. hints' \in [Streams -> Nat]
    <3>1. CASE Receive(s)
      <4>1. hints[s] \in Nat /\ hints[s] > 0 /\ hints' = [hints EXCEPT ![s] = @ - 1]
        BY <3>1 DEF Receive
      <4>2. hints[s] - 1 \in Nat
        BY <4>1
      <4> QED BY <4>1, <4>2
    <3>2. CASE StreamEnds(s) \/ StreamOpens(s) \/ ForwarderEnds(s)
      BY <3>2 DEF StreamEnds, StreamOpens, ForwarderEnds
    <3> QED BY <1>2, <3>1, <3>2
  <2> QED BY <2>1, <2>2, <2>3
<1>3. ASSUME NEW s \in Streams, Forward(s) PROVE FeedsOK'
  <2>1. UNCHANGED <<truth, version, emitted, health, stream, hints, reaper, once, hub, closed, cancelled>>
    BY <1>3 DEF Forward, desktop, session
  <2>2. forwarder' \in [Streams -> {"off", "receive", "notify", "ended"}]
    BY <1>3 DEF Forward
  <2>3. s \in Sources /\ notices' = Append(notices, s)
    BY <1>3 DEF Forward, Notify
  <2>4. notices' \in Seq(Sources)
    BY <2>3
  <2> QED BY <2>1, <2>2, <2>4
<1>4. ASSUME NEW f \in Facts, BecomeReadable(f) \/ \E e \in Errors : BecomeUnreadable(f, e) PROVE FeedsOK'
  <2>1. UNCHANGED <<truth, version, emitted, stream, forwarder, hints, reaper, once, hub, notices, closed, cancelled>>
    BY <1>4 DEF BecomeReadable, BecomeUnreadable, feeds, hubVars, session
  <2>2. health' \in [Facts -> {"ok"} \cup Errors]
    BY <1>4, ZenonT(30) DEF BecomeReadable, BecomeUnreadable
  <2> QED BY <2>1, <2>2
<1>5. CASE CallerChanges
  <2>1. "caller" \in Facts /\ version["caller"] + 1 \in Nat
    BY <1>5 DEF CallerChanges
  <2>2. truth' \in [Facts -> BOOLEAN] /\ version' \in [Facts -> Nat]
    BY <1>5, <2>1 DEF CallerChanges
  <2>3. UNCHANGED <<emitted, health, stream, forwarder, hints, reaper, once, hub, notices, closed, cancelled>>
    BY <1>5 DEF CallerChanges, feeds, hubVars, session
  <2> QED BY <2>2, <2>3
<1>6. CASE ApplicationExits
  <2>1. /\ truth' \in [Facts -> BOOLEAN] /\ version' \in [Facts -> Nat] /\ emitted' \in [Facts -> Nat]
        /\ reaper' = "lookup" /\ "application" \in Facts
    BY <1>6 DEF ApplicationExits
  <2>2. UNCHANGED <<health, stream, forwarder, hints, once, hub, notices, closed, cancelled>>
    BY <1>6 DEF ApplicationExits, hubVars, session
  <2> QED BY <2>1, <2>2
<1>7. CASE TimePasses \/ \E w \in Waiters : CallerCancels(w)
  <2>1. UNCHANGED <<desktop, feeds, hubVars, session>>
    BY <1>7 DEF TimePasses, CallerCancels
  <2> QED BY <2>1 DEF desktop, feeds, hubVars, session
<1>8. CASE SessionCloses \/ SessionCancels
  <2>1. UNCHANGED <<desktop, feeds, hubVars>> /\ closed' \in BOOLEAN /\ cancelled' \in BOOLEAN
    BY <1>8 DEF SessionCloses, SessionCancels
  <2> QED BY <2>1 DEF desktop, feeds, hubVars
<1>9. CASE ReaperLooksUp \/ ReaperNotifies
  <2>1. UNCHANGED <<truth, version, emitted, health, stream, hints, forwarder, once, hub, closed, cancelled>>
    BY <1>9 DEF ReaperLooksUp, ReaperNotifies, desktop, session, hubVars
  <2>2. reaper' \in {"notify", "ended"} /\ reaper # "wait"
    BY <1>9 DEF ReaperLooksUp, ReaperNotifies
  <2>3. notices' \in Seq(Sources)
    <3>1. CASE ReaperLooksUp
      BY <3>1 DEF ReaperLooksUp, hubVars
    <3>2. CASE ReaperNotifies
      <4>1. notices' = Append(notices, "application")
        BY <3>2 DEF ReaperNotifies, Notify
      <4>2. "application" \in Sources
        BY <3>2 DEF ReaperNotifies, Sources
      <4> QED BY <4>1, <4>2
    <3> QED BY <1>9, <3>1, <3>2
  <2> QED BY <2>1, <2>2, <2>3
<1> QED BY <1>1, <1>2, <1>3, <1>4, <1>5, <1>6, <1>7, <1>8, <1>9 DEF Environment, FeedStep

\* A step of a waiter keeps the types of the feeds (PublishHub, StartSources).
LEMMA FeedsStayWaiter ==
    ASSUME SceneOK, FeedsOK, scene' = scene, NEW w \in Waiters, WaiterStep(w)
    PROVE  FeedsOK'
<1>0. Facts' = Facts /\ Streams' = Streams /\ Sources' = Sources
  BY SceneStays
<1>1. UNCHANGED <<truth, version, emitted, health, hints, reaper, notices, closed, cancelled>>
  BY DEF WaiterStep, Call, CheckState, PublishHub, StartSources, Subscribe, ReadChild, Combine,
         EndOfChildren, JudgeError, Recheck, WakeByEvent, WakeByPoll, SelectCancelled, SelectClosed,
         desktop, feeds, hubVars, session
<1>2. /\ stream' \in [Streams -> {"off", "opening", "open", "ended"}]
      /\ forwarder' \in [Streams -> {"off", "receive", "notify", "ended"}]
      /\ once' \in {"no", "running", "done"} /\ hub' \in BOOLEAN
  <2>1. CASE PublishHub(w)
    BY <2>1 DEF PublishHub, feeds, FeedsOK
  <2>2. CASE StartSources(w)
    BY <2>2 DEF StartSources, FeedsOK
  <2>3. CASE UNCHANGED <<stream, forwarder, once, hub>>
    BY <2>3 DEF FeedsOK
  <2>4. CASE \/ Call(w) \/ CheckState(w) \/ Subscribe(w) \/ ReadChild(w) \/ Combine(w)
             \/ EndOfChildren(w) \/ JudgeError(w) \/ Recheck(w) \/ WakeByEvent(w) \/ WakeByPoll(w)
             \/ SelectCancelled(w) \/ SelectClosed(w)
    <3>1. UNCHANGED <<feeds, hubVars>>
      BY <2>4 DEF Call, CheckState, Subscribe, ReadChild, Combine, EndOfChildren, JudgeError, Recheck,
           WakeByEvent, WakeByPoll, SelectCancelled, SelectClosed
    <3> QED BY <2>3, <3>1 DEF feeds, hubVars
  <2> QED BY <2>1, <2>2, <2>4 DEF WaiterStep
<1> QED BY <1>0, <1>1, <1>2 DEF FeedsOK

-----------------------------------------------------------------------------
(* The waiters' steps.                                                     *)

\* The step leaves waiter v alone.
Same(v) ==
    /\ pc'[v] = pc[v] /\ kid'[v] = kid[v] /\ errs'[v] = errs[v] /\ obs'[v] = obs[v]
    /\ epoch'[v] = epoch[v] /\ wakes'[v] = wakes[v] /\ obsolete'[v] = obsolete[v]
    /\ result'[v] = result[v]

\* The step of waiter w is one of its own.
Alone(w) == WaitersOK' /\ \A v \in Waiters : v # w => Same(v)

\* The steps of the others leave the waiters alone, and nobody who has given up
\* goes on (Environment, FeedStep).
LEMMA OthersSteps ==
    ASSUME Environment \/ FeedStep
    PROVE  UNCHANGED locals /\ ctxDone \subseteq ctxDone' /\ (closed => closed')
           /\ (cancelled => cancelled')
  BY DEF Environment, FeedStep, Change, CallerChanges, BecomeUnreadable, BecomeReadable, TimePasses,
         StreamOpens, StreamEnds, Receive, Forward, ForwarderEnds, ApplicationExits, ReaperLooksUp,
         ReaperNotifies, CallerCancels, SessionCloses, SessionCancels, session

\* A waiter returns, or goes to another place and leaves its other locals.
LEMMA PlaceStep ==
    ASSUME WaitersOK, scene' = scene, NEW w \in Waiters, NEW l \in Places, pc' = [pc EXCEPT ![w] = l],
           result' \in [Waiters -> {"none", "ok", "canceled", "closed", "permanent", "exhausted"}],
           \A v \in Waiters : v # w => result'[v] = result[v],
           UNCHANGED <<kid, errs, obs, epoch, wakes, obsolete>>
    PROVE  Alone(w) /\ pc'[w] = l
<1>1. pc' \in [Waiters -> Places] /\ pc'[w] = l /\ \A v \in Waiters : v # w => pc'[v] = pc[v]
  BY DEF WaitersOK
<1>2. \A v \in Waiters : Kids(v)' = Kids(v)
  BY SceneStays
<1>3. Sources' = Sources
  BY SceneStays
<1> QED BY <1>1, <1>2, <1>3 DEF WaitersOK, Alone, Same

\* A result is written (Return).
LEMMA ResultStep ==
    ASSUME WaitersOK, NEW w \in Waiters,
           NEW r \in {"ok", "canceled", "closed", "permanent", "exhausted"}, Return(w, r)
    PROVE  /\ result' \in [Waiters -> {"none", "ok", "canceled", "closed", "permanent", "exhausted"}]
           /\ \A v \in Waiters : v # w => result'[v] = result[v]
           /\ result'[w] = r /\ pc' = [pc EXCEPT ![w] = "returned"]
  BY DEF WaitersOK, Return, GoTo

\* The steps that change only where a waiter is, and its result (Call,
\* CheckState, PublishHub, StartSources, JudgeError, Recheck, SelectCancelled
\* and SelectClosed).
LEMMA MovesAlone ==
    ASSUME WaitersOK, scene' = scene, NEW w \in Waiters,
           \/ Call(w) \/ CheckState(w) \/ PublishHub(w) \/ StartSources(w) \/ JudgeError(w)
           \/ Recheck(w) \/ SelectCancelled(w) \/ SelectClosed(w)
    PROVE  Alone(w) /\ UNCHANGED <<kid, errs, obs, epoch, wakes, obsolete>>
<1>1. UNCHANGED <<kid, errs, obs, epoch, wakes, obsolete>>
  BY DEF Call, CheckState, PublishHub, StartSources, JudgeError, Recheck, SelectCancelled, SelectClosed
<1>2. CASE \E r \in {"ok", "canceled", "closed", "permanent", "exhausted"} : Return(w, r)
  BY <1>1, <1>2, ResultStep, PlaceStep DEF Places
<1>3. CASE \E l \in Places : GoTo(w, l) /\ UNCHANGED result
  BY <1>1, <1>3, PlaceStep, ZenonT(30) DEF GoTo, WaitersOK
<1>4. \/ \E r \in {"ok", "canceled", "closed", "permanent", "exhausted"} : Return(w, r)
      \/ \E l \in Places : GoTo(w, l) /\ UNCHANGED result
  <2>1. CASE Call(w) \/ CheckState(w)
    BY <2>1 DEF Call, CheckState, StateError, Places, Holding
  <2>2. CASE PublishHub(w) \/ StartSources(w)
    BY <2>2 DEF PublishHub, StartSources, Places, Holding
  <2>3. CASE JudgeError(w)
    BY <2>3 DEF JudgeError, StateError, Places, Holding
  <2>4. CASE Recheck(w) \/ SelectCancelled(w) \/ SelectClosed(w)
    BY <2>4 DEF Recheck, SelectCancelled, SelectClosed, StateError, Places, Holding
  <2> QED BY <2>1, <2>2, <2>3, <2>4
<1> QED BY <1>1, <1>2, <1>3, <1>4

\* An epoch is subscribed (Subscribe).
LEMMA SubscribeAlone ==
    ASSUME FeedsOK, WaitersOK, scene' = scene, NEW w \in Waiters, Subscribe(w)
    PROVE  Alone(w) /\ pc'[w] = "evaluate" /\ epoch'[w] = Len(notices) + 1
           /\ UNCHANGED <<kid, errs, obs, wakes, obsolete, result>>
<1>1. Len(notices) + 1 \in Nat
  BY DEF FeedsOK
<1>2. \A v \in Waiters : Kids(v)' = Kids(v)
  BY SceneStays
<1>3. Sources' = Sources
  BY SceneStays
<1>4. UNCHANGED <<kid, errs, obs, wakes, obsolete, result>>
  BY DEF Subscribe
<1>5. /\ pc' = [pc EXCEPT ![w] = "evaluate"] /\ epoch' = [epoch EXCEPT ![w] = Len(notices) + 1]
  BY DEF Subscribe, GoTo, Subscribed
<1>6. /\ pc' \in [Waiters -> Places] /\ pc'[w] = "evaluate" /\ \A v \in Waiters : v # w => pc'[v] = pc[v]
      /\ epoch' \in [Waiters -> Nat] /\ epoch'[w] = Len(notices) + 1
      /\ \A v \in Waiters : v # w => epoch'[v] = epoch[v]
  BY <1>1, <1>5 DEF WaitersOK, Places, Holding
<1> QED BY <1>2, <1>3, <1>4, <1>6 DEF WaitersOK, Alone, Same

\* A child is read, as the version that its fact has now (ReadChild).
LEMMA ReadAlone ==
    ASSUME SceneOK, FeedsOK, WaitersOK, scene' = scene, NEW w \in Waiters, ReadChild(w)
    PROVE  /\ Alone(w) /\ pc[w] = "evaluate" /\ pc'[w] = "combine"
           /\ UNCHANGED <<kid, errs, epoch, wakes, obsolete, result>>
           /\ kid[w] \in DOMAIN Kids(w)
           /\ obs'[w][kid[w]].val # "unread" /\ obs'[w][kid[w]].ver = version[Kids(w)[kid[w]]]
           /\ \A i \in DOMAIN Kids(w) : i # kid[w] => obs'[w][i] = obs[w][i]
<1>1. kid[w] \in DOMAIN Kids(w) /\ Kids(w)[kid[w]] \in Facts
  <2>1. kid[w] \in Nat \ {0} /\ kid[w] <= Len(Kids(w))
    BY DEF ReadChild, WaitersOK
  <2>2. Len(Kids(w)) \in Nat /\ DOMAIN Kids(w) = 1..Len(Kids(w))
        /\ \A i \in DOMAIN Kids(w) : Kids(w)[i] \in Facts
    BY SceneFacts
  <2> QED BY <2>1, <2>2
<1> DEFINE f == Kids(w)[kid[w]]
           k == kid[w]
<1>2. f \in Facts /\ k \in DOMAIN Kids(w)
  BY <1>1
<1>3. PICK v \in Reading(w, f) : obs' = [obs EXCEPT ![w][k] = [val |-> v, ver |-> version[f]]]
  BY DEF ReadChild
<1> HIDE DEF f, k
<1>4. v \in {"true", "false", "transient", "permanent"}
  BY <1>2, <1>3 DEF Reading, Errors, FeedsOK
<1>5. version[f] \in Nat
  BY <1>2 DEF FeedsOK
<1> DEFINE r == [val |-> v, ver |-> version[f]]
<1>6. r \in Readings /\ r.val # "unread" /\ r.ver = version[f]
  BY <1>4, <1>5 DEF Readings, Vals
<1>7. obs' = [obs EXCEPT ![w][k] = r]
  BY <1>3
<1> HIDE DEF r
<1> DEFINE o == [obs[w] EXCEPT ![k] = r]
<1>8. obs[w] \in [DOMAIN Kids(w) -> Readings]
  BY DEF WaitersOK
<1>9. o \in [DOMAIN Kids(w) -> Readings] /\ o[k] = r /\ \A i \in DOMAIN Kids(w) : i # k => o[i] = obs[w][i]
  BY <1>2, <1>6, <1>8
<1>10. obs' = [obs EXCEPT ![w] = o]
  BY <1>7
<1> HIDE DEF o
<1>11. /\ DOMAIN obs' = Waiters /\ obs' = [v2 \in Waiters |-> obs'[v2]] /\ obs'[w] = o
       /\ \A v2 \in Waiters : v2 # w => obs'[v2] = obs[v2]
  BY <1>10 DEF WaitersOK
<1>12. \A v2 \in Waiters : Kids(v2)' = Kids(v2)
  BY SceneStays
<1>13. Sources' = Sources
  BY SceneStays
<1>14. UNCHANGED <<kid, errs, epoch, wakes, obsolete, result>> /\ pc' = [pc EXCEPT ![w] = "combine"]
       /\ pc[w] = "evaluate"
  BY DEF ReadChild, GoTo
<1>15. pc' \in [Waiters -> Places] /\ pc'[w] = "combine" /\ \A v2 \in Waiters : v2 # w => pc'[v2] = pc[v2]
  BY <1>14 DEF WaitersOK, Places, Holding
<1>16. \A v2 \in Waiters : obs'[v2] \in [DOMAIN Kids(v2) -> Readings]
  BY <1>9, <1>11 DEF WaitersOK
<1>17. WaitersOK'
  BY <1>11, <1>12, <1>13, <1>14, <1>15, <1>16 DEF WaitersOK
<1>18. \A v2 \in Waiters : v2 # w => Same(v2)
  BY <1>11, <1>14, <1>15 DEF Same
<1> QED BY <1>1, <1>6, <1>9, <1>11, <1>14, <1>15, <1>17, <1>18 DEF Alone, f, k

\* The evaluation of waiter w ends with v (Evaluated).
LEMMA EvaluatedAlone ==
    ASSUME WaitersOK, scene' = scene, NEW w \in Waiters, NEW v, Evaluated(w, v),
           UNCHANGED <<obs, epoch, wakes, result>>
    PROVE  /\ Alone(w) /\ kid'[w] = 1 /\ errs'[w] = {}
           /\ pc'[w] = IF v \in Errors THEN v ELSE IF v = "true" THEN "recheck" ELSE "select"
           /\ obsolete'[w] = (v = "true" /\ GivenUp(w))
<1> DEFINE l == IF v \in Errors THEN v ELSE IF v = "true" THEN "recheck" ELSE "select"
           b == (v = "true" /\ GivenUp(w))
<1>1. l \in Places /\ b \in BOOLEAN
  BY DEF Places, Holding, Errors
<1>2. /\ kid' = [kid EXCEPT ![w] = 1] /\ errs' = [errs EXCEPT ![w] = {}]
      /\ pc' = [pc EXCEPT ![w] = l] /\ obsolete' = [obsolete EXCEPT ![w] = b]
  BY DEF Evaluated, GoTo
<1> HIDE DEF l, b
<1>3. /\ kid' \in [Waiters -> Nat \ {0}] /\ kid'[w] = 1 /\ \A u \in Waiters : u # w => kid'[u] = kid[u]
      /\ errs' \in [Waiters -> SUBSET Errors] /\ errs'[w] = {} /\ \A u \in Waiters : u # w => errs'[u] = errs[u]
  BY <1>2 DEF WaitersOK
<1>4. /\ pc' \in [Waiters -> Places] /\ pc'[w] = l /\ \A u \in Waiters : u # w => pc'[u] = pc[u]
      /\ obsolete' \in [Waiters -> BOOLEAN] /\ obsolete'[w] = b
      /\ \A u \in Waiters : u # w => obsolete'[u] = obsolete[u]
  BY <1>1, <1>2 DEF WaitersOK
<1>5. \A u \in Waiters : Kids(u)' = Kids(u)
  BY SceneStays
<1>6. Sources' = Sources
  BY SceneStays
<1>7. WaitersOK'
  BY <1>3, <1>4, <1>5, <1>6 DEF WaitersOK
<1>8. \A u \in Waiters : u # w => Same(u)
  BY <1>3, <1>4 DEF Same
<1> QED BY <1>3, <1>4, <1>7, <1>8 DEF Alone, l, b

\* A child's report has decided nothing, and the next one is evaluated (Combine).
LEMMA NextChildAlone ==
    ASSUME WaitersOK, scene' = scene, NEW w \in Waiters, Combine(w),
           ~ShortCircuits(Mode(w), obs[w][kid[w]].val)
    PROVE  /\ Alone(w) /\ kid'[w] = kid[w] + 1 /\ pc'[w] = "evaluate"
           /\ errs'[w] = errs[w] \cup ({obs[w][kid[w]].val} \cap Errors)
           /\ UNCHANGED <<obs, epoch, wakes, obsolete, result>>
<1> DEFINE e == {obs[w][kid[w]].val} \cap Errors
<1>1. /\ kid' = [kid EXCEPT ![w] = @ + 1] /\ errs' = [errs EXCEPT ![w] = @ \cup e]
      /\ pc' = [pc EXCEPT ![w] = "evaluate"] /\ UNCHANGED <<obs, epoch, wakes, obsolete, result>>
  BY DEF Combine, GoTo
<1>2. e \subseteq Errors
  OBVIOUS
<1> HIDE DEF e
<1>3. kid[w] + 1 \in Nat \ {0} /\ errs[w] \cup e \in SUBSET Errors
  BY <1>2 DEF WaitersOK
<1>4. /\ kid' \in [Waiters -> Nat \ {0}] /\ kid'[w] = kid[w] + 1
      /\ \A u \in Waiters : u # w => kid'[u] = kid[u]
  BY <1>1, <1>3 DEF WaitersOK
<1>5. /\ errs' \in [Waiters -> SUBSET Errors] /\ errs'[w] = errs[w] \cup e
      /\ \A u \in Waiters : u # w => errs'[u] = errs[u]
  BY <1>1, <1>3 DEF WaitersOK
<1>6. pc' \in [Waiters -> Places] /\ pc'[w] = "evaluate" /\ \A u \in Waiters : u # w => pc'[u] = pc[u]
  BY <1>1 DEF WaitersOK, Places, Holding
<1>7. \A u \in Waiters : Kids(u)' = Kids(u)
  BY SceneStays
<1>8. Sources' = Sources
  BY SceneStays
<1>9. WaitersOK'
  BY <1>1, <1>4, <1>5, <1>6, <1>7, <1>8 DEF WaitersOK
<1>10. \A u \in Waiters : u # w => Same(u)
  BY <1>1, <1>4, <1>5, <1>6 DEF Same
<1> QED BY <1>1, <1>4, <1>5, <1>6, <1>9, <1>10 DEF Alone, e

\* The next round begins: the waiter has no epoch and has read nothing (NextRound).
LEMMA RoundAlone ==
    ASSUME SceneOK, WaitersOK, scene' = scene, NEW w \in Waiters, NextRound(w),
           UNCHANGED <<kid, errs, obsolete, result>>,
           wakes' \in [Waiters -> [Sources -> Nat]], \A u \in Waiters : u # w => wakes'[u] = wakes[u]
    PROVE  /\ Alone(w) /\ pc'[w] = "state"
           /\ \A i \in DOMAIN Kids(w) : obs'[w][i] = Unread
<1> DEFINE o == [i \in DOMAIN Kids(w) |-> Unread]
<1>1. o \in [DOMAIN Kids(w) -> Readings] /\ \A i \in DOMAIN Kids(w) : o[i] = Unread
  BY DEF Unread, Readings, Vals
<1>2. /\ pc' = [pc EXCEPT ![w] = "state"] /\ epoch' = [epoch EXCEPT ![w] = 0]
      /\ obs' = [obs EXCEPT ![w] = o]
  BY DEF NextRound, GoTo
<1> HIDE DEF o
<1>3. pc' \in [Waiters -> Places] /\ pc'[w] = "state" /\ \A u \in Waiters : u # w => pc'[u] = pc[u]
  BY <1>2 DEF WaitersOK, Places
<1>4. epoch' \in [Waiters -> Nat] /\ \A u \in Waiters : u # w => epoch'[u] = epoch[u]
  BY <1>2 DEF WaitersOK
<1>5. /\ DOMAIN obs' = Waiters /\ obs' = [u \in Waiters |-> obs'[u]] /\ obs'[w] = o
      /\ \A u \in Waiters : u # w => obs'[u] = obs[u]
  BY <1>2 DEF WaitersOK
<1>6. \A u \in Waiters : Kids(u)' = Kids(u)
  BY SceneStays
<1>7. Sources' = Sources
  BY SceneStays
<1>8. \A u \in Waiters : obs'[u] \in [DOMAIN Kids(u) -> Readings]
  BY <1>1, <1>5 DEF WaitersOK
<1>9. WaitersOK'
  BY <1>3, <1>4, <1>5, <1>6, <1>7, <1>8 DEF WaitersOK
<1>10. \A u \in Waiters : u # w => Same(u)
  BY <1>3, <1>4, <1>5 DEF Same
<1> QED BY <1>1, <1>3, <1>5, <1>9, <1>10 DEF Alone

\* A notification wakes the waiter, which counts it (WakeByEvent).
LEMMA WakeAlone ==
    ASSUME SceneOK, FeedsOK, WaitersOK, scene' = scene, NEW w \in Waiters, WakeByEvent(w), epoch[w] >= 1
    PROVE  /\ Alone(w) /\ pc[w] = "select" /\ pc'[w] = "state"
           /\ \A i \in DOMAIN Kids(w) : obs'[w][i] = Unread
           /\ UNCHANGED <<kid, errs, obsolete, result>>
           /\ epoch[w] \in DOMAIN notices
           /\ \A s \in Sources : wakes'[w][s] = wakes[w][s] + (IF s = notices[epoch[w]] THEN 1 ELSE 0)
<1> DEFINE c == notices[epoch[w]]
           k == [wakes[w] EXCEPT ![c] = @ + 1]
<1>1. epoch[w] \in DOMAIN notices /\ c \in Sources
  <2>1. epoch[w] \in Nat /\ epoch[w] <= Len(notices) /\ notices \in Seq(Sources)
    BY DEF WakeByEvent, EpochDone, FeedsOK, WaitersOK
  <2> QED BY <2>1
<1>2. wakes[w] \in [Sources -> Nat]
  BY DEF WaitersOK
<1>3. wakes' = [wakes EXCEPT ![w][c] = @ + 1]
  BY DEF WakeByEvent, RecordedChange
<1> HIDE DEF c
<1>4. wakes[w][c] + 1 \in Nat
  BY <1>1, <1>2
<1>5. k \in [Sources -> Nat]
  BY <1>1, <1>2, <1>4
<1>6. \A s \in Sources : k[s] = wakes[w][s] + (IF s = c THEN 1 ELSE 0)
  BY <1>2
<1>7. wakes' = [wakes EXCEPT ![w] = k]
  BY <1>3
<1> HIDE DEF k
<1>8. wakes' \in [Waiters -> [Sources -> Nat]] /\ wakes'[w] = k /\ \A u \in Waiters : u # w => wakes'[u] = wakes[u]
  BY <1>5, <1>7 DEF WaitersOK
<1>9. NextRound(w) /\ UNCHANGED <<kid, errs, obsolete, result>> /\ pc[w] = "select"
  BY DEF WakeByEvent
<1> QED BY <1>1, <1>6, <1>8, <1>9, RoundAlone DEF c

\* The ticker wakes it (WakeByPoll).
LEMMA PollAlone ==
    ASSUME SceneOK, WaitersOK, scene' = scene, NEW w \in Waiters, WakeByPoll(w)
    PROVE  /\ Alone(w) /\ pc[w] = "select" /\ pc'[w] = "state"
           /\ \A i \in DOMAIN Kids(w) : obs'[w][i] = Unread
           /\ UNCHANGED <<kid, errs, wakes, obsolete, result>>
<1>1. NextRound(w) /\ UNCHANGED <<kid, errs, wakes, obsolete, result>> /\ pc[w] = "select"
  BY DEF WakeByPoll
<1> QED BY <1>1, RoundAlone DEF WaitersOK

-----------------------------------------------------------------------------
(* No wakeup is lost.                                                      *)

\* The hub is there before anybody holds an epoch; an epoch that is held is the
\* current one or closed; who holds none has read nothing; and nothing is
\* announced before it happens, or for a Predicate.
HubInv ==
    /\ once \in {"running", "done"} => hub
    /\ \A w \in Waiters :
          /\ pc[w] = "sources" => once = "running" /\ \A u \in Waiters : pc[u] = "sources" => u = w
          /\ pc[w] \in Holding => once = "done" /\ 1 <= epoch[w] /\ epoch[w] <= Len(notices) + 1
          /\ pc[w] \in {"absent", "idle", "state", "subscribe", "sources"} =>
                \A i \in DOMAIN Kids(w) : obs[w][i] = Unread
    /\ \A f \in Facts : emitted[f] <= version[f] /\ (f = "caller" => emitted[f] = 0)

\* An announced change of what a waiter has read has closed its epoch or will.
WakeInv ==
    \A w \in Waiters : pc[w] \in Holding =>
        \A i \in DOMAIN Kids(w) :
            obs[w][i] # Unread /\ emitted[Kids(w)[i]] > obs[w][i].ver =>
                epoch[w] <= Len(notices) \/ OnItsWay(Kids(w)[i]) \/ cancelled

\* What a step of the desktop or of the feeds does to announcements: a change
\* that is announced is on its way, and what is on its way stays so until it
\* closes an epoch.
Announces ==
    /\ UNCHANGED <<once, hub>>
    /\ Len(notices') >= Len(notices) /\ (Len(notices') > Len(notices) => Len(notices') = Len(notices) + 1)
    /\ \A f \in Facts :
          /\ emitted'[f] = emitted[f] \/ OnItsWay(f)'
          /\ OnItsWay(f) /\ hub => OnItsWay(f)' \/ Len(notices') = Len(notices) + 1
          /\ emitted'[f] <= version'[f] /\ (f = "caller" => emitted'[f] = 0)

\* A source announces a change on its channel (Change).
LEMMA ChangeAnnounces ==
    ASSUME SceneOK, FeedsOK, HubInv, scene' = scene, NEW s \in Streams, Change(s)
    PROVE  Announces
<1>1. /\ Facts' = Facts /\ Streams' = Streams /\ s \in Facts /\ s # "caller" /\ s # "application"
      /\ s \in AllStreams
  BY SceneStays DEF Streams, AllStreams
<1>2. /\ version[s] \in Nat /\ hints[s] \in Nat /\ Buffer[s] \in Nat \ {0} /\ emitted[s] \in Nat
      /\ emitted[s] <= version[s]
  BY <1>1, BoundsAreNaturals DEF FeedsOK, HubInv
<1>3. version'[s] = version[s] + 1 /\ \A f \in Facts : f # s => version'[f] = version[f]
  BY <1>1 DEF Change, FeedsOK
<1>4. UNCHANGED <<once, hub, notices, forwarder, reaper>>
  BY DEF Change, hubVars
<1>5. CASE stream[s] = "open"
  <2>1. /\ emitted' = [emitted EXCEPT ![s] = version'[s]]
        /\ hints' = [hints EXCEPT ![s] = IF @ < Buffer[s] THEN @ + 1 ELSE @]
    BY <1>5 DEF Change
  <2>2. emitted'[s] = version'[s] /\ \A f \in Facts : f # s => emitted'[f] = emitted[f]
    BY <1>1, <2>1 DEF FeedsOK
  <2>3. hints'[s] > 0 /\ \A f \in Streams : f # s => hints'[f] = hints[f]
    BY <1>2, <2>1 DEF FeedsOK
  <2>4. \A f \in Facts : emitted'[f] <= version'[f] /\ (f = "caller" => emitted'[f] = 0)
    BY <1>1, <1>2, <1>3, <2>2 DEF HubInv
  <2>5. \A f \in Facts : f # s => emitted'[f] = emitted[f]
    BY <2>2
  <2>6. \A f \in Facts : OnItsWay(f) => OnItsWay(f)'
    BY <1>1, <1>4, <2>3 DEF OnItsWay
  <2>7. OnItsWay(s)'
    BY <1>1, <2>3 DEF OnItsWay
  <2>8. Len(notices) \in Nat
    BY DEF FeedsOK
  <2> QED BY <1>4, <2>4, <2>5, <2>6, <2>7, <2>8 DEF Announces
<1>6. CASE stream[s] # "open"
  <2>1. UNCHANGED <<emitted, hints>>
    BY <1>6 DEF Change
  <2>2. \A f \in Facts : OnItsWay(f) => OnItsWay(f)'
    BY <1>1, <1>4, <2>1 DEF OnItsWay
  <2>3. \A f \in Facts : emitted'[f] <= version'[f] /\ (f = "caller" => emitted'[f] = 0)
    BY <1>1, <1>2, <1>3, <2>1 DEF HubInv
  <2>4. Len(notices) \in Nat
    BY DEF FeedsOK
  <2> QED BY <1>4, <2>1, <2>2, <2>3, <2>4 DEF Announces
<1> QED BY <1>5, <1>6

\* A change is notified: the current epoch is closed (Forward, ReaperNotifies).
LEMMA NotifyAnnounces ==
    ASSUME SceneOK, FeedsOK, HubInv, scene' = scene, NEW c \in Sources, Notify(c),
           UNCHANGED <<once, hub, emitted, version>>
    PROVE  Announces
<1>1. Len(notices') = Len(notices) + 1 /\ Len(notices) \in Nat
  BY DEF Notify, FeedsOK
<1> QED BY <1>1 DEF Announces, HubInv

\* The other steps of the desktop and of the feeds.
LEMMA OthersAnnounce ==
    ASSUME SceneOK, FeedsOK, HubInv, scene' = scene, Environment \/ FeedStep
    PROVE  Announces
<1>0. Facts' = Facts /\ Streams' = Streams /\ Streams \subseteq Sources
  BY SceneStays, SceneFacts
<1>1. ASSUME NEW s \in Streams, Change(s) PROVE Announces
  BY <1>1, ChangeAnnounces
<1>2. ASSUME NEW s \in Streams, Forward(s) PROVE Announces
  <2>1. s \in Sources /\ Notify(s) /\ UNCHANGED <<once, hub, emitted, version>>
    BY <1>0, <1>2 DEF Forward, desktop
  <2> QED BY <2>1, NotifyAnnounces
<1>3. CASE ReaperNotifies
  <2>1. "application" \in Sources /\ Notify("application") /\ UNCHANGED <<once, hub, emitted, version>>
    BY <1>3 DEF ReaperNotifies, desktop, FeedsOK, Sources
  <2> QED BY <2>1, NotifyAnnounces
<1>4. ASSUME UNCHANGED <<once, hub, notices, emitted>>,
             \A f \in Facts : version'[f] >= version[f],
             \A f \in Facts : OnItsWay(f) /\ hub => OnItsWay(f)'
      PROVE  Announces
  <2>1. Len(notices) \in Nat /\ \A f \in Facts : emitted[f] \in Nat /\ version[f] \in Nat
    BY DEF FeedsOK
  <2>2. \A f \in Facts : emitted'[f] <= version'[f] /\ (f = "caller" => emitted'[f] = 0)
    <3> SUFFICES ASSUME NEW f \in Facts PROVE emitted[f] <= version'[f] /\ (f = "caller" => emitted[f] = 0)
      BY <1>4
    <3>1. version'[f] >= version[f] /\ emitted[f] <= version[f] /\ (f = "caller" => emitted[f] = 0)
      BY <1>4 DEF HubInv
    <3>2. version'[f] \in Nat \/ version'[f] = version[f]
      BY <1>4, FeedsStay, <1>0 DEF FeedsOK
    <3> QED BY <2>1, <3>1, <3>2
  <2> QED BY <1>4, <2>1, <2>2 DEF Announces
<1>5. ASSUME NEW s \in Streams, Receive(s) \/ ForwarderEnds(s) \/ StreamEnds(s) \/ StreamOpens(s) PROVE Announces
  <2>1. UNCHANGED <<once, hub, notices, emitted, version, reaper>>
    BY <1>5 DEF Receive, ForwarderEnds, StreamEnds, StreamOpens, hubVars, desktop
  <2>2. \A t \in Streams : hints[t] > 0 \/ forwarder[t] = "notify" => hints'[t] > 0 \/ forwarder'[t] = "notify"
    BY <1>5 DEF Receive, ForwarderEnds, StreamEnds, StreamOpens, FeedsOK
  <2>3. \A f \in Facts : OnItsWay(f) => OnItsWay(f)'
    BY <1>0, <2>1, <2>2 DEF OnItsWay
  <2>4. \A f \in Facts : version'[f] >= version[f]
    BY <2>1 DEF FeedsOK
  <2> QED BY <1>4, <2>1, <2>3, <2>4
<1>6. CASE CallerChanges
  <2>1. UNCHANGED <<once, hub, notices, emitted, reaper, hints, forwarder>>
    BY <1>6 DEF CallerChanges, hubVars, feeds
  <2>2. \A f \in Facts : version'[f] >= version[f]
    BY <1>6 DEF CallerChanges, FeedsOK
  <2>3. \A f \in Facts : OnItsWay(f) => OnItsWay(f)'
    BY <1>0, <2>1 DEF OnItsWay
  <2> QED BY <1>4, <2>1, <2>2, <2>3
<1>7. CASE \/ TimePasses \/ SessionCloses \/ SessionCancels \/ \E w \in Waiters : CallerCancels(w)
           \/ \E f \in Facts : BecomeReadable(f) \/ \E e \in Errors : BecomeUnreadable(f, e)
  <2>1. UNCHANGED <<once, hub, notices, emitted, version, reaper, hints, forwarder>>
    BY <1>7 DEF TimePasses, SessionCloses, SessionCancels, CallerCancels, BecomeReadable, BecomeUnreadable,
                desktop, feeds, hubVars
  <2>2. \A f \in Facts : version'[f] >= version[f]
    BY <2>1 DEF FeedsOK
  <2>3. \A f \in Facts : OnItsWay(f) => OnItsWay(f)'
    BY <1>0, <2>1 DEF OnItsWay
  <2> QED BY <1>4, <2>1, <2>2, <2>3
<1>8. CASE ReaperLooksUp
  <2>1. UNCHANGED <<once, hub, notices, emitted, version, hints, forwarder>> /\ (hub => reaper' = "notify")
    BY <1>8 DEF ReaperLooksUp, hubVars, desktop
  <2>2. \A f \in Facts : version'[f] >= version[f]
    BY <2>1 DEF FeedsOK
  <2>3. \A f \in Facts : OnItsWay(f) /\ hub => OnItsWay(f)'
    BY <1>0, <2>1 DEF OnItsWay
  <2> QED BY <1>4, <2>1, <2>2, <2>3
<1>9. CASE ApplicationExits
  <2>1. UNCHANGED <<once, hub, notices, hints, forwarder>> /\ reaper' = "lookup"
    BY <1>9 DEF ApplicationExits, hubVars
  <2>2. /\ version' = [version EXCEPT !["application"] = 1] /\ emitted' = [emitted EXCEPT !["application"] = 1]
    BY <1>9 DEF ApplicationExits
  <2>3. OnItsWay("application")' /\ \A f \in Facts : OnItsWay(f) => OnItsWay(f)'
    BY <1>0, <2>1 DEF OnItsWay
  <2>4. \A f \in Facts : emitted'[f] = emitted[f] \/ f = "application"
    BY <2>2 DEF FeedsOK
  <2>5. \A f \in Facts : emitted'[f] <= version'[f] /\ (f = "caller" => emitted'[f] = 0)
    BY <2>2 DEF FeedsOK, HubInv
  <2>6. Len(notices) \in Nat
    BY DEF FeedsOK
  <2> QED BY <2>1, <2>3, <2>4, <2>5, <2>6 DEF Announces
<1> QED BY <1>1, <1>2, <1>3, <1>5, <1>6, <1>7, <1>8, <1>9 DEF Environment, FeedStep

\* They keep the hub's invariant and lose no wakeup.
LEMMA OthersWake ==
    ASSUME SceneOK, FeedsOK, WaitersOK, HubInv, WakeInv, scene' = scene, Environment \/ FeedStep
    PROVE  HubInv' /\ WakeInv'
<1>1. Announces /\ UNCHANGED locals /\ (cancelled => cancelled')
  BY OthersAnnounce, OthersSteps
<1>2. Facts' = Facts /\ \A w \in Waiters : Kids(w)' = Kids(w)
  BY SceneStays
<1>3. UNCHANGED <<pc, obs, epoch, once, hub>>
  BY <1>1 DEF locals, Announces
<1>4. Len(notices) \in Nat /\ Len(notices') \in Nat
  BY FeedsStay DEF FeedsOK
<1>5. HubInv'
  <2>1. \A w \in Waiters : pc[w] \in Holding => once = "done" /\ 1 <= epoch[w] /\ epoch[w] <= Len(notices') + 1
    <3> SUFFICES ASSUME NEW w \in Waiters, pc[w] \in Holding
                 PROVE  once = "done" /\ 1 <= epoch[w] /\ epoch[w] <= Len(notices') + 1
      OBVIOUS
    <3>1. once = "done" /\ 1 <= epoch[w] /\ epoch[w] <= Len(notices) + 1 /\ epoch[w] \in Nat
      BY DEF HubInv, WaitersOK
    <3>2. Len(notices') >= Len(notices)
      BY <1>1 DEF Announces
    <3> QED BY <1>4, <3>1, <3>2
  <2> QED BY <1>1, <1>2, <1>3, <2>1 DEF HubInv, Announces
<1>6. WakeInv'
  <2>0. ASSUME NEW w \in Waiters, NEW i \in DOMAIN Kids(w) PROVE Kids(w)[i] \in Facts
    BY SceneFacts
  <2> SUFFICES ASSUME NEW w \in Waiters, pc[w] \in Holding, NEW i \in DOMAIN Kids(w),
                      NEW f \in Facts, f = Kids(w)[i],
                      obs[w][i] # Unread, emitted'[f] > obs[w][i].ver
               PROVE  epoch[w] <= Len(notices') \/ OnItsWay(f)' \/ cancelled'
    BY <1>2, <1>3, <2>0 DEF WakeInv, OnItsWay
  <2>1. f \in Facts
    OBVIOUS
  <2>2. epoch[w] \in Nat /\ epoch[w] <= Len(notices) + 1 /\ hub
    BY DEF HubInv, WaitersOK
  <2>3. CASE emitted'[f] = emitted[f]
    <3>1. epoch[w] <= Len(notices) \/ OnItsWay(f) \/ cancelled
      BY <2>3 DEF WakeInv
    <3>2. OnItsWay(f) => OnItsWay(f)' \/ Len(notices') = Len(notices) + 1
      BY <1>1, <2>1, <2>2 DEF Announces
    <3>3. Len(notices') >= Len(notices)
      BY <1>1 DEF Announces
    <3>4. Len(notices') = Len(notices) + 1 => epoch[w] <= Len(notices')
      BY <2>2
    <3>5. epoch[w] <= Len(notices) => epoch[w] <= Len(notices')
      BY <1>4, <2>2, <3>3
    <3> QED BY <1>1, <3>1, <3>2, <3>4, <3>5
  <2>4. CASE emitted'[f] # emitted[f]
    BY <1>1, <2>1, <2>4 DEF Announces
  <2> QED BY <2>3, <2>4
<1> QED BY <1>5, <1>6

\* A waiter's part of HubInv and of WakeInv.
Before == {"absent", "idle", "state", "subscribe", "sources"}
HubOf(w) ==
    /\ pc[w] \in Holding => once = "done" /\ 1 <= epoch[w] /\ epoch[w] <= Len(notices) + 1
    /\ pc[w] \in Before => \A i \in DOMAIN Kids(w) : obs[w][i] = Unread
WakeOf(w) ==
    pc[w] \in Holding =>
        \A i \in DOMAIN Kids(w) :
            obs[w][i] # Unread /\ emitted[Kids(w)[i]] > obs[w][i].ver =>
                epoch[w] <= Len(notices) \/ OnItsWay(Kids(w)[i]) \/ cancelled

\* A waiter that leaves the hub alone matters only for itself.
LEMMA QuietWake ==
    ASSUME HubInv, WakeInv, scene' = scene, NEW w \in Waiters, Alone(w), pc'[w] # "sources",
           UNCHANGED <<once, hub, notices, emitted, version, hints, forwarder, reaper, cancelled>>,
           HubOf(w)', WakeOf(w)'
    PROVE  HubInv' /\ WakeInv'
<1>1. Facts' = Facts /\ Streams' = Streams
  BY SceneStays
<1>2. \A v \in Waiters : Kids(v)' = Kids(v)
  BY SceneStays
<1>3. \A v \in Waiters : v # w => pc'[v] = pc[v] /\ obs'[v] = obs[v] /\ epoch'[v] = epoch[v]
  BY DEF Alone, Same
<1>4. HubInv'
  BY <1>1, <1>2, <1>3 DEF HubInv, HubOf, Before
<1>5. WakeInv'
  <2>1. ASSUME NEW v \in Waiters, v # w PROVE WakeOf(v)'
    BY <1>1, <1>2, <1>3, <2>1 DEF WakeInv, WakeOf, OnItsWay
  <2> QED BY <2>1 DEF WakeInv, WakeOf
<1> QED BY <1>4, <1>5

\* The hub is published, and the sources are started, before anybody holds an
\* epoch (PublishHub, StartSources).
LEMMA StartWake ==
    ASSUME SceneOK, FeedsOK, WaitersOK, HubInv, scene' = scene, NEW w \in Waiters,
           PublishHub(w) \/ StartSources(w)
    PROVE  HubInv' /\ WakeInv'
<1>1. Alone(w) /\ UNCHANGED <<obs, epoch>>
  BY MovesAlone
<1>2. Facts' = Facts /\ UNCHANGED <<emitted, version>>
  BY SceneStays DEF PublishHub, StartSources, desktop
<1>3. \A v \in Waiters : Kids(v)' = Kids(v)
  BY SceneStays
<1>4. \A v \in Waiters : v # w => pc'[v] = pc[v]
  BY <1>1 DEF Alone, Same
<1>5. \/ once = "no" /\ once' = "running" /\ hub' /\ pc[w] = "subscribe" /\ pc'[w] = "sources"
      \/ once = "running" /\ once' = "done" /\ hub' = hub /\ pc[w] = "sources" /\ pc'[w] = "subscribe"
  BY DEF PublishHub, StartSources, GoTo, WaitersOK, HubInv
<1>6. \A v \in Waiters : pc[v] \notin Holding /\ (pc[v] = "sources" => v = w /\ once = "running")
  BY <1>5 DEF HubInv
<1>7. \A v \in Waiters : pc'[v] \notin Holding /\ (pc'[v] = "sources" => v = w /\ once' = "running")
  BY <1>4, <1>5, <1>6 DEF Holding
<1>8. \A v \in Waiters : pc'[v] \in Before => \A i \in DOMAIN Kids(v) : obs[v][i] = Unread
  BY <1>4, <1>5 DEF HubInv, Before
<1> QED BY <1>1, <1>2, <1>3, <1>5, <1>7, <1>8 DEF HubInv, WakeInv, Before

\* A waiter's own steps keep the hub's invariant and lose no wakeup.
LEMMA WaitersWake ==
    ASSUME SceneOK, FeedsOK, WaitersOK, HubInv, WakeInv, scene' = scene, NEW w \in Waiters,
           WaiterStep(w)
    PROVE  HubInv' /\ WakeInv'
<1>0. HubOf(w) /\ WakeOf(w)
  BY DEF HubInv, WakeInv, HubOf, WakeOf, Before
<1>a. Kids(w)' = Kids(w) /\ Facts' = Facts /\ Streams' = Streams
  BY SceneStays
<1>1. CASE PublishHub(w) \/ StartSources(w)
  BY <1>1, StartWake
<1>2. ASSUME UNCHANGED <<once, hub, notices, emitted, version, hints, forwarder, reaper, cancelled>>,
             Alone(w), UNCHANGED <<obs, epoch>>, pc'[w] \in Holding => pc[w] \in Holding,
             pc'[w] \in Before => pc[w] \in Before, pc'[w] # "sources"
      PROVE  HubInv' /\ WakeInv'
  <2>1. HubOf(w)'
    BY <1>0, <1>a, <1>2 DEF HubOf
  <2>2. WakeOf(w)'
    BY <1>0, <1>a, <1>2 DEF WakeOf, OnItsWay
  <2> QED BY <1>2, <2>1, <2>2, QuietWake
<1>3. ASSUME UNCHANGED <<once, hub, notices, emitted, version, hints, forwarder, reaper, cancelled>>,
             Alone(w), pc'[w] = "state", \A i \in DOMAIN Kids(w) : obs'[w][i] = Unread
      PROVE  HubInv' /\ WakeInv'
  <2>1. HubOf(w)' /\ WakeOf(w)'
    BY <1>a, <1>3 DEF HubOf, WakeOf, Holding
  <2> QED BY <1>3, <2>1, QuietWake
<1>4. CASE \/ Call(w) \/ CheckState(w) \/ JudgeError(w) \/ Recheck(w) \/ SelectCancelled(w) \/ SelectClosed(w)
  <2>1. UNCHANGED <<once, hub, notices, emitted, version, hints, forwarder, reaper, cancelled>>
    BY <1>4 DEF Call, CheckState, JudgeError, Recheck, SelectCancelled, SelectClosed, desktop, feeds,
                hubVars, session
  <2>2. Alone(w) /\ UNCHANGED <<obs, epoch>>
    BY <1>4, MovesAlone
  <2>3. \/ pc'[w] = "returned"
        \/ pc[w] \in Before /\ pc'[w] \in {"state", "subscribe"}
        \/ pc[w] \in Errors /\ pc'[w] = "select"
    BY <1>4 DEF Call, CheckState, JudgeError, Recheck, SelectCancelled, SelectClosed, Return, GoTo,
                Before, WaitersOK
  <2> QED BY <1>2, <2>1, <2>2, <2>3 DEF Before, Holding, Errors
<1>5. CASE Subscribe(w)
  <2>1. UNCHANGED <<once, hub, notices, emitted, version, hints, forwarder, reaper, cancelled>>
        /\ pc[w] = "subscribe" /\ once = "done"
    BY <1>5 DEF Subscribe, desktop, feeds, hubVars, session
  <2>2. Alone(w) /\ pc'[w] = "evaluate" /\ epoch'[w] = Len(notices) + 1 /\ UNCHANGED obs
    BY <1>5, SubscribeAlone
  <2>3. \A i \in DOMAIN Kids(w) : obs'[w][i] = Unread
    BY <1>0, <2>1, <2>2 DEF HubOf, Before
  <2>4. Len(notices) \in Nat
    BY DEF FeedsOK
  <2>5. HubOf(w)' /\ WakeOf(w)'
    BY <1>a, <2>1, <2>2, <2>3, <2>4 DEF HubOf, WakeOf, Holding, Before
  <2> QED BY <2>1, <2>2, <2>5, QuietWake
<1>6. CASE ReadChild(w)
  <2>1. UNCHANGED <<once, hub, notices, emitted, version, hints, forwarder, reaper, cancelled>>
    BY <1>6 DEF ReadChild, desktop, feeds, hubVars, session
  <2>2. /\ Alone(w) /\ pc[w] = "evaluate" /\ pc'[w] = "combine" /\ UNCHANGED epoch
        /\ kid[w] \in DOMAIN Kids(w) /\ obs'[w][kid[w]].ver = version[Kids(w)[kid[w]]]
        /\ \A i \in DOMAIN Kids(w) : i # kid[w] => obs'[w][i] = obs[w][i]
    BY <1>6, ReadAlone
  <2>3. HubOf(w)'
    BY <1>0, <1>a, <2>1, <2>2 DEF HubOf, Holding, Before
  <2>4. Kids(w)[kid[w]] \in Facts
    BY <2>2, SceneFacts
  <2>5. ~(emitted[Kids(w)[kid[w]]] > obs'[w][kid[w]].ver)
    BY <2>2, <2>4 DEF HubInv, FeedsOK
  <2>6. WakeOf(w)'
    BY <1>0, <1>a, <2>1, <2>2, <2>5 DEF WakeOf, OnItsWay, Holding
  <2> QED BY <2>1, <2>2, <2>3, <2>6, QuietWake
<1>7. CASE Combine(w) \/ EndOfChildren(w)
  <2>1. UNCHANGED <<once, hub, notices, emitted, version, hints, forwarder, reaper, cancelled>>
        /\ pc[w] \in Holding
    BY <1>7 DEF Combine, EndOfChildren, desktop, feeds, hubVars, session, Holding
  <2>2. Alone(w) /\ UNCHANGED <<obs, epoch>> /\ pc'[w] \in Holding
    <3>1. CASE Combine(w) /\ ~ShortCircuits(Mode(w), obs[w][kid[w]].val)
      BY <3>1, NextChildAlone DEF Holding
    <3>2. ASSUME NEW v, Evaluated(w, v), UNCHANGED <<obs, epoch, wakes, result>>
          PROVE  Alone(w) /\ UNCHANGED <<obs, epoch>> /\ pc'[w] \in Holding
      <4>1. Alone(w) /\ pc'[w] = IF v \in Errors THEN v ELSE IF v = "true" THEN "recheck" ELSE "select"
        BY <3>2, EvaluatedAlone
      <4> QED BY <3>2, <4>1 DEF Holding, Errors
    <3>3. CASE Combine(w) /\ ShortCircuits(Mode(w), obs[w][kid[w]].val)
      <4>1. Evaluated(w, Decided(Mode(w), obs[w][kid[w]].val)) /\ UNCHANGED <<obs, epoch, wakes, result>>
        BY <3>3 DEF Combine
      <4> QED BY <3>2, <4>1
    <3>4. CASE EndOfChildren(w)
      <4>1. Evaluated(w, Undecided(Mode(w), errs[w])) /\ UNCHANGED <<obs, epoch, wakes, result>>
        BY <3>4 DEF EndOfChildren
      <4> QED BY <3>2, <4>1
    <3> QED BY <1>7, <3>1, <3>3, <3>4
  <2> QED BY <1>2, <2>1, <2>2 DEF Before, Holding
<1>8. CASE WakeByEvent(w) \/ WakeByPoll(w)
  <2>1. UNCHANGED <<once, hub, notices, emitted, version, hints, forwarder, reaper, cancelled>>
        /\ pc[w] = "select"
    BY <1>8 DEF WakeByEvent, WakeByPoll, desktop, feeds, hubVars, session
  <2>2. epoch[w] >= 1
    BY <1>0, <2>1 DEF HubOf, Holding, WaitersOK
  <2>3. Alone(w) /\ pc'[w] = "state" /\ \A i \in DOMAIN Kids(w) : obs'[w][i] = Unread
    BY <1>8, <2>2, WakeAlone, PollAlone
  <2> QED BY <1>3, <2>1, <2>3
<1> QED BY <1>1, <1>4, <1>5, <1>6, <1>7, <1>8 DEF WaiterStep

-----------------------------------------------------------------------------
(* The evidence.                                                           *)

\* The changes by source s among the first k of q.
Caused(q, s, k) == {n \in 1..k : q[n] = s}

\* They are finitely many, and more for a greater k.
LEMMA CausedGrows ==
    ASSUME NEW q, NEW s, NEW k \in Nat, NEW m \in Nat, k <= m
    PROVE  /\ Cardinality(Caused(q, s, k)) \in Nat
           /\ Cardinality(Caused(q, s, k)) <= Cardinality(Caused(q, s, m))
<1>1. IsFiniteSet(1..k) /\ IsFiniteSet(1..m)
  BY FS_Interval
<1>2. IsFiniteSet(Caused(q, s, k))
  BY <1>1, FS_Subset DEF Caused
<1>3. IsFiniteSet(Caused(q, s, m))
  BY <1>1, FS_Subset DEF Caused
<1>4. Caused(q, s, k) \subseteq Caused(q, s, m)
  BY DEF Caused
<1> QED BY <1>2, <1>3, <1>4, FS_Subset, FS_CardinalityType

\* The k-th change counts for its own source.
LEMMA CausedNext ==
    ASSUME NEW q, NEW s, NEW k \in Nat, k >= 1
    PROVE  /\ Cardinality(Caused(q, s, k - 1)) \in Nat
           /\ Cardinality(Caused(q, s, k)) =
                 Cardinality(Caused(q, s, k - 1)) + (IF q[k] = s THEN 1 ELSE 0)
<1>1. k - 1 \in Nat
  OBVIOUS
<1>2. IsFiniteSet(1..(k - 1))
  BY <1>1, FS_Interval
<1>3. IsFiniteSet(Caused(q, s, k - 1))
  BY <1>2, FS_Subset DEF Caused
<1>4. Cardinality(Caused(q, s, k - 1)) \in Nat
  BY <1>3, FS_CardinalityType
<1>5. CASE q[k] = s
  <2>1. Caused(q, s, k) = Caused(q, s, k - 1) \cup {k} /\ k \notin Caused(q, s, k - 1)
    BY <1>5 DEF Caused
  <2>2. Cardinality(Caused(q, s, k - 1) \cup {k}) = Cardinality(Caused(q, s, k - 1)) + 1
    BY <1>3, <2>1, FS_AddElement
  <2> QED BY <1>4, <1>5, <2>1, <2>2
<1>6. CASE q[k] # s
  <2>1. Caused(q, s, k) = Caused(q, s, k - 1)
    BY <1>6 DEF Caused
  <2> QED BY <1>4, <1>6, <2>1
<1> QED BY <1>5, <1>6

\* The changes that a waiter can have been woken by.
Spent(w) == IF pc[w] \in Holding THEN epoch[w] - 1 ELSE Len(notices)

\* A waiter has counted no more wakeups than there were changes before its epoch.
EvidenceInv ==
    \A w \in Waiters, s \in Sources : wakes[w][s] <= Cardinality(Caused(notices, s, Spent(w)))

\* An epoch is at most the one after the last change.
LEMMA SpentBounds ==
    ASSUME FeedsOK, WaitersOK, HubInv, NEW w \in Waiters
    PROVE  Spent(w) \in Nat /\ Spent(w) <= Len(notices) /\ Len(notices) \in Nat
  BY DEF FeedsOK, WaitersOK, HubInv, Spent

\* Changes are only added (Environment, FeedStep).
LEMMA NoticesGrow ==
    ASSUME Environment \/ FeedStep
    PROVE  notices' = notices \/ \E c : notices' = Append(notices, c)
  BY DEF Environment, FeedStep, Change, CallerChanges, BecomeUnreadable, BecomeReadable, TimePasses,
         StreamOpens, StreamEnds, Receive, Forward, ForwarderEnds, ApplicationExits, ReaperLooksUp,
         ReaperNotifies, CallerCancels, SessionCloses, SessionCancels, hubVars, Notify

\* More changes make the evidence no less true.
LEMMA OthersEvidence ==
    ASSUME SceneOK, FeedsOK, WaitersOK, HubInv, EvidenceInv, scene' = scene, Environment \/ FeedStep
    PROVE  EvidenceInv'
<1>1. UNCHANGED <<pc, epoch, wakes>> /\ Sources' = Sources
  BY OthersSteps, SceneStays DEF locals
<1> SUFFICES ASSUME NEW w \in Waiters, NEW s \in Sources
             PROVE  wakes[w][s] <= Cardinality(Caused(notices', s, Spent(w)'))
  BY <1>1 DEF EvidenceInv
<1>2. wakes[w][s] <= Cardinality(Caused(notices, s, Spent(w))) /\ wakes[w][s] \in Nat
  BY DEF EvidenceInv, WaitersOK
<1>3. Spent(w) \in Nat /\ Spent(w) <= Len(notices) /\ Len(notices) \in Nat
  BY SpentBounds
<1>4. CASE notices' = notices
  <2>1. Spent(w)' = Spent(w)
    BY <1>1, <1>4 DEF Spent
  <2> QED BY <1>2, <1>4, <2>1
<1>5. ASSUME NEW c, notices' = Append(notices, c)
      PROVE  wakes[w][s] <= Cardinality(Caused(notices', s, Spent(w)'))
  <2>0. notices \in Seq(Sources)
    BY DEF FeedsOK
  <2>1. Len(notices') = Len(notices) + 1 /\ \A n \in 1..Len(notices) : notices'[n] = notices[n]
    BY <1>5, <2>0
  <2>2. Caused(notices', s, Spent(w)) = Caused(notices, s, Spent(w))
    BY <1>3, <2>1 DEF Caused
  <2>3. Spent(w)' \in Nat /\ Spent(w) <= Spent(w)'
    BY <1>1, <1>3, <2>1 DEF Spent
  <2>4. Cardinality(Caused(notices', s, Spent(w))) <= Cardinality(Caused(notices', s, Spent(w)'))
        /\ Cardinality(Caused(notices', s, Spent(w))) \in Nat /\ Cardinality(Caused(notices', s, Spent(w)')) \in Nat
    BY <1>3, <2>3, CausedGrows
  <2> QED BY <1>2, <2>2, <2>4
<1> QED BY <1>4, <1>5, NoticesGrow

\* What a waiter's own step does to its epoch and its evidence.
LEMMA WaiterCounts ==
    ASSUME SceneOK, FeedsOK, WaitersOK, HubInv, scene' = scene, NEW w \in Waiters, WaiterStep(w),
           ~WakeByEvent(w)
    PROVE  /\ Alone(w) /\ UNCHANGED <<notices, wakes>>
           /\ pc'[w] \in Holding =>
                 (pc[w] \in Holding /\ epoch'[w] = epoch[w]) \/ epoch'[w] = Len(notices) + 1
<1>1. CASE \/ Call(w) \/ CheckState(w) \/ PublishHub(w) \/ StartSources(w) \/ JudgeError(w)
           \/ Recheck(w) \/ SelectCancelled(w) \/ SelectClosed(w)
  <2>1. Alone(w) /\ UNCHANGED <<wakes, epoch>>
    BY <1>1, MovesAlone
  <2>2. pc[w] \in Errors \/ pc'[w] \in {"returned", "state", "subscribe", "sources"}
    BY <1>1 DEF Call, CheckState, PublishHub, StartSources, JudgeError, Recheck, SelectCancelled,
                SelectClosed, Return, GoTo, WaitersOK
  <2>3. UNCHANGED notices
    BY <1>1 DEF Call, CheckState, PublishHub, StartSources, JudgeError, Recheck, SelectCancelled,
                SelectClosed, hubVars
  <2> QED BY <2>1, <2>2, <2>3 DEF Holding, Errors
<1>2. CASE Subscribe(w)
  BY <1>2, SubscribeAlone DEF Subscribe, hubVars
<1>3. CASE ReadChild(w)
  BY <1>3, ReadAlone DEF ReadChild, hubVars, Holding
<1>4. CASE Combine(w) \/ EndOfChildren(w)
  <2>1. UNCHANGED notices /\ pc[w] \in Holding
    BY <1>4 DEF Combine, EndOfChildren, hubVars, Holding
  <2>2. CASE Combine(w) /\ ~ShortCircuits(Mode(w), obs[w][kid[w]].val)
    BY <2>1, <2>2, NextChildAlone
  <2>3. CASE Combine(w) /\ ShortCircuits(Mode(w), obs[w][kid[w]].val)
    <3>1. Evaluated(w, Decided(Mode(w), obs[w][kid[w]].val)) /\ UNCHANGED <<obs, epoch, wakes, result>>
      BY <2>3 DEF Combine
    <3> QED BY <2>1, <3>1, EvaluatedAlone
  <2>4. CASE EndOfChildren(w)
    <3>1. Evaluated(w, Undecided(Mode(w), errs[w])) /\ UNCHANGED <<obs, epoch, wakes, result>>
      BY <2>4 DEF EndOfChildren
    <3> QED BY <2>1, <3>1, EvaluatedAlone
  <2> QED BY <1>4, <2>2, <2>3, <2>4
<1>5. CASE WakeByPoll(w)
  <2>1. UNCHANGED notices
    BY <1>5 DEF WakeByPoll, hubVars
  <2> QED BY <1>5, <2>1, PollAlone DEF Holding
<1> QED BY <1>1, <1>2, <1>3, <1>4, <1>5 DEF WaiterStep

\* A waiter's step counts one wakeup for one change, or none.
LEMMA WaitersEvidence ==
    ASSUME SceneOK, FeedsOK, WaitersOK, HubInv, EvidenceInv, scene' = scene,
           NEW w \in Waiters, WaiterStep(w)
    PROVE  EvidenceInv'
<1>0. /\ \A u \in Waiters : Spent(u) \in Nat /\ Spent(u) <= Len(notices)
      /\ Len(notices) \in Nat
  BY SpentBounds
<1>1. \A u \in Waiters, s \in Sources :
          wakes[u][s] <= Cardinality(Caused(notices, s, Spent(u))) /\ wakes[u][s] \in Nat
  BY DEF EvidenceInv, WaitersOK
<1>2. Sources' = Sources
  BY SceneStays
<1>3. ASSUME Alone(w), UNCHANGED notices, NEW s \in Sources,
             wakes'[w][s] <= Cardinality(Caused(notices, s, Spent(w)')), NEW u \in Waiters
      PROVE  wakes'[u][s] <= Cardinality(Caused(notices, s, Spent(u)'))
  <2>1. CASE u # w
    <3>1. wakes'[u] = wakes[u] /\ Spent(u)' = Spent(u)
      BY <1>3, <2>1 DEF Alone, Same, Spent
    <3> QED BY <1>1, <3>1
  <2> QED BY <1>3, <2>1
<1>4. CASE WakeByEvent(w)
  <2>1. epoch[w] \in Nat /\ epoch[w] >= 1 /\ Spent(w) = epoch[w] - 1 /\ epoch[w] <= Len(notices)
    BY <1>4 DEF WakeByEvent, HubInv, Holding, WaitersOK, Spent, EpochDone
  <2>2. /\ Alone(w) /\ pc'[w] = "state"
        /\ \A s \in Sources : wakes'[w][s] = wakes[w][s] + (IF s = notices[epoch[w]] THEN 1 ELSE 0)
    BY <1>4, <2>1, WakeAlone
  <2>3. UNCHANGED notices
    BY <1>4 DEF WakeByEvent, hubVars
  <2>4. ASSUME NEW s \in Sources PROVE wakes'[w][s] <= Cardinality(Caused(notices, s, Spent(w)'))
    <3>1. Spent(w)' = Len(notices)
      BY <2>2, <2>3 DEF Spent, Holding
    <3>2. wakes[w][s] <= Cardinality(Caused(notices, s, epoch[w] - 1)) /\ wakes[w][s] \in Nat
      BY <1>1, <2>1
    <3>3. /\ Cardinality(Caused(notices, s, epoch[w] - 1)) \in Nat
          /\ Cardinality(Caused(notices, s, epoch[w])) =
                Cardinality(Caused(notices, s, epoch[w] - 1)) + (IF notices[epoch[w]] = s THEN 1 ELSE 0)
      <4>1. epoch[w] \in Nat /\ epoch[w] >= 1
        BY <2>1
      <4> QED BY <4>1, CausedNext
    <3>4. /\ Cardinality(Caused(notices, s, epoch[w])) <= Cardinality(Caused(notices, s, Len(notices)))
          /\ Cardinality(Caused(notices, s, epoch[w])) \in Nat
      BY <1>0, <2>1, CausedGrows
    <3>5. Cardinality(Caused(notices, s, Len(notices))) \in Nat
      BY <1>0, CausedGrows
    <3>6. wakes'[w][s] = wakes[w][s] + (IF s = notices[epoch[w]] THEN 1 ELSE 0)
      BY <2>2
    <3>7. wakes'[w][s] <= Cardinality(Caused(notices, s, epoch[w])) /\ wakes'[w][s] \in Nat
      BY <3>2, <3>3, <3>6
    <3> QED BY <3>1, <3>4, <3>5, <3>7
  <2> QED BY <1>2, <1>3, <2>2, <2>3, <2>4 DEF EvidenceInv
<1>5. CASE ~WakeByEvent(w)
  <2>1. /\ Alone(w) /\ UNCHANGED <<notices, wakes>>
        /\ pc'[w] \in Holding =>
              (pc[w] \in Holding /\ epoch'[w] = epoch[w]) \/ epoch'[w] = Len(notices) + 1
    BY <1>5, WaiterCounts
  <2>2. Spent(w)' \in Nat /\ Spent(w) <= Spent(w)'
    <3>1. CASE pc'[w] \notin Holding
      BY <1>0, <2>1, <3>1 DEF Spent
    <3>2. CASE pc'[w] \in Holding
      BY <1>0, <2>1, <3>2 DEF Spent
    <3> QED BY <3>1, <3>2
  <2>3. ASSUME NEW s \in Sources PROVE wakes'[w][s] <= Cardinality(Caused(notices, s, Spent(w)'))
    <3>1. /\ Cardinality(Caused(notices, s, Spent(w))) <= Cardinality(Caused(notices, s, Spent(w)'))
          /\ Cardinality(Caused(notices, s, Spent(w))) \in Nat
      BY <1>0, <2>2, CausedGrows
    <3>2. Cardinality(Caused(notices, s, Spent(w)')) \in Nat
      BY <2>2, CausedGrows
    <3>3. wakes'[w][s] <= Cardinality(Caused(notices, s, Spent(w))) /\ wakes'[w][s] \in Nat
      BY <1>1, <2>1
    <3> QED BY <3>1, <3>2, <3>3
  <2> QED BY <1>2, <1>3, <2>1, <2>3 DEF EvidenceInv
<1> QED BY <1>4, <1>5

-----------------------------------------------------------------------------
(* Verdicts.                                                               *)

\* What child i of waiter w has reported in this round.
Val(w, i) == obs[w][i].val

\* A child before the next one has been read and has decided nothing.
Passed(w, i) ==
    /\ Val(w, i) # "unread"
    /\ Mode(w) = "all" => Val(w, i) = "true"
    /\ Mode(w) = "any" => Val(w, i) # "true"
    /\ Mode(w) # "not"

\* What was read leaves the condition open.
Open(w) ==
    /\ Mode(w) = "all" => \E i \in DOMAIN Kids(w) : Val(w, i) \notin {"unread", "true"}
    /\ Mode(w) = "any" => \A i \in DOMAIN Kids(w) : Val(w, i) \notin {"unread", "true"}
    /\ Mode(w) = "not" => \A i \in DOMAIN Kids(w) : Val(w, i) # "false"

\* What was read establishes it.
Met(w) ==
    /\ Mode(w) = "all" => \A i \in DOMAIN Kids(w) : Val(w, i) = "true"
    /\ Mode(w) = "any" => \E i \in DOMAIN Kids(w) : Val(w, i) = "true"
    /\ Mode(w) = "not" => \E i \in DOMAIN Kids(w) : Val(w, i) = "false"

\* The locals of evaluate are those of the children before the next one, and the
\* place that the evaluation has led to is the one that they decide.
VerdictOf(w) ==
    /\ pc[w] \notin {"evaluate", "combine", "returned"} => kid[w] = 1 /\ errs[w] = {}
    /\ pc[w] \in {"evaluate", "combine"} =>
          /\ \A i \in DOMAIN Kids(w) : i < kid[w] => Passed(w, i)
          /\ errs[w] \subseteq Errors /\ (Mode(w) = "not" => kid[w] = 1)
    /\ pc[w] = "evaluate" => kid[w] <= Len(Kids(w)) + 1
    /\ pc[w] = "combine" => kid[w] \in DOMAIN Kids(w) /\ Val(w, kid[w]) # "unread"
    /\ pc[w] \in {"transient", "permanent", "select"} => Open(w)
    /\ pc[w] = "recheck" => Met(w) /\ (obsolete[w] => GivenUp(w))
    /\ result[w] = "ok" => pc[w] = "returned" /\ Met(w) /\ ~obsolete[w]
VerdictInv == \A w \in Waiters : VerdictOf(w)

\* Who is left alone keeps its verdict, even if somebody gives up.
LEMMA VerdictStays ==
    ASSUME scene' = scene, NEW u \in Waiters, VerdictOf(u), Same(u), GivenUp(u) => GivenUp(u)'
    PROVE  VerdictOf(u)'
<1>1. Kids(u)' = Kids(u) /\ Mode(u)' = Mode(u)
  BY SceneStays
<1> QED BY <1>1 DEF VerdictOf, Same, Passed, Open, Met, Val

\* An evaluation ends with what the children decide (Combine, EndOfChildren).
LEMMA EvaluatedVerdict ==
    ASSUME WaitersOK, scene' = scene, NEW w \in Waiters, NEW v \in {"true", "false", "transient", "permanent"},
           VerdictOf(w), pc[w] \in {"evaluate", "combine"}, Evaluated(w, v),
           UNCHANGED <<obs, epoch, wakes, result, ctxDone, closed>>,
           v = "true" => Met(w), v # "true" => Open(w)
    PROVE  VerdictOf(w)'
<1>1. /\ Kids(w)' = Kids(w) /\ Mode(w)' = Mode(w) /\ GivenUp(w)' = GivenUp(w)
  BY SceneStays DEF GivenUp
<1>2. /\ kid'[w] = 1 /\ errs'[w] = {} /\ obsolete'[w] = (v = "true" /\ GivenUp(w))
      /\ pc'[w] = IF v \in Errors THEN v ELSE IF v = "true" THEN "recheck" ELSE "select"
  BY EvaluatedAlone
<1>3. Open(w)' = Open(w) /\ Met(w)' = Met(w) /\ result'[w] = result[w]
  BY <1>1 DEF Open, Met, Val
<1>4. result[w] # "ok"
  BY DEF VerdictOf
<1>5. CASE v = "true"
  <2>1. pc'[w] = "recheck" /\ Met(w)' /\ (obsolete'[w] => GivenUp(w))
    BY <1>2, <1>3, <1>5 DEF Errors
  <2> QED BY <1>1, <1>2, <1>3, <1>4, <2>1 DEF VerdictOf
<1>6. CASE v # "true"
  <2>1. pc'[w] \in {"transient", "permanent", "select"} /\ Open(w)'
    BY <1>2, <1>3, <1>6 DEF Errors
  <2> QED BY <1>1, <1>2, <1>3, <1>4, <2>1 DEF VerdictOf
<1> QED BY <1>5, <1>6

\* The report of one child (Combine).
LEMMA CombineVerdict ==
    ASSUME SceneOK, WaitersOK, scene' = scene, NEW w \in Waiters, VerdictOf(w), Combine(w)
    PROVE  VerdictOf(w)'
<1> DEFINE k == kid[w]
           v == obs[w][kid[w]].val
<1>1. pc[w] = "combine" /\ UNCHANGED <<obs, epoch, wakes, result, ctxDone, closed>>
  BY DEF Combine, session
<1>2. /\ k \in DOMAIN Kids(w) /\ v \in {"true", "false", "transient", "permanent"} /\ Val(w, k) = v
      /\ k \in Nat \ {0}
  BY <1>1 DEF VerdictOf, WaitersOK, Val, Readings, Vals
<1>3. /\ Kids(w)' = Kids(w) /\ Mode(w)' = Mode(w)
  BY SceneStays
<1>4. Mode(w) \in {"all", "any", "not"} /\ Len(Kids(w)) \in Nat /\ DOMAIN Kids(w) = 1..Len(Kids(w))
      /\ (Mode(w) = "not" => Len(Kids(w)) = 1)
  BY SceneFacts
<1>5. CASE ShortCircuits(Mode(w), v)
  <2>1. Evaluated(w, Decided(Mode(w), v))
    BY <1>5 DEF Combine
  <2>2. Decided(Mode(w), v) \in {"true", "false", "transient", "permanent"}
    BY <1>2 DEF Decided, Errors
  <2> HIDE DEF k, v
  <2>3. ASSUME Decided(Mode(w), v) = "true" PROVE Met(w)
    <3>1. CASE Mode(w) = "all"
      BY <1>5, <2>3, <3>1 DEF Decided, ShortCircuits
    <3>2. CASE Mode(w) = "any"
      <4>1. v = "true"
        BY <2>3, <3>2 DEF Decided
      <4> QED BY <1>2, <3>2, <4>1 DEF Met
    <3>3. CASE Mode(w) = "not"
      <4>1. v = "false"
        BY <1>2, <2>3, <3>3 DEF Decided, Errors
      <4> QED BY <1>2, <3>3, <4>1 DEF Met
    <3> QED BY <1>4, <3>1, <3>2, <3>3
  <2>4. Decided(Mode(w), v) # "true" => Open(w)
    <3>1. CASE Mode(w) = "not"
      <4>1. \A i \in DOMAIN Kids(w) : i = k
        BY <1>2, <1>4, <3>1
      <4> QED BY <1>2, <3>1, <4>1 DEF Decided, Open, Errors
    <3>2. CASE Mode(w) = "all"
      <4>1. v # "true"
        BY <1>5, <3>2 DEF ShortCircuits
      <4> QED BY <1>2, <3>2, <4>1 DEF Open
    <3>3. CASE Mode(w) = "any"
      BY <1>5, <3>3 DEF Decided, ShortCircuits
    <3> QED BY <1>4, <3>1, <3>2, <3>3
  <2> QED BY <1>1, <2>1, <2>2, <2>3, <2>4, EvaluatedVerdict
<1>6. CASE ~ShortCircuits(Mode(w), v)
  <2>1. /\ WaitersOK' /\ kid'[w] = k + 1 /\ pc'[w] = "evaluate" /\ UNCHANGED obsolete
        /\ errs'[w] = errs[w] \cup ({v} \cap Errors)
    BY <1>6, NextChildAlone DEF Alone
  <2>2. Passed(w, k) /\ Mode(w) # "not"
    BY <1>2, <1>4, <1>6 DEF ShortCircuits, Passed
  <2>3. \A i \in DOMAIN Kids(w) : i < k + 1 => Passed(w, i)
    <3>1. ASSUME NEW i \in DOMAIN Kids(w), i < k + 1 PROVE i = k \/ i < k
      BY <1>2, <1>4, <3>1
    <3>2. \A i \in DOMAIN Kids(w) : i < k => Passed(w, i)
      BY <1>1 DEF VerdictOf
    <3> QED BY <2>2, <3>1, <3>2
  <2>4. \A i \in DOMAIN Kids(w) : i < kid'[w] => Passed(w, i)'
    BY <1>1, <1>3, <2>1, <2>3 DEF Passed, Val
  <2>5. k + 1 <= Len(Kids(w)) + 1
    BY <1>2, <1>4
  <2>6. errs'[w] \subseteq Errors /\ result'[w] # "ok"
    BY <1>1, <2>1 DEF VerdictOf
  <2> QED BY <1>3, <2>1, <2>2, <2>4, <2>5, <2>6 DEF VerdictOf
<1> QED BY <1>5, <1>6

\* No child has decided (EndOfChildren).
LEMMA EndVerdict ==
    ASSUME SceneOK, WaitersOK, scene' = scene, NEW w \in Waiters, VerdictOf(w), EndOfChildren(w)
    PROVE  VerdictOf(w)'
<1>1. /\ pc[w] = "evaluate" /\ UNCHANGED <<obs, epoch, wakes, result, ctxDone, closed>>
      /\ Evaluated(w, Undecided(Mode(w), errs[w])) /\ kid[w] > Len(Kids(w))
  BY DEF EndOfChildren, session
<1>2. Mode(w) \in {"all", "any", "not"} /\ Len(Kids(w)) \in Nat /\ DOMAIN Kids(w) = 1..Len(Kids(w))
      /\ (Mode(w) = "not" => Len(Kids(w)) = 1) /\ kid[w] \in Nat
  BY SceneFacts DEF WaitersOK
<1>3. Mode(w) # "not"
  BY <1>1, <1>2 DEF VerdictOf
<1>4. \A i \in DOMAIN Kids(w) : i < kid[w]
  BY <1>1, <1>2
<1>5. \A i \in DOMAIN Kids(w) : Passed(w, i)
  BY <1>1, <1>4 DEF VerdictOf
<1>6. errs[w] \subseteq Errors
  BY <1>1 DEF VerdictOf
<1>7. CASE Mode(w) = "all"
  <2>1. Undecided(Mode(w), errs[w]) = "true" /\ Met(w)
    BY <1>5, <1>7 DEF Undecided, Met, Passed
  <2> QED BY <1>1, <2>1, EvaluatedVerdict
<1>8. CASE Mode(w) = "any"
  <2>1. errs[w] = {} \/ errs[w] = {"transient"} \/ "permanent" \in errs[w]
    BY <1>6 DEF Errors
  <2>2. Joined(errs[w]) \in {"false", "transient", "permanent"}
    BY <2>1 DEF Joined
  <2>3. Undecided(Mode(w), errs[w]) = Joined(errs[w])
    BY <1>8 DEF Undecided
  <2>4. Open(w)
    BY <1>5, <1>8 DEF Open, Passed
  <2> QED BY <1>1, <2>2, <2>3, <2>4, EvaluatedVerdict
<1> QED BY <1>2, <1>3, <1>7, <1>8

\* A child is read, or a round ends or begins (ReadChild, Subscribe, WakeByEvent,
\* WakeByPoll).
LEMMA RoundVerdict ==
    ASSUME SceneOK, FeedsOK, WaitersOK, HubInv, scene' = scene, NEW w \in Waiters, VerdictOf(w),
           ReadChild(w) \/ Subscribe(w) \/ WakeByEvent(w) \/ WakeByPoll(w)
    PROVE  VerdictOf(w)'
<1>1. /\ Kids(w)' = Kids(w) /\ Mode(w)' = Mode(w)
  BY SceneStays
<1>2. CASE ReadChild(w)
  <2>1. /\ pc[w] = "evaluate" /\ pc'[w] = "combine" /\ UNCHANGED <<kid, errs, result, obsolete>>
        /\ kid[w] \in DOMAIN Kids(w) /\ obs'[w][kid[w]].val # "unread"
        /\ \A i \in DOMAIN Kids(w) : i # kid[w] => obs'[w][i] = obs[w][i]
    BY <1>2, ReadAlone
  <2>2. \A i \in DOMAIN Kids(w) : i < kid[w] => i # kid[w]
    BY <2>1, SceneFacts
  <2>3. \A i \in DOMAIN Kids(w) : i < kid[w] => Passed(w, i)'
    BY <1>1, <2>1, <2>2 DEF VerdictOf, Passed, Val
  <2>4. result[w] # "ok"
    BY <2>1 DEF VerdictOf
  <2> QED BY <1>1, <2>1, <2>3, <2>4 DEF VerdictOf, Val
<1>3. CASE Subscribe(w)
  <2>1. pc[w] = "subscribe" /\ pc'[w] = "evaluate" /\ UNCHANGED <<kid, errs, result, obsolete>>
    BY <1>3, SubscribeAlone DEF Subscribe
  <2>2. kid[w] = 1 /\ errs[w] = {} /\ result[w] # "ok"
    BY <2>1 DEF VerdictOf
  <2>3. Len(Kids(w)) \in Nat /\ \A i \in DOMAIN Kids(w) : ~(i < 1)
    BY SceneFacts
  <2> QED BY <1>1, <2>1, <2>2, <2>3 DEF VerdictOf
<1>4. CASE WakeByEvent(w) \/ WakeByPoll(w)
  <2>1. pc[w] = "select"
    BY <1>4 DEF WakeByEvent, WakeByPoll
  <2>2. epoch[w] >= 1
    BY <2>1 DEF HubInv, Holding, WaitersOK
  <2>3. pc'[w] = "state" /\ UNCHANGED <<kid, errs, result>>
    BY <1>4, <2>2, WakeAlone, PollAlone
  <2>4. kid[w] = 1 /\ errs[w] = {} /\ result[w] # "ok"
    BY <2>1 DEF VerdictOf
  <2> QED BY <2>3, <2>4 DEF VerdictOf
<1> QED BY <1>2, <1>3, <1>4

\* The steps that change only where a waiter is, and its result.
LEMMA MoveVerdict ==
    ASSUME SceneOK, WaitersOK, scene' = scene, NEW w \in Waiters, VerdictOf(w),
           \/ Call(w) \/ CheckState(w) \/ PublishHub(w) \/ StartSources(w) \/ JudgeError(w)
           \/ Recheck(w) \/ SelectCancelled(w) \/ SelectClosed(w)
    PROVE  VerdictOf(w)'
<1>1. /\ Kids(w)' = Kids(w) /\ Mode(w)' = Mode(w)
  BY SceneStays
<1>2. UNCHANGED <<kid, errs, obs, epoch, wakes, obsolete>>
  BY MovesAlone
<1>3. Open(w)' = Open(w) /\ Met(w)' = Met(w)
  BY <1>1, <1>2 DEF Open, Met, Val
<1>4. CASE Recheck(w) /\ ~GivenUp(w)
  <2>1. pc[w] = "recheck" /\ pc'[w] = "returned" /\ result'[w] = "ok"
    BY <1>4 DEF Recheck, Return, GoTo, WaitersOK
  <2>2. Met(w) /\ ~obsolete[w]
    BY <1>4, <2>1 DEF VerdictOf
  <2> QED BY <1>2, <1>3, <2>1, <2>2 DEF VerdictOf
<1>5. CASE /\ pc[w] # "returned"
           /\ \E r \in {"canceled", "closed", "permanent", "exhausted"} : Return(w, r)
  <2>1. pc'[w] = "returned" /\ result'[w] # "ok"
    BY <1>5 DEF Return, GoTo, WaitersOK
  <2> QED BY <2>1 DEF VerdictOf
<1>6. CASE /\ pc[w] \in Errors \cup Before /\ UNCHANGED result
           /\ \E l \in {"state", "subscribe", "sources", "select"} : GoTo(w, l) /\ (l = "select" => pc[w] \in Errors)
  <2>1. pc'[w] \in {"state", "subscribe", "sources", "select"} /\ (pc'[w] = "select" => pc[w] \in Errors)
    BY <1>6 DEF GoTo, WaitersOK
  <2>2. kid[w] = 1 /\ errs[w] = {} /\ result[w] # "ok" /\ (pc[w] \in Errors => Open(w))
    BY <1>6 DEF VerdictOf, Errors, Before
  <2> QED BY <1>2, <1>3, <1>6, <2>1, <2>2 DEF VerdictOf
<1>7. CASE Call(w) \/ CheckState(w) \/ PublishHub(w) \/ StartSources(w)
  BY <1>5, <1>6, <1>7 DEF Call, CheckState, PublishHub, StartSources, StateError, Before
<1>8. CASE JudgeError(w)
  BY <1>5, <1>6, <1>8 DEF JudgeError, StateError, Errors
<1>9. CASE Recheck(w) \/ SelectCancelled(w) \/ SelectClosed(w)
  BY <1>4, <1>5, <1>9 DEF Recheck, SelectCancelled, SelectClosed, StateError
<1> QED BY <1>7, <1>8, <1>9

\* Every step keeps the verdicts.
LEMMA WaitersVerdict ==
    ASSUME SceneOK, FeedsOK, WaitersOK, HubInv, VerdictInv, scene' = scene, NEW w \in Waiters, WaiterStep(w)
    PROVE  VerdictInv'
<1>1. VerdictOf(w)
  BY DEF VerdictInv
<1>2. VerdictOf(w)'
  <2>1. CASE Combine(w)
    BY <1>1, <2>1, CombineVerdict
  <2>2. CASE EndOfChildren(w)
    BY <1>1, <2>2, EndVerdict
  <2>3. CASE ReadChild(w) \/ Subscribe(w) \/ WakeByEvent(w) \/ WakeByPoll(w)
    BY <1>1, <2>3, RoundVerdict
  <2>4. CASE \/ Call(w) \/ CheckState(w) \/ PublishHub(w) \/ StartSources(w) \/ JudgeError(w)
             \/ Recheck(w) \/ SelectCancelled(w) \/ SelectClosed(w)
    BY <1>1, <2>4, MoveVerdict
  <2> QED BY <2>1, <2>2, <2>3, <2>4 DEF WaiterStep
<1>3. \A u \in Waiters : u # w => Same(u)
  <2>1. CASE WakeByEvent(w)
    <3>1. epoch[w] >= 1
      BY <2>1 DEF WakeByEvent, HubInv, Holding, WaitersOK
    <3> QED BY <2>1, <3>1, WakeAlone DEF Alone
  <2>2. CASE ~WakeByEvent(w)
    BY <2>2, WaiterCounts DEF Alone
  <2> QED BY <2>1, <2>2
<1>4. UNCHANGED <<ctxDone, closed>>
  BY DEF WaiterStep, Call, CheckState, PublishHub, StartSources, Subscribe, ReadChild, Combine,
         EndOfChildren, JudgeError, Recheck, WakeByEvent, WakeByPoll, SelectCancelled, SelectClosed, session
<1>5. ASSUME NEW u \in Waiters, u # w PROVE VerdictOf(u)'
  <2>1. VerdictOf(u) /\ Same(u) /\ (GivenUp(u) => GivenUp(u)')
    BY <1>3, <1>4, <1>5 DEF VerdictInv, GivenUp
  <2> QED BY <2>1, VerdictStays
<1> QED BY <1>2, <1>5 DEF VerdictInv

\* The desktop and the feeds leave them alone, and who has given up stays so.
LEMMA OthersVerdict ==
    ASSUME VerdictInv, scene' = scene, Environment \/ FeedStep
    PROVE  VerdictInv'
<1>1. UNCHANGED locals /\ ctxDone \subseteq ctxDone' /\ (closed => closed')
  BY OthersSteps
<1>2. ASSUME NEW u \in Waiters PROVE VerdictOf(u)'
  <2>1. VerdictOf(u) /\ Same(u) /\ (GivenUp(u) => GivenUp(u)')
    BY <1>1 DEF VerdictInv, Same, locals, GivenUp
  <2> QED BY <2>1, VerdictStays
<1> QED BY <1>2 DEF VerdictInv

-----------------------------------------------------------------------------
(* The theorems.                                                           *)

WaitInv == TypeOK /\ HubInv /\ WakeInv /\ EvidenceInv /\ VerdictInv

\* A session begins with nobody waiting.
LEMMA WaitStart ==
    ASSUME Init PROVE WaitInv
<1>0. SceneOK
  BY DEF Init, SceneOK
<1>1. /\ Streams \subseteq Sources /\ Sources \subseteq Facts
      /\ \A w \in Waiters : Len(Kids(w)) \in Nat /\ DOMAIN Kids(w) = 1..Len(Kids(w))
  BY <1>0, SceneFacts
<1>2. FeedsOK
  <2>1. /\ truth \in [Facts -> BOOLEAN] /\ version \in [Facts -> Nat] /\ emitted \in [Facts -> Nat]
        /\ health \in [Facts -> {"ok"} \cup Errors]
    BY DEF Init
  <2>2. /\ hints \in [Streams -> Nat]
        /\ stream \in [Streams -> {"off", "opening", "open", "ended"}]
        /\ forwarder \in [Streams -> {"off", "receive", "notify", "ended"}]
    BY DEF Init
  <2>3. notices \in Seq(Sources)
    BY DEF Init
  <2>4. reaper = "wait" /\ once = "no" /\ hub = FALSE /\ closed = FALSE /\ cancelled = FALSE
    BY DEF Init
  <2> QED BY <2>1, <2>2, <2>3, <2>4 DEF FeedsOK
<1>3. Unread \in Readings /\ Unread.val = "unread"
  BY DEF Unread, Readings, Vals
<1>4. \A w \in Waiters : pc[w] \in {"idle", "absent"} /\ kid[w] = 1 /\ errs[w] = {} /\ result[w] = "none"
  BY DEF Init
<1>5. \A w \in Waiters : obs[w] = [i \in DOMAIN Kids(w) |-> Unread]
  BY DEF Init
<1>6. WaitersOK
  <2>1. pc \in [Waiters -> Places] /\ kid \in [Waiters -> Nat \ {0}] /\ errs \in [Waiters -> SUBSET Errors]
    BY DEF Init, Places
  <2>2. epoch \in [Waiters -> Nat] /\ wakes \in [Waiters -> [Sources -> Nat]]
        /\ obsolete \in [Waiters -> BOOLEAN]
        /\ result \in [Waiters -> {"none", "ok", "canceled", "closed", "permanent", "exhausted"}]
    BY DEF Init
  <2>3. DOMAIN obs = Waiters /\ obs = [w \in Waiters |-> obs[w]]
    BY DEF Init
  <2>4. \A w \in Waiters : obs[w] \in [DOMAIN Kids(w) -> Readings]
    BY <1>3, <1>5
  <2> QED BY <2>1, <2>2, <2>3, <2>4 DEF WaitersOK
<1>7. HubInv
  <2>1. \A w \in Waiters : \A i \in DOMAIN Kids(w) : obs[w][i] = Unread
    BY <1>5
  <2>2. once = "no" /\ \A f \in Facts : emitted[f] = 0 /\ version[f] = 0
    BY DEF Init
  <2> QED BY <1>4, <2>1, <2>2 DEF HubInv, Holding
<1>8. WakeInv
  BY <1>4 DEF WakeInv, Holding
<1>9. EvidenceInv
  <2> SUFFICES ASSUME NEW w \in Waiters, NEW s \in Sources
               PROVE  wakes[w][s] <= Cardinality(Caused(notices, s, Spent(w)))
    BY DEF EvidenceInv
  <2>1. wakes[w][s] = 0
    BY DEF Init
  <2>2. Spent(w) \in Nat
    BY <1>2, <1>6, <1>7, SpentBounds
  <2>3. Cardinality(Caused(notices, s, Spent(w))) \in Nat
    BY <2>2, CausedGrows
  <2> QED BY <2>1, <2>3
<1>10. VerdictInv
  BY <1>4 DEF VerdictInv, VerdictOf
<1> QED BY <1>0, <1>2, <1>6, <1>7, <1>8, <1>9, <1>10 DEF WaitInv, TypeOK

\* Every step keeps the invariant.
LEMMA WaitStep ==
    ASSUME WaitInv, [Next]_<<scene, vars>>
    PROVE  WaitInv'
<1> USE DEF WaitInv, TypeOK
<1>1. CASE UNCHANGED <<scene, vars>>
  <2>1. UNCHANGED <<scene, truth, version, emitted, health, stream, hints, forwarder, reaper, once, hub,
                    notices, closed, cancelled, ctxDone, pc, kid, errs, obs, epoch, wakes, obsolete, result>>
    BY <1>1 DEF vars, desktop, feeds, hubVars, session, locals
  <2>2. Facts' = Facts /\ Streams' = Streams /\ Sources' = Sources
    BY <2>1, SceneStays
  <2>3. \A w \in Waiters : Kids(w)' = Kids(w) /\ Mode(w)' = Mode(w)
    BY <2>1, SceneStays
  <2>4. SceneOK' /\ FeedsOK' /\ WaitersOK'
    BY <2>1, <2>2, <2>3 DEF SceneOK, FeedsOK, WaitersOK
  <2>5. HubInv'
    BY <2>1, <2>2, <2>3 DEF HubInv
  <2>6. WakeInv'
    BY <2>1, <2>2, <2>3 DEF WakeInv, OnItsWay
  <2>7. EvidenceInv'
    BY <2>1, <2>2 DEF EvidenceInv, Spent
  <2>8. VerdictInv'
    <3>1. ASSUME NEW u \in Waiters PROVE VerdictOf(u)'
      <4>1. VerdictOf(u) /\ Same(u) /\ (GivenUp(u) => GivenUp(u)')
        BY <2>1 DEF VerdictInv, Same, GivenUp
      <4> QED BY <2>1, <4>1, VerdictStays
    <3> QED BY <3>1 DEF VerdictInv
  <2> QED BY <2>4, <2>5, <2>6, <2>7, <2>8
<1>2. CASE scene' = scene /\ (Environment \/ FeedStep)
  <2>1. SceneOK' /\ FeedsOK'
    BY <1>2, FeedsStay DEF SceneOK
  <2>2. WaitersOK'
    <3>1. UNCHANGED <<pc, kid, errs, obs, epoch, wakes, obsolete, result>>
      BY <1>2, OthersSteps DEF locals
    <3>2. Sources' = Sources
      BY <1>2, SceneStays
    <3>3. \A w \in Waiters : Kids(w)' = Kids(w)
      BY <1>2, SceneStays
    <3> QED BY <3>1, <3>2, <3>3 DEF WaitersOK
  <2> QED BY <1>2, <2>1, <2>2, OthersWake, OthersEvidence, OthersVerdict
<1>3. ASSUME scene' = scene, NEW w \in Waiters, WaiterStep(w) PROVE WaitInv'
  <2>1. SceneOK' /\ FeedsOK'
    BY <1>3, FeedsStayWaiter DEF SceneOK
  <2>2. WaitersOK'
    <3>1. CASE WakeByEvent(w)
      <4>1. epoch[w] >= 1
        BY <3>1 DEF WakeByEvent, HubInv, Holding, WaitersOK
      <4> QED BY <1>3, <3>1, <4>1, WakeAlone DEF Alone
    <3>2. CASE ~WakeByEvent(w)
      BY <1>3, <3>2, WaiterCounts DEF Alone
    <3> QED BY <3>1, <3>2
  <2> QED BY <1>3, <2>1, <2>2, WaitersWake, WaitersEvidence, WaitersVerdict
<1> QED BY <1>1, <1>2, <1>3 DEF Next

\* The waits' types (SessionWait), for any number of waiters, any conditions, and
\* any bounds.
THEOREM WaitTypes == Spec => []TypeOK
<1>1. WaitInv => TypeOK
  BY DEF WaitInv
<1> QED BY <1>1, WaitStart, WaitStep, PTL DEF Spec

\* No announced change of what a sleeping waiter has read is missed, and a change
\* is counted once (waitWithEvidence, invalidationHub).
THEOREM Wakeups == Spec => []WakeupsAreExact
<1>1. ASSUME WaitInv PROVE NoLostWakeup
  <2> SUFFICES ASSUME NEW w \in Waiters, pc[w] = "select", NEW i \in DOMAIN Kids(w),
                      NEW f, f = Kids(w)[i], obs[w][i] # Unread, emitted[f] > obs[w][i].ver
               PROVE  EpochDone(w) \/ OnItsWay(f) \/ cancelled
    BY DEF NoLostWakeup
  <2>1. epoch[w] <= Len(notices) \/ OnItsWay(f) \/ cancelled
    BY <1>1 DEF WaitInv, WakeInv, Holding
  <2>2. f \in Facts
    BY <1>1, SceneFacts DEF WaitInv, TypeOK
  <2>3. f # "caller"
    <3>1. obs[w][i].ver \in Nat
      BY <1>1 DEF WaitInv, TypeOK, WaitersOK, Readings
    <3>2. f = "caller" => emitted[f] = 0
      BY <1>1, <2>2 DEF WaitInv, HubInv
    <3> QED BY <3>1, <3>2
  <2>4. ~PollingOnly(w)
    BY <2>3 DEF PollingOnly, ToSet
  <2> QED BY <2>1, <2>4 DEF EpochDone
<1>2. ASSUME WaitInv PROVE EvidenceIsTrue
  <2> SUFFICES ASSUME NEW w \in Waiters, NEW s \in Sources
               PROVE  wakes[w][s] <= Cardinality({n \in DOMAIN notices : notices[n] = s})
    BY DEF EvidenceIsTrue
  <2>1. Spent(w) \in Nat /\ Spent(w) <= Len(notices) /\ Len(notices) \in Nat
    BY <1>2, SpentBounds DEF WaitInv, TypeOK
  <2>2. wakes[w][s] <= Cardinality(Caused(notices, s, Spent(w))) /\ wakes[w][s] \in Nat
    BY <1>2 DEF WaitInv, TypeOK, EvidenceInv, WaitersOK
  <2>3. /\ Cardinality(Caused(notices, s, Spent(w))) <= Cardinality(Caused(notices, s, Len(notices)))
        /\ Cardinality(Caused(notices, s, Spent(w))) \in Nat
        /\ Cardinality(Caused(notices, s, Len(notices))) \in Nat
    BY <2>1, CausedGrows
  <2>4. DOMAIN notices = 1..Len(notices)
    BY <1>2 DEF WaitInv, TypeOK, FeedsOK
  <2>5. {n \in DOMAIN notices : notices[n] = s} = Caused(notices, s, Len(notices))
    BY <2>4 DEF Caused
  <2>6. wakes[w][s] <= Cardinality(Caused(notices, s, Len(notices)))
    BY <2>2, <2>3
  <2> QED BY <2>5, <2>6
<1>3. WaitInv => WakeupsAreExact
  BY <1>1, <1>2 DEF WakeupsAreExact
<1> QED BY <1>3, WaitStart, WaitStep, PTL DEF Spec

\* A waiter sleeps only if what it has read leaves its condition open, and
\* succeeds only if that establishes it and nobody had given up
\* (compositeCondition.evaluate, notCondition.evaluate, waitWithEvidence).
THEOREM Verdicts == Spec => []VerdictFollowsReadings
<1>1. ASSUME WaitInv, NEW w \in Waiters, Open(w)
      PROVE  CASE Mode(w) = "all" -> Read(w) # Reported(w, "true")
               [] Mode(w) = "any" -> Read(w) = DOMAIN Kids(w) /\ Reported(w, "true") = {}
               [] Mode(w) = "not" -> Reported(w, "false") = {}
  <2>1. Mode(w) \in {"all", "any", "not"}
    BY <1>1, SceneFacts DEF WaitInv, TypeOK
  <2>2. Unread.val = "unread"
    BY DEF Unread
  <2>3. \A i \in DOMAIN Kids(w) : Val(w, i) # "unread" => i \in Read(w)
    BY <2>2 DEF Val, Read
  <2>4. CASE Mode(w) = "all"
    BY <1>1, <2>3, <2>4 DEF Open, Reported, Val
  <2>5. CASE Mode(w) = "any"
    <3>1. \A i \in DOMAIN Kids(w) : i \in Read(w) /\ Val(w, i) # "true"
      BY <1>1, <2>3, <2>5 DEF Open
    <3>2. Read(w) \subseteq DOMAIN Kids(w)
      BY DEF Read
    <3>3. Read(w) = DOMAIN Kids(w) /\ Reported(w, "true") = {}
      BY <3>1, <3>2 DEF Reported, Val
    <3> QED BY <2>5, <3>3
  <2>6. CASE Mode(w) = "not"
    <3>1. Reported(w, "false") = {}
      BY <1>1, <2>6 DEF Open, Reported, Read, Val
    <3> QED BY <2>6, <3>1
  <2> QED BY <2>1, <2>4, <2>5, <2>6
<1>2. ASSUME WaitInv, NEW w \in Waiters, Met(w)
      PROVE  CASE Mode(w) = "all" -> Reported(w, "true") = DOMAIN Kids(w)
               [] Mode(w) = "any" -> Reported(w, "true") # {}
               [] Mode(w) = "not" -> Reported(w, "false") # {}
  <2>1. Mode(w) \in {"all", "any", "not"}
    BY <1>2, SceneFacts DEF WaitInv, TypeOK
  <2>2. Unread.val = "unread"
    BY DEF Unread
  <2>3. \A i \in DOMAIN Kids(w), v \in {"true", "false"} : Val(w, i) = v => i \in Reported(w, v)
    BY <2>2 DEF Val, Read, Reported
  <2>4. Reported(w, "true") \subseteq DOMAIN Kids(w)
    BY DEF Reported, Read
  <2>5. CASE Mode(w) = "all"
    <3>1. Reported(w, "true") = DOMAIN Kids(w)
      BY <1>2, <2>3, <2>4, <2>5 DEF Met
    <3> QED BY <2>5, <3>1
  <2>6. CASE Mode(w) = "any"
    <3>1. Reported(w, "true") # {}
      BY <1>2, <2>3, <2>6 DEF Met
    <3> QED BY <2>6, <3>1
  <2>7. CASE Mode(w) = "not"
    <3>1. Reported(w, "false") # {}
      BY <1>2, <2>3, <2>7 DEF Met
    <3> QED BY <2>7, <3>1
  <2> QED BY <2>1, <2>5, <2>6, <2>7
<1>3. ASSUME WaitInv PROVE VerdictFollowsReadings
  <2>1. \A w \in Waiters : VerdictOf(w)
    BY <1>3 DEF WaitInv, VerdictInv
  <2>2. \A w \in Waiters : /\ pc[w] = "select" => Open(w)
                           /\ result[w] = "ok" => Met(w) /\ ~obsolete[w]
    BY <2>1 DEF VerdictOf
  <2> QED BY <1>1, <1>2, <1>3, <2>2 DEF VerdictFollowsReadings
<1> QED BY <1>3, WaitStart, WaitStep, PTL DEF Spec

-----------------------------------------------------------------------------
(* The tally of failures.                                                  *)

Evaluations == [failed : BOOLEAN, at : Nat]

LogTypes ==
    /\ logNow \in Nat
    /\ logFailures \in [consecutive : Nat, total : Nat, since : Nat]
    /\ log \in Seq(Evaluations)
    /\ verdict \in {"waiting", "exhausted"}

\* The run of failures that ends log l begins at position i.
BeginsAt(l, i) ==
    /\ i \in 1..Len(l) + 1
    /\ \A j \in i..Len(l) : l[j].failed
    /\ i = 1 \/ ~l[i - 1].failed

\* The tally counts the failures and the run of them that ends the log.
TallyInv ==
    /\ logFailures.total = Cardinality(FailuresIn(log))
    /\ \E i \in 1..Len(log) + 1 :
          /\ BeginsAt(log, i)
          /\ logFailures.consecutive = Len(log) + 1 - i
          /\ i <= Len(log) => logFailures.since = log[i].at

LogInv == LogTypes /\ TallyInv /\ GivesUpExactly

\* Only one position begins the run that ends a log.
LEMMA OneBeginning ==
    ASSUME NEW l \in Seq(Evaluations), NEW i \in 1..Len(l) + 1, BeginsAt(l, i)
    PROVE  StreakStart(l) = i
<1>1. \A j \in 1..Len(l) + 1 : BeginsAt(l, j) => j = i
  <2> SUFFICES ASSUME NEW j \in 1..Len(l) + 1, BeginsAt(l, j) PROVE j = i
    OBVIOUS
  <2>0. Len(l) \in Nat
    OBVIOUS
  <2>1. ~(i < j)
    <3> SUFFICES ASSUME i < j PROVE FALSE
      OBVIOUS
    <3>1. j - 1 \in i..Len(l) /\ j # 1
      BY <2>0
    <3> QED BY <3>1 DEF BeginsAt
  <2>2. ~(j < i)
    <3> SUFFICES ASSUME j < i PROVE FALSE
      OBVIOUS
    <3>1. i - 1 \in j..Len(l) /\ i # 1
      BY <2>0
    <3> QED BY <3>1 DEF BeginsAt
  <2> QED BY <2>0, <2>1, <2>2
<1> QED BY <1>1 DEF StreakStart, BeginsAt

\* An evaluation that succeeds ends the run, one that fails makes it longer.
LEMMA RunOfLog ==
    ASSUME NEW l \in Seq(Evaluations), NEW i \in 1..Len(l) + 1, BeginsAt(l, i), NEW e \in Evaluations
    PROVE  /\ e.failed => BeginsAt(Append(l, e), i)
           /\ ~e.failed => BeginsAt(Append(l, e), Len(l) + 2)
<1>1. /\ Len(Append(l, e)) = Len(l) + 1 /\ Len(l) \in Nat
      /\ \A j \in 1..Len(l) : Append(l, e)[j] = l[j]
      /\ Append(l, e)[Len(l) + 1] = e
  OBVIOUS
<1>2. ASSUME e.failed
      PROVE  BeginsAt(Append(l, e), i)
  <2>1. \A j \in i..Len(l) + 1 : Append(l, e)[j].failed
    BY <1>1, <1>2 DEF BeginsAt
  <2>2. i = 1 \/ (i - 1 \in 1..Len(l) /\ ~l[i - 1].failed)
    BY <1>1 DEF BeginsAt
  <2> QED BY <1>1, <2>1, <2>2 DEF BeginsAt
<1>3. ASSUME ~e.failed
      PROVE  BeginsAt(Append(l, e), Len(l) + 2)
  BY <1>1, <1>3 DEF BeginsAt
<1> QED BY <1>2, <1>3

\* The failures of a log are counted one by one.
LEMMA FailuresCounted ==
    ASSUME NEW l \in Seq(Evaluations), NEW e \in Evaluations
    PROVE  /\ Cardinality(FailuresIn(l)) \in Nat
           /\ e.failed => Cardinality(FailuresIn(Append(l, e))) = Cardinality(FailuresIn(l)) + 1
           /\ ~e.failed => FailuresIn(Append(l, e)) = FailuresIn(l)
<1>0. /\ Len(Append(l, e)) = Len(l) + 1 /\ Len(l) \in Nat
      /\ DOMAIN l = 1..Len(l) /\ DOMAIN Append(l, e) = 1..Len(l) + 1
      /\ \A j \in 1..Len(l) : Append(l, e)[j] = l[j]
      /\ Append(l, e)[Len(l) + 1] = e
  OBVIOUS
<1>1. IsFiniteSet(FailuresIn(l))
  <2>1. IsFiniteSet(1..Len(l)) /\ FailuresIn(l) \subseteq 1..Len(l)
    BY <1>0, FS_Interval DEF FailuresIn
  <2> QED BY <2>1, FS_Subset
<1>2. ASSUME e.failed
      PROVE  Cardinality(FailuresIn(Append(l, e))) = Cardinality(FailuresIn(l)) + 1
  <2>1. FailuresIn(Append(l, e)) = FailuresIn(l) \cup {Len(l) + 1}
    BY <1>0, <1>2 DEF FailuresIn
  <2>2. Len(l) + 1 \notin FailuresIn(l)
    BY <1>0 DEF FailuresIn
  <2> QED BY <1>1, <2>1, <2>2, FS_AddElement
<1>3. ASSUME ~e.failed
      PROVE  FailuresIn(Append(l, e)) = FailuresIn(l)
  BY <1>0, <1>3 DEF FailuresIn
<1> QED BY <1>1, <1>2, <1>3, FS_CardinalityType

\* What the log was before its last evaluation is one of its beginnings.
LEMMA Beginnings ==
    ASSUME NEW l \in Seq(Evaluations), NEW e \in Evaluations, NEW n \in 0..Len(l)
    PROVE  SubSeq(Append(l, e), 1, n) = IF n = Len(l) THEN l ELSE SubSeq(l, 1, n)
<1>1. /\ Len(Append(l, e)) = Len(l) + 1 /\ Len(l) \in Nat
      /\ \A j \in 1..Len(l) : Append(l, e)[j] = l[j]
  OBVIOUS
<1>2. SubSeq(Append(l, e), 1, n) = SubSeq(l, 1, n)
  BY <1>1
<1>3. n = Len(l) => SubSeq(l, 1, n) = l
  BY <1>1
<1> QED BY <1>2, <1>3

\* A wait that goes on has given up on no beginning of its log.
LEMMA EarlierLogs ==
    ASSUME LogInv, verdict = "waiting", NEW e \in Evaluations, log' = Append(log, e)
    PROVE  \A n \in 0..Len(log') - 1 : ~TooMany(SubSeq(log', 1, n))
<1> SUFFICES ASSUME NEW n \in 0..Len(log') - 1 PROVE ~TooMany(SubSeq(log', 1, n))
  OBVIOUS
<1>1. log \in Seq(Evaluations) /\ Len(log) \in Nat /\ Len(log') - 1 = Len(log) /\ n \in 0..Len(log)
  BY DEF LogInv, LogTypes
<1>2. CASE n = Len(log)
  BY <1>1, <1>2, Beginnings DEF LogInv, GivesUpExactly
<1>3. CASE n # Len(log)
  <2>1. n \in 0..Len(log) - 1
    BY <1>1, <1>3
  <2> QED BY <1>1, <1>3, <2>1, Beginnings DEF LogInv, GivesUpExactly
<1> QED BY <1>2, <1>3

\* An evaluation that succeeds (reset).
LEMMA SuccessKept ==
    ASSUME LogInv, EvaluationSucceeds
    PROVE  LogInv'
<1> DEFINE e == [failed |-> FALSE, at |-> logNow]
<1>1. /\ log \in Seq(Evaluations) /\ Len(log) \in Nat /\ e \in Evaluations /\ log' = Append(log, e)
      /\ verdict = "waiting" /\ verdict' = verdict /\ logNow' = logNow /\ ~e.failed
      /\ logFailures' = [logFailures EXCEPT !.consecutive = 0, !.since = 0]
  BY DEF LogInv, LogTypes, Evaluations, EvaluationSucceeds, Reset
<1>2. LogTypes'
  <2>1. logFailures' \in [consecutive : Nat, total : Nat, since : Nat]
    BY <1>1 DEF LogInv, LogTypes
  <2>2. log' \in Seq(Evaluations)
    BY <1>1
  <2> QED BY <1>1, <2>1, <2>2 DEF LogInv, LogTypes
<1>3. PICK i \in 1..Len(log) + 1 : BeginsAt(log, i)
  BY DEF LogInv, TallyInv
<1>4. Len(log') = Len(log) + 1 /\ BeginsAt(log', Len(log) + 2) /\ FailuresIn(log') = FailuresIn(log)
  BY <1>1, <1>3, RunOfLog, FailuresCounted
<1>5. TallyInv'
  <2>1. logFailures'.consecutive = 0 /\ logFailures'.total = logFailures.total
    BY <1>1 DEF LogInv, LogTypes
  <2>2. logFailures'.total = Cardinality(FailuresIn(log'))
    BY <1>4, <2>1 DEF LogInv, TallyInv
  <2>3. /\ Len(log) + 2 \in 1..Len(log') + 1 /\ 0 = Len(log') + 1 - (Len(log) + 2)
        /\ ~(Len(log) + 2 <= Len(log'))
    BY <1>1, <1>4
  <2> QED BY <1>4, <2>1, <2>2, <2>3 DEF TallyInv
<1>6. ~TooMany(log')
  <2>1. Last(log') = e
    BY <1>1, <1>4 DEF Last
  <2> QED BY <1>1, <2>1 DEF TooMany
<1> QED BY <1>1, <1>2, <1>5, <1>6, EarlierLogs DEF LogInv, GivesUpExactly

\* An evaluation that fails (record).
LEMMA FailureKept ==
    ASSUME LogInv, EvaluationFails
    PROVE  LogInv'
<1> DEFINE e == [failed |-> TRUE, at |-> logNow]
<1>1. /\ log \in Seq(Evaluations) /\ Len(log) \in Nat /\ e \in Evaluations /\ log' = Append(log, e)
      /\ verdict = "waiting" /\ logNow' = logNow /\ e.failed /\ logNow \in Nat
      /\ logFailures \in [consecutive : Nat, total : Nat, since : Nat]
  BY DEF LogInv, LogTypes, Evaluations, EvaluationFails
<1>2. /\ logFailures'.consecutive = logFailures.consecutive + 1
      /\ logFailures'.total = logFailures.total + 1
      /\ logFailures'.since = IF logFailures.consecutive = 0 THEN logNow ELSE logFailures.since
      /\ logFailures' \in [consecutive : Nat, total : Nat, since : Nat]
      /\ verdict' = IF Exhausted(logFailures', logNow) THEN "exhausted" ELSE "waiting"
  BY <1>1 DEF EvaluationFails, Recorded
<1>3. LogTypes'
  BY <1>1, <1>2 DEF LogTypes
<1>4. PICK i \in 1..Len(log) + 1 :
          /\ BeginsAt(log, i)
          /\ logFailures.consecutive = Len(log) + 1 - i
          /\ i <= Len(log) => logFailures.since = log[i].at
  BY DEF LogInv, TallyInv
<1>5. /\ Len(log') = Len(log) + 1 /\ BeginsAt(log', i)
      /\ Cardinality(FailuresIn(log')) = Cardinality(FailuresIn(log)) + 1
      /\ \A j \in 1..Len(log) : log'[j] = log[j]
      /\ log'[Len(log) + 1] = e
  BY <1>1, <1>4, RunOfLog, FailuresCounted
<1>6. /\ logFailures'.consecutive = Len(log') + 1 - i
      /\ logFailures'.since = log'[i].at
      /\ logFailures'.total = Cardinality(FailuresIn(log'))
      /\ i \in 1..Len(log') /\ i \in 1..Len(log') + 1
  <2>0. i \in Nat /\ 1 <= i /\ i <= Len(log) + 1 /\ logFailures.consecutive \in Nat
    BY <1>1
  <2>1. logFailures'.consecutive = Len(log') + 1 - i /\ i \in 1..Len(log') /\ i \in 1..Len(log') + 1
    BY <1>1, <1>2, <1>4, <1>5, <2>0
  <2>2. logFailures'.total = Cardinality(FailuresIn(log'))
    BY <1>2, <1>5 DEF LogInv, TallyInv
  <2>3. CASE i = Len(log) + 1
    <3>1. logFailures.consecutive = 0 /\ log'[i].at = logNow
      BY <1>1, <1>4, <1>5, <2>3
    <3> QED BY <1>2, <2>1, <2>2, <3>1
  <2>4. CASE i \in 1..Len(log)
    <3>1. logFailures.consecutive # 0 /\ i <= Len(log)
      BY <1>1, <1>4, <2>4
    <3> QED BY <1>2, <1>4, <1>5, <2>1, <2>2, <2>4, <3>1
  <2> QED BY <1>1, <2>1, <2>2, <2>3, <2>4
<1>7. TallyInv'
  BY <1>5, <1>6 DEF TallyInv
<1>8. verdict' = "exhausted" <=> TooMany(log')
  <2>1. log' \in Seq(Evaluations) /\ log' # <<>> /\ Last(log') = e
    BY <1>1, <1>5 DEF Last
  <2>2. StreakStart(log') = i
    BY <1>5, <1>6, <2>1, OneBeginning
  <2>3. TooMany(log') <=> Exhausted(logFailures', logNow)
    BY <1>6, <2>1, <2>2 DEF TooMany, Exhausted
  <2> QED BY <1>2, <2>3
<1> QED BY <1>1, <1>3, <1>7, <1>8, EarlierLogs DEF LogInv, GivesUpExactly

\* A session wait gives up after an evaluation if and only if the evaluations so
\* far exceed a limit (waitEvaluateFailures.record, reset), for any limits and
\* any history.
THEOREM GivesUp == LogSpec => []GivesUpExactly
<1>1. LogInit => LogInv
  <2> SUFFICES ASSUME LogInit PROVE LogInv
    OBVIOUS
  <2>1. log = <<>> /\ verdict = "waiting" /\ logNow = 0 /\ Len(log) = 0
    BY DEF LogInit
  <2>2. LogTypes
    BY <2>1 DEF LogInit, LogTypes, NoFailures
  <2>3. FailuresIn(log) = {} /\ Cardinality({}) = 0
    BY <2>1, FS_EmptySet DEF FailuresIn
  <2>4. BeginsAt(log, 1) /\ logFailures.consecutive = 0 /\ logFailures.total = 0
    BY <2>1 DEF LogInit, BeginsAt, NoFailures
  <2>5. TallyInv
    <3>1. 1 \in 1..Len(log) + 1 /\ Len(log) + 1 - 1 = 0 /\ ~(1 <= Len(log))
      BY <2>1
    <3> QED BY <2>3, <2>4, <3>1 DEF TallyInv
  <2>6. ~TooMany(log)
    BY <2>1 DEF TooMany
  <2> QED BY <2>1, <2>2, <2>5, <2>6 DEF LogInv, GivesUpExactly
<1>2. LogInv /\ [LogNext]_logVars => LogInv'
  <2> SUFFICES ASSUME LogInv, [LogNext]_logVars PROVE LogInv'
    OBVIOUS
  <2>1. CASE LogTimePasses
    BY <2>1 DEF LogTimePasses, LogInv, LogTypes, TallyInv, GivesUpExactly
  <2>2. CASE UNCHANGED logVars
    BY <2>2 DEF logVars, LogInv, LogTypes, TallyInv, GivesUpExactly
  <2> QED BY <2>1, <2>2, SuccessKept, FailureKept DEF LogNext
<1>3. LogInv => GivesUpExactly
  BY DEF LogInv
<1> QED BY <1>1, <1>2, <1>3, PTL DEF LogSpec
=============================================================================
