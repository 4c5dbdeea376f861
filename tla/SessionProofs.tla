--------------------------- MODULE SessionProofs ----------------------------
(***************************************************************************)
(* Proofs about a session and about what other sessions leave behind, for  *)
(* any applications, helpers, calls and directories.                       *)
(*                                                                         *)
(* SessionLifecycle: close() passes every application on its way to the    *)
(* backends.  The invariant ties each application that may have a process  *)
(* to s.apps, to what close() has still to do, or to its error; it holds   *)
(* because Launch starts applications under the lock that guards s.closed. *)
(*                                                                         *)
(* SessionInfra: startup, the signal handler and stop share the helpers    *)
(* without a lock.  The invariant says what stop can rely on as long as no *)
(* signal arrives during startup: that nothing starts any more, and that   *)
(* each helper is still to be stopped, has ended or was killed.            *)
(*                                                                         *)
(* SessionCleanup: what a scan does to a directory is decided several      *)
(* steps after it looked.  The invariant says of each step of a scan what  *)
(* of the earlier look is still true.  It holds because the decisive facts *)
(* are stable: an owner that has died stays dead, and then nobody starts   *)
(* or records a helper that could mount anything.                          *)
(***************************************************************************)
EXTENDS SessionLifecycle, SessionInfra, SessionCleanup, TLAPS

-----------------------------------------------------------------------------
(* Process groups.                                                         *)

Groups == [leader : {"none", "running", "zombie", "reaped"}, kids : BOOLEAN, stranger : BOOLEAN,
           gone : BOOLEAN, term : BOOLEAN, killed : BOOLEAN]

Untouched(g) == g.leader = "none" /\ ~g.kids

\* What a step may make of a group: no process of ours comes back, what was
\* seen gone stays so, and only a group without a process of ours is.
Ages(g, h) ==
    /\ h \in Groups
    /\ Ours(h) => Ours(g)
    /\ g.gone => h.gone
    /\ h.gone => g.gone \/ ~Ours(g)
    /\ Untouched(g) => Untouched(h)
    /\ g.killed => h.killed

\* Signalling and looking age a group (managedProc).
LEMMA SignalsAge ==
    ASSUME NEW g \in Groups
    PROVE  Ages(g, g) /\ Ages(g, Terminated(g)) /\ Ages(g, Killed(g)) /\ Ages(g, Observed(g))
BY DEF Groups, Ages, Terminated, Killed, Observed, Reaches, GroupAlive, KernelSees, Ours, Untouched

\* So do the processes themselves, and the reaper.
LEMMA SuccessorsAge ==
    ASSUME NEW g \in Groups, NEW h \in Successors(g)
    PROVE  Ages(g, h)
<1>1. \/ g.leader = "running" /\ h = [g EXCEPT !.kids = TRUE]
      \/ g.leader = "running" /\ h = [g EXCEPT !.leader = "zombie"]
      \/ g.kids /\ h = [g EXCEPT !.kids = FALSE]
      \/ g.leader = "reaped" /\ ~g.kids /\ h = [g EXCEPT !.stranger = TRUE]
  BY DEF Successors, Forked, LeaderExited, KidsExited, PidReused
<1> QED
  BY <1>1 DEF Groups, Ages, Ours, Untouched

LEMMA ReapingAges ==
    ASSUME NEW g \in Groups, g.leader = "zombie"
    PROVE  Ages(g, [g EXCEPT !.leader = "reaped"])
BY DEF Groups, Ages, Ours, Untouched

LEMMA ExitAges ==
    ASSUME NEW g \in Groups, g.leader = "running"
    PROVE  Ages(g, [g EXCEPT !.leader = "zombie"])
BY DEF Groups, Ages, Ours, Untouched

\* A group that is seen gone is gone and no process of ours is left in it.
LEMMA SeenGone ==
    ASSUME NEW g \in Groups, ~GroupAlive(g), g.gone => ~Ours(g)
    PROVE  Observed(g).gone /\ ~Ours(Observed(g))
BY DEF Groups, Observed, GroupAlive, KernelSees, Ours

\* No signal reaches a group that was seen gone (managedProc.signal).
LEMMA GoneIsNotReached ==
    ASSUME NEW g \in Groups, g.gone
    PROVE  ~Reaches(g)
BY DEF Groups, Reaches, GroupAlive

-----------------------------------------------------------------------------
(* Sequences of applications.                                              *)

\* What Append adds and Front takes away (s.apps, the loop of close).
LEMMA ElementsOfAppend ==
    ASSUME NEW S, NEW s \in Seq(S), NEW m \in S
    PROVE  Append(s, m) \in Seq(S) /\ ToSet(Append(s, m)) = ToSet(s) \cup {m}
<1> DEFINE t == Append(s, m)
<1>1. t \in Seq(S) /\ Len(t) = Len(s) + 1 /\ t[Len(s) + 1] = m /\ Len(s) \in Nat
  OBVIOUS
<1>2. \A i \in 1..Len(s) : t[i] = s[i]
  OBVIOUS
<1>3. DOMAIN t = 1..(Len(s) + 1) /\ DOMAIN s = 1..Len(s)
  BY <1>1
<1> HIDE DEF t
<1>4. ASSUME NEW i \in DOMAIN t PROVE t[i] \in ToSet(s) \cup {m}
  <2>1. CASE i = Len(s) + 1
    BY <1>1, <2>1
  <2>2. CASE i # Len(s) + 1
    <3>1. i \in 1..Len(s)
      BY <1>1, <1>3, <2>2
    <3> QED
      BY <1>2, <1>3, <3>1 DEF ToSet
  <2> QED
    BY <2>1, <2>2
<1>5. ASSUME NEW i \in DOMAIN s PROVE s[i] \in ToSet(t)
  <2>1. i \in DOMAIN t /\ t[i] = s[i]
    BY <1>1, <1>2, <1>3
  <2> QED
    BY <2>1 DEF ToSet
<1>6. m \in ToSet(t)
  BY <1>1, <1>3 DEF ToSet
<1>7. ToSet(t) = ToSet(s) \cup {m}
  BY <1>4, <1>5, <1>6 DEF ToSet
<1> QED
  BY <1>1, <1>7 DEF t

LEMMA ElementsOfFront ==
    ASSUME NEW S, NEW s \in Seq(S), s # <<>>
    PROVE  /\ Last(s) \in S /\ Last(s) \in ToSet(s)
           /\ Front(s) \in Seq(S) /\ ToSet(Front(s)) \cup {Last(s)} = ToSet(s)
<1>1. /\ Len(s) \in Nat /\ Len(s) >= 1 /\ DOMAIN s = 1..Len(s) /\ Last(s) = s[Len(s)]
      /\ \A i \in 1..Len(s) : s[i] \in S
  BY DEF Last
<1>2. Front(s) = SubSeq(s, 1, Len(s) - 1)
  BY DEF Front
<1>3. Front(s) \in Seq(S) /\ DOMAIN Front(s) = 1..(Len(s) - 1)
  BY <1>1, <1>2
<1>4. \A i \in 1..(Len(s) - 1) : Front(s)[i] = s[i]
  BY <1>1, <1>2
<1> DEFINE f == Front(s)
<1> HIDE DEF f
<1>5. ASSUME NEW i \in DOMAIN s PROVE s[i] \in ToSet(f) \cup {Last(s)}
  <2>1. CASE i = Len(s)
    BY <1>1, <2>1
  <2>2. CASE i # Len(s)
    <3>1. i \in DOMAIN f /\ f[i] = s[i]
      BY <1>1, <1>3, <1>4, <2>2 DEF f
    <3> QED
      BY <3>1 DEF ToSet
  <2> QED
    BY <2>1, <2>2
<1>6. ASSUME NEW i \in DOMAIN f PROVE f[i] \in ToSet(s)
  <2>1. i \in DOMAIN s /\ f[i] = s[i]
    BY <1>1, <1>3, <1>4 DEF f
  <2> QED
    BY <2>1 DEF ToSet
<1>7. Last(s) \in ToSet(s)
  BY <1>1 DEF ToSet
<1>8. ToSet(f) \cup {Last(s)} = ToSet(s)
  BY <1>5, <1>6, <1>7 DEF ToSet
<1> QED
  BY <1>1, <1>3, <1>7, <1>8 DEF f

-----------------------------------------------------------------------------
(* The life of a session.                                                  *)

LifeTypes ==
    /\ openPc \in {"runtime", "check", "open", "recheck", "opened", "closing", "failed"}
    /\ infra \in {"none", "running", "stopped"}
    /\ launchPc \in [Apps -> {"idle", "lock", "check", "start", "launched", "refused"}]
    /\ stopPc \in [Apps -> {"idle", "wait", "stopped", "gaveUp"}]
    /\ appGroup \in [Apps -> Groups]
    /\ apps \in Seq(Apps)
    /\ todo \in Seq(Apps)
    /\ closeOnce \in {"no", "running", "done"}
    /\ closerPc \in [CloseCalls -> {"idle", "body", "join", "returned"}]

\* Who is past the check of s.closed has lifecycleMu, so that Close finds the
\* application in s.apps or the launch finds s.closed.
LaunchInv ==
    /\ \A a \in Apps : launchPc[a] \in {"check", "start"} => mu = a
    /\ sClosed => \A a \in Apps : launchPc[a] # "start"
    /\ \A a \in Apps : launchPc[a] = "launched" <=> a \in ToSet(apps)
    /\ \A a \in Apps : launchPc[a] # "launched" => Untouched(appGroup[a])
    /\ \A a \in Apps : stopPc[a] = "wait" => launchPc[a] = "launched"

\* A group that was seen gone has no process of ours, and one that a stop has
\* settled was seen gone.
GoneInv ==
    /\ \A a \in Apps : appGroup[a].gone => ~Ours(appGroup[a])
    /\ \A a \in Apps : a \in settled => appGroup[a].gone /\ launchPc[a] = "launched"
    /\ appStruck = {}

OfAnApp == {"term", "waitTerm", "kill", "waitKill", "waitExit"}

\* How far close() is: an application that has a process is still to be stopped
\* or has its error.
CloseInv ==
    /\ closeAt \in {"mark", "cancel", "apps", "backends", "publish"} \cup OfAnApp
    /\ sClosed <=> closeAt # "mark"
    /\ closeOnce = "no" => closeAt = "mark"
    /\ closeOnce = "done" => closeAt = "publish"
    /\ \A c \in CloseCalls : closerPc[c] = "returned" => closeOnce = "done"
    /\ closeAt \notin {"mark", "cancel"} => sCancelled
    /\ ToSet(todo) \subseteq ToSet(apps)
    /\ closeAt \in OfAnApp => todo # <<>>
    /\ closeAt \in {"backends", "publish"} => todo = <<>>
    /\ closeAt = "waitExit" => appGroup[Last(todo)].gone
    /\ sClosed => \A a \in Apps : Ours(appGroup[a]) => a \in ToSet(todo) \cup errs

\* Close runs only on a session that Open does not work on any more.
OpenInv ==
    /\ closeOnce # "no" => openPc \in {"opened", "closing", "failed"}
    /\ closeAt = "publish" => backends = {} /\ infra # "running"
    /\ infra = "stopped" => closeAt = "publish"
    /\ openPc = "runtime" => backends = {} /\ infra = "none"
    /\ openPc = "failed" => backends = {} /\ infra # "running" /\ sCancelled

LifeInv == LifeTypes /\ LaunchInv /\ GoneInv /\ CloseInv /\ OpenInv

-----------------------------------------------------------------------------

LEMMA LifeInitially == LifecycleInit => LifeInv
<1> SUFFICES ASSUME LifecycleInit PROVE LifeInv
  OBVIOUS
<1>1. NotStarted \in Groups /\ Untouched(NotStarted) /\ ~Ours(NotStarted) /\ ~NotStarted.gone
  BY DEF NotStarted, Groups, Untouched, Ours
<1>2. ToSet(apps) = {} /\ ToSet(todo) = {}
  BY DEF LifecycleInit, ToSet
<1>3. LifeTypes
  BY <1>1 DEF LifecycleInit, LifeTypes
<1>4. LaunchInv
  BY <1>1, <1>2 DEF LifecycleInit, LaunchInv
<1>5. GoneInv
  BY <1>1 DEF LifecycleInit, GoneInv
<1>6. CloseInv
  BY <1>1, <1>2 DEF LifecycleInit, CloseInv, OfAnApp
<1>7. OpenInv
  BY DEF LifecycleInit, OpenInv
<1> QED
  BY <1>3, <1>4, <1>5, <1>6, <1>7 DEF LifeInv

\* What a step makes of the groups when it starts none.
GroupsAge ==
    /\ appGroup' \in [Apps -> Groups]
    /\ \A a \in Apps :
          /\ Ours(appGroup'[a]) => Ours(appGroup[a])
          /\ appGroup[a].gone => appGroup'[a].gone
          /\ appGroup'[a].gone => ~Ours(appGroup'[a])
          /\ Untouched(appGroup[a]) => Untouched(appGroup'[a])

LEMMA SameGroups ==
    ASSUME LifeInv, appGroup' = appGroup
    PROVE  GroupsAge
BY DEF LifeInv, LifeTypes, GoneInv, GroupsAge

LEMMA OneGroupAges ==
    ASSUME LifeInv, NEW a \in Apps, NEW h, Ages(appGroup[a], h),
           appGroup' = [appGroup EXCEPT ![a] = h]
    PROVE  GroupsAge
<1>1. appGroup \in [Apps -> Groups] /\ \A x \in Apps : appGroup[x].gone => ~Ours(appGroup[x])
  BY DEF LifeInv, LifeTypes, GoneInv
<1>2. appGroup' \in [Apps -> Groups]
  BY <1>1 DEF Ages
<1>3. \A x \in Apps : appGroup'[x] = IF x = a THEN h ELSE appGroup[x]
  BY <1>1
<1> QED
  BY <1>1, <1>2, <1>3 DEF GroupsAge, Ages

\* The steps of Launch and of the groups leave close() and Open where they are.
LEMMA LaunchFrame ==
    ASSUME LifeInv, GroupsAge, UNCHANGED <<mu, sClosed, apps, launchPc>>,
           \A a \in Apps : stopPc'[a] = "wait" => launchPc[a] = "launched"
    PROVE  LaunchInv'
BY DEF LifeInv, LaunchInv, GroupsAge

LEMMA CloseFrame ==
    ASSUME LifeInv, GroupsAge,
           UNCHANGED <<sClosed, sCancelled, apps, closeOnce, closerPc, closeAt, todo, errs>>
    PROVE  CloseInv'
<1>1. CloseInv
  BY DEF LifeInv
<1>2. closeAt = "waitExit" => Last(todo) \in Apps
  <2>1. todo \in Seq(Apps)
    BY DEF LifeInv, LifeTypes
  <2> QED
    BY <1>1, <2>1, ElementsOfFront DEF CloseInv, OfAnApp
<1>3. closeAt' = "waitExit" => (appGroup[Last(todo)].gone)'
  BY <1>1, <1>2 DEF CloseInv, GroupsAge
<1>4. sClosed' => \A a \in Apps : Ours(appGroup'[a]) => a \in (ToSet(todo) \cup errs)'
  BY <1>1 DEF CloseInv, GroupsAge
<1> QED
  BY <1>1, <1>3, <1>4 DEF CloseInv

LEMMA OpenFrame ==
    ASSUME LifeInv, UNCHANGED <<openPc, backends, infra, sCancelled, closeOnce, closeAt>>
    PROVE  OpenInv'
BY DEF LifeInv, OpenInv

-----------------------------------------------------------------------------
(* Open.                                                                   *)

OpenWorks == OpenCancelled \/ ResolveRuntime \/ RuntimeFails \/ CheckOpenContext
             \/ OpenCapability \/ CapabilityFails \/ RecheckOpenContext \/ OpenFails

LEMMA OpenKeeps ==
    ASSUME LifeInv, OpenWorks
    PROVE  LifeInv'
<1> USE DEF LifeInv
<1>1. UNCHANGED <<mu, sClosed, apps, launchPc, stopPc, appGroup, settled, appStruck,
                  closeOnce, closerPc, closeAt, todo, errs>>
  BY DEF OpenWorks, OpenCancelled, ResolveRuntime, RuntimeFails, CheckOpenContext, OpenCapability,
     CapabilityFails, RecheckOpenContext, OpenFails, lifecycle, appCalls, processes, closeVars
<1>2. LifeTypes'
  <2>1. openPc' \in {"runtime", "check", "open", "recheck", "opened", "closing", "failed"}
    BY DEF LifeTypes, OpenWorks, OpenCancelled, ResolveRuntime, RuntimeFails, CheckOpenContext,
       OpenCapability, CapabilityFails, RecheckOpenContext, OpenFails, AfterFailure
  <2>2. infra' \in {"none", "running", "stopped"}
    BY DEF LifeTypes, OpenWorks, OpenCancelled, ResolveRuntime, RuntimeFails, CheckOpenContext,
       OpenCapability, CapabilityFails, RecheckOpenContext, OpenFails, resources
  <2> QED
    BY <1>1, <2>1, <2>2 DEF LifeTypes
<1>3. GroupsAge
  BY <1>1, SameGroups
<1>4. LaunchInv'
  BY <1>1 DEF LaunchInv
<1>5. GoneInv'
  BY <1>1 DEF GoneInv
<1>6. sCancelled' = sCancelled \/ sCancelled' = TRUE
  BY DEF OpenWorks, OpenCancelled, ResolveRuntime, RuntimeFails, CheckOpenContext, OpenCapability,
     CapabilityFails, RecheckOpenContext, OpenFails, lifecycle
<1>7. CloseInv'
  BY <1>1, <1>6 DEF CloseInv
<1>8. OpenInv'
  <2>1. CASE OpenCancelled
    BY <1>1, <2>1, OpenFrame DEF OpenCancelled, resources, lifecycle
  <2>2. CASE ResolveRuntime
    <3>1. closeOnce = "no" /\ closeAt = "mark"
      BY <2>2 DEF OpenInv, CloseInv, LifeTypes, ResolveRuntime
    <3> QED
      BY <1>1, <2>2, <3>1 DEF OpenInv, ResolveRuntime, lifecycle
  <2>3. CASE RuntimeFails
    <3>1. closeOnce = "no" /\ closeAt = "mark"
      BY <2>3 DEF OpenInv, CloseInv, LifeTypes, RuntimeFails
    <3> QED
      BY <1>1, <2>3, <3>1 DEF OpenInv, RuntimeFails, resources
  <2>4. CASE CheckOpenContext \/ OpenCapability \/ CapabilityFails \/ RecheckOpenContext
    <3>1. openPc \in {"check", "open", "recheck"} /\ closeOnce = "no" /\ closeAt = "mark"
      BY <2>4 DEF OpenInv, CloseInv, LifeTypes, CheckOpenContext, OpenCapability, CapabilityFails,
         RecheckOpenContext
    <3>2. openPc' \in {"check", "open", "recheck", "opened", "closing"} /\ infra' = infra
      BY <2>4, <3>1 DEF CheckOpenContext, OpenCapability, CapabilityFails, RecheckOpenContext,
         resources, AfterFailure
    <3> QED
      BY <1>1, <3>1, <3>2 DEF OpenInv
  <2>5. CASE OpenFails
    <3>1. closeOnce = "done" /\ closeAt = "publish" /\ sCancelled
      BY <2>5 DEF OpenFails, CloseInv, CloseCalls
    <3> QED
      BY <1>1, <2>5, <3>1 DEF OpenInv, OpenFails, resources, lifecycle
  <2> QED
    BY <2>1, <2>2, <2>3, <2>4, <2>5 DEF OpenWorks
<1> QED
  BY <1>2, <1>4, <1>5, <1>7, <1>8

-----------------------------------------------------------------------------
(* Launch.                                                                 *)

LEMMA LaunchCancelledKeeps ==
    ASSUME LifeInv, NEW a \in Apps, LaunchCancelled(a)
    PROVE  LifeInv'
<1>1. UNCHANGED <<openPc, backends, infra, mu, sClosed, sCancelled, apps, launchPc, stopPc,
                  appGroup, settled, appStruck, closeOnce, closerPc, closeAt, todo, errs>>
  BY DEF LaunchCancelled, openVars, resources, lifecycle, processes, closeVars
<1> QED
  BY <1>1 DEF LifeInv, LifeTypes, LaunchInv, GoneInv, CloseInv, OpenInv

\* A step of a launch that starts nothing.
LEMMA LaunchMovesKeeps ==
    ASSUME LifeInv, NEW a \in Apps, NEW to \in {"lock", "check", "start", "refused"},
           launchPc[a] # "launched", launchPc' = [launchPc EXCEPT ![a] = to],
           to \in {"check", "start"} => mu' = a,
           to = "start" => ~sClosed,
           \A x \in Apps \ {a} : mu = x => mu' = x,
           UNCHANGED <<openPc, backends, infra, sClosed, sCancelled, apps, stopPc,
                  appGroup, settled, appStruck, closeOnce, closerPc, closeAt, todo, errs>>
    PROVE  LifeInv'
<1> USE DEF LifeInv
<1>1. LifeTypes'
  BY DEF LifeTypes
<1>2. \A x \in Apps : launchPc'[x] = IF x = a THEN to ELSE launchPc[x]
  BY DEF LifeTypes
<1>3. LaunchInv'
  BY <1>2 DEF LaunchInv
<1>4. GoneInv'
  BY <1>2 DEF GoneInv
<1>5. CloseInv'
  BY DEF CloseInv
<1>6. OpenInv'
  BY DEF OpenInv
<1> QED
  BY <1>1, <1>3, <1>4, <1>5, <1>6

LEMMA LaunchStepsKeep ==
    ASSUME LifeInv, NEW a \in Apps,
           LaunchCalled(a) \/ LaunchLocks(a) \/ LaunchChecks(a) \/ LaunchFails(a)
    PROVE  LifeInv'
<1>1. CASE LaunchCalled(a)
  BY <1>1, LaunchMovesKeeps DEF LaunchCalled, openVars, resources, lifecycle, processes, closeVars
<1>2. CASE LaunchLocks(a)
  <2>1. \A x \in Apps : mu # x
    BY <1>2, FreeIsNoApp DEF LaunchLocks, MuFree
  <2> QED
    BY <1>2, <2>1, LaunchMovesKeeps DEF LaunchLocks, openVars, resources, processes, closeVars
<1>3. CASE LaunchChecks(a)
  <2>1. mu = a
    BY <1>3 DEF LaunchChecks, LifeInv, LaunchInv
  <2> QED
    BY <1>3, <2>1, LaunchMovesKeeps DEF LaunchChecks, openVars, resources, processes, closeVars
<1>4. CASE LaunchFails(a)
  <2>1. mu = a
    BY <1>4 DEF LaunchFails, LifeInv, LaunchInv
  <2> QED
    BY <1>4, <2>1, LaunchMovesKeeps DEF LaunchFails, openVars, resources, processes, closeVars
<1> QED
  BY <1>1, <1>2, <1>3, <1>4

\* The application joins s.apps before Close has copied it.
LEMMA LaunchStartsKeeps ==
    ASSUME LifeInv, NEW a \in Apps, LaunchStarts(a)
    PROVE  LifeInv'
<1> USE DEF LifeInv
<1>1. /\ launchPc[a] = "start" /\ mu = a /\ mu' = "free" /\ ~sClosed
      /\ appGroup' = [appGroup EXCEPT ![a] = Started] /\ apps' = Append(apps, a)
      /\ launchPc' = [launchPc EXCEPT ![a] = "launched"]
      /\ UNCHANGED <<openPc, backends, infra, sClosed, sCancelled, stopPc, settled, appStruck,
                     closeOnce, closerPc, closeAt, todo, errs>>
  BY DEF LaunchStarts, LaunchInv, openVars, resources, processes, closeVars
<1>2. Started \in Groups /\ ~Started.gone
  BY DEF Started, NotStarted, Groups
<1>3. apps' \in Seq(Apps) /\ ToSet(apps)' = ToSet(apps) \cup {a}
  <2>1. apps \in Seq(Apps)
    BY DEF LifeTypes
  <2> QED
    BY <1>1, <2>1, ElementsOfAppend
<1>4. \A x \in Apps : /\ launchPc'[x] = IF x = a THEN "launched" ELSE launchPc[x]
                      /\ appGroup'[x] = IF x = a THEN Started ELSE appGroup[x]
  BY <1>1 DEF LifeTypes
<1>5. LifeTypes'
  BY <1>1, <1>2, <1>3 DEF LifeTypes
<1>6. LaunchInv'
  BY <1>1, <1>3, <1>4, FreeIsNoApp DEF LaunchInv
<1>7. GoneInv'
  BY <1>1, <1>2, <1>4 DEF GoneInv
<1>8. CloseInv'
  BY <1>1, <1>3 DEF CloseInv, OfAnApp
<1>9. OpenInv'
  BY <1>1, OpenFrame
<1> QED
  BY <1>5, <1>6, <1>7, <1>8, <1>9

-----------------------------------------------------------------------------
(* Processes and Stop.                                                     *)

\* A step that changes groups only by ageing them.
LEMMA AgeingKeeps ==
    ASSUME LifeInv, GroupsAge,
           UNCHANGED <<openVars, resources, lifecycle, appCalls, settled, appStruck, closeVars>>
    PROVE  LifeInv'
<1> USE DEF openVars, resources, lifecycle, appCalls, closeVars
<1>1. LifeTypes'
  BY DEF LifeInv, LifeTypes, GroupsAge
<1>2. LaunchInv'
  <2>1. \A a \in Apps : stopPc'[a] = "wait" => launchPc[a] = "launched"
    BY DEF LifeInv, LaunchInv
  <2> QED
    BY <2>1, LaunchFrame
<1>3. GoneInv'
  BY DEF LifeInv, GoneInv, GroupsAge
<1>4. CloseInv'
  BY CloseFrame
<1>5. OpenInv'
  BY OpenFrame
<1> QED
  BY <1>1, <1>2, <1>3, <1>4, <1>5 DEF LifeInv

LEMMA ProcessesKeep ==
    ASSUME LifeInv, NEW a \in Apps, AppMoves(a) \/ ReapApp(a) \/ PublishExit(a)
    PROVE  LifeInv'
<1>1. appGroup \in [Apps -> Groups] /\ appGroup[a] \in Groups
  BY DEF LifeInv, LifeTypes
<1>2. GroupsAge
  <2>1. CASE AppMoves(a)
    <3>1. PICK g \in Successors(appGroup[a]) : appGroup' = [appGroup EXCEPT ![a] = g]
      BY <2>1 DEF AppMoves
    <3>2. Ages(appGroup[a], g)
      BY <1>1, SuccessorsAge
    <3> QED
      BY <3>1, <3>2, OneGroupAges
  <2>2. CASE ReapApp(a)
    <3> DEFINE g == [appGroup[a] EXCEPT !.leader = "reaped"]
    <3>1. Ages(appGroup[a], g)
      BY <1>1, <2>2, ReapingAges DEF ReapApp
    <3>2. appGroup' = [appGroup EXCEPT ![a] = g]
      BY <1>1, <2>2 DEF ReapApp
    <3> HIDE DEF g
    <3> QED
      BY <3>1, <3>2, OneGroupAges
  <2>3. CASE PublishExit(a)
    BY <2>3, SameGroups DEF PublishExit
  <2> QED
    BY <2>1, <2>2, <2>3
<1>3. UNCHANGED <<openVars, resources, lifecycle, appCalls, settled, appStruck, closeVars>>
  BY DEF AppMoves, ReapApp, PublishExit
<1> QED
  BY <1>2, <1>3, AgeingKeeps

\* No signal strikes a stranger: what is settled is gone.
LEMMA NoStrike ==
    ASSUME LifeInv, NEW a \in Apps
    PROVE  Strikes(a) = {}
BY GoneIsNotReached DEF Strikes, LifeInv, LifeTypes, GoneInv

\* A step of Stop, which changes one group and may settle it.
LEMMA StopMovesKeep ==
    ASSUME LifeInv, GroupsAge, NEW a \in Apps, launchPc[a] = "launched",
           NEW to \in {"wait", "stopped", "gaveUp"}, stopPc' = [stopPc EXCEPT ![a] = to],
           settled' \subseteq settled \cup {a}, settled' # settled => appGroup'[a].gone,
           settled \subseteq settled', appStruck' = {},
           UNCHANGED <<openVars, resources, lifecycle, launchPc, closeVars>>
    PROVE  LifeInv'
<1> USE DEF openVars, resources, lifecycle, closeVars
<1>1. LifeTypes'
  BY DEF LifeInv, LifeTypes, GroupsAge
<1>2. LaunchInv'
  <2>1. \A x \in Apps : stopPc'[x] = "wait" => launchPc[x] = "launched"
    BY DEF LifeInv, LaunchInv, LifeTypes
  <2> QED
    BY <2>1, LaunchFrame
<1>3. GoneInv'
  BY DEF LifeInv, GoneInv, GroupsAge
<1>4. CloseInv'
  BY CloseFrame
<1>5. OpenInv'
  BY OpenFrame
<1> QED
  BY <1>1, <1>2, <1>3, <1>4, <1>5 DEF LifeInv

LEMMA StopsKeep ==
    ASSUME LifeInv, NEW a \in Apps, StopSignals(a) \/ StopLooks(a) \/ StopGivesUp(a)
    PROVE  LifeInv'
<1>1. /\ appGroup \in [Apps -> Groups] /\ appGroup[a] \in Groups
      /\ appGroup[a].gone => ~Ours(appGroup[a])
      /\ appStruck = {} /\ Strikes(a) = {}
      /\ stopPc[a] = "wait" => launchPc[a] = "launched"
  BY NoStrike DEF LifeInv, LifeTypes, GoneInv, LaunchInv
<1>2. CASE StopSignals(a)
  <2>1. appGroup' = [appGroup EXCEPT ![a] = Terminated(appGroup[a])]
    BY <1>2 DEF StopSignals
  <2>2. GroupsAge
    BY <1>1, <2>1, SignalsAge, OneGroupAges
  <2> QED
    BY <1>1, <1>2, <2>2, StopMovesKeep DEF StopSignals
<1>3. CASE StopLooks(a)
  <2>1. appGroup' = [appGroup EXCEPT ![a] = Observed(appGroup[a])]
    BY <1>3 DEF StopLooks
  <2>2. GroupsAge
    BY <1>1, <2>1, SignalsAge, OneGroupAges
  <2>3. CASE GroupAlive(appGroup[a])
    <3>1. UNCHANGED <<openVars, resources, lifecycle, appCalls, settled, appStruck, closeVars>>
      BY <1>3, <2>3 DEF StopLooks, appCalls
    <3> QED
      BY <2>2, <3>1, AgeingKeeps
  <2>4. CASE ~GroupAlive(appGroup[a])
    <3>1. appGroup'[a].gone
      BY <1>1, <2>1, <2>4, SeenGone
    <3> QED
      BY <1>1, <1>3, <2>2, <2>4, <3>1, StopMovesKeep DEF StopLooks
  <2> QED
    BY <2>3, <2>4
<1>4. CASE StopGivesUp(a)
  <2>1. GroupsAge
    BY <1>4, SameGroups DEF StopGivesUp, processes
  <2> QED
    BY <1>1, <1>4, <2>1, StopMovesKeep DEF StopGivesUp, processes
<1> QED
  BY <1>2, <1>3, <1>4

-----------------------------------------------------------------------------
(* Close.                                                                  *)

LEMMA CloseCallsKeep ==
    ASSUME LifeInv, NEW c \in CloseCalls, CloseCalled(c) \/ CloseReturns(c)
    PROVE  LifeInv'
<1> USE DEF LifeInv
<1>1. UNCHANGED <<openPc, backends, infra, mu, sClosed, sCancelled, apps, launchPc, stopPc,
                  appGroup, settled, appStruck, closeAt, todo, errs>>
  BY DEF CloseCalled, CloseReturns, openVars, resources, lifecycle, appCalls, processes
<1>2. PICK to \in {"body", "join", "returned"} :
          /\ closerPc' = [closerPc EXCEPT ![c] = to]
          /\ to = "returned" => closeOnce = "done" /\ closeOnce' = "done"
          /\ closeOnce' # closeOnce => closeOnce = "no" /\ closeOnce' = "running"
                                       /\ openPc \in {"closing", "opened"}
  BY DEF CloseCalled, CloseReturns, Joinable
<1>3. LifeTypes'
  BY <1>1, <1>2 DEF LifeTypes
<1>4. LaunchInv'
  BY <1>1 DEF LaunchInv
<1>5. GoneInv'
  BY <1>1 DEF GoneInv
<1>6. CloseInv'
  <2>1. \A x \in CloseCalls : closerPc'[x] = "returned" => closeOnce' = "done"
    BY <1>2 DEF CloseInv, LifeTypes
  <2> QED
    BY <1>1, <1>2, <2>1 DEF CloseInv
<1>7. OpenInv'
  BY <1>1, <1>2 DEF OpenInv
<1> QED
  BY <1>3, <1>4, <1>5, <1>6, <1>7

\* Close copies s.apps when no launch is between its check and its start.
LEMMA MarkClosedKeeps ==
    ASSUME LifeInv, MarkClosed
    PROVE  LifeInv'
<1> USE DEF LifeInv
<1>1. /\ closeOnce = "running" /\ closeAt = "mark" /\ mu = "free" /\ sClosed' = TRUE
      /\ todo' = apps /\ closeAt' = "cancel"
      /\ UNCHANGED <<openPc, backends, infra, mu, sCancelled, apps, launchPc, stopPc,
                     appGroup, settled, appStruck, closeOnce, closerPc, errs>>
  BY DEF MarkClosed, InClose, MuFree, openVars, resources, appCalls, processes
<1>2. LifeTypes'
  BY <1>1 DEF LifeTypes
<1>3. LaunchInv'
  BY <1>1, FreeIsNoApp DEF LaunchInv
<1>4. GoneInv'
  BY <1>1 DEF GoneInv
<1>5. CloseInv'
  <2>1. \A a \in Apps : Ours(appGroup[a]) => a \in ToSet(apps)
    BY DEF LaunchInv, LifeTypes, Ours, Untouched, Groups
  <2> QED
    BY <1>1, <2>1 DEF CloseInv, OfAnApp
<1>6. OpenInv'
  BY <1>1 DEF OpenInv
<1> QED
  BY <1>2, <1>3, <1>4, <1>5, <1>6

LEMMA CloseMovesKeep ==
    ASSUME LifeInv, CancelSession \/ NextApp \/ GraceEnds
    PROVE  LifeInv'
<1> USE DEF LifeInv
<1>1. /\ closeOnce = "running"
      /\ closeAt \in {"cancel", "apps", "waitTerm"} 
      /\ closeAt' \in {"apps", "backends", "term", "kill"}
      /\ closeAt = "cancel" => closeAt' = "apps" /\ sCancelled' = TRUE
      /\ closeAt # "cancel" => sCancelled' = sCancelled
      /\ closeAt' = "backends" => todo = <<>>
      /\ closeAt' \in OfAnApp => todo # <<>>
      /\ UNCHANGED <<openPc, backends, infra, mu, sClosed, apps, launchPc, stopPc,
                     appGroup, settled, appStruck, closeOnce, closerPc, todo, errs>>
  BY DEF CancelSession, NextApp, GraceEnds, AfterGrace, InClose, openVars, resources, lifecycle,
     appCalls, processes, CloseInv, OfAnApp
<1>2. LifeTypes'
  BY <1>1 DEF LifeTypes
<1>3. LaunchInv'
  BY <1>1 DEF LaunchInv
<1>4. GoneInv'
  BY <1>1 DEF GoneInv
<1>5. CloseInv'
  BY <1>1 DEF CloseInv, OfAnApp
<1>6. OpenInv'
  BY <1>1 DEF OpenInv
<1> QED
  BY <1>2, <1>3, <1>4, <1>5, <1>6

\* The application that close() is at has been launched.
LEMMA AtAnApp ==
    ASSUME LifeInv, closeAt \in OfAnApp
    PROVE  /\ todo \in Seq(Apps) /\ todo # <<>>
           /\ Last(todo) \in Apps /\ Last(todo) \in ToSet(todo)
           /\ launchPc[Last(todo)] = "launched"
           /\ appGroup[Last(todo)] \in Groups
           /\ appGroup[Last(todo)].gone => ~Ours(appGroup[Last(todo)])
<1>1. todo \in Seq(Apps) /\ todo # <<>> /\ ToSet(todo) \subseteq ToSet(apps)
  BY DEF LifeInv, LifeTypes, CloseInv
<1>2. Last(todo) \in Apps /\ Last(todo) \in ToSet(todo)
  BY <1>1, ElementsOfFront
<1> QED
  BY <1>1, <1>2 DEF LifeInv, LifeTypes, LaunchInv, GoneInv

LEMMA AppEndsKeeps ==
    ASSUME LifeInv, GroupsAge, closeAt \in OfAnApp, closeOnce = "running",
           NEW failed \in BOOLEAN, AppEnds(failed),
           ~failed => appGroup'[Last(todo)].gone,
           UNCHANGED <<openVars, resources, lifecycle, appCalls, appStruck, closeOnce, closerPc>>
    PROVE  LifeInv'
<1> USE DEF openVars, resources, lifecycle, appCalls
<1>1. PICK a \in Apps : /\ a = Last(todo) /\ a \in ToSet(todo) /\ launchPc[a] = "launched"
                        /\ todo \in Seq(Apps) /\ todo # <<>>
  BY AtAnApp
<1>2. /\ todo' = Front(todo) /\ closeAt' = "apps"
      /\ errs' = IF failed THEN errs \cup {a} ELSE errs
      /\ settled' = IF failed THEN settled ELSE settled \cup {a}
  BY <1>1 DEF AppEnds
<1>3. todo' \in Seq(Apps) /\ ToSet(todo') \cup {a} = ToSet(todo)
  BY <1>1, <1>2, ElementsOfFront
<1>4. ~failed => appGroup'[a].gone /\ ~Ours(appGroup'[a])
  BY <1>1 DEF GroupsAge
<1>5. LifeTypes'
  BY <1>3 DEF LifeInv, LifeTypes, GroupsAge
<1>6. LaunchInv'
  <2>1. \A x \in Apps : stopPc'[x] = "wait" => launchPc[x] = "launched"
    BY DEF LifeInv, LaunchInv
  <2> QED
    BY <2>1, LaunchFrame
<1>7. GoneInv'
  BY <1>1, <1>2, <1>4 DEF LifeInv, GoneInv, GroupsAge
<1>8. CloseInv'
  <2>1. \A x \in Apps : Ours(appGroup'[x]) => x \in ToSet(todo') \cup errs'
    <3> SUFFICES ASSUME NEW x \in Apps, Ours(appGroup'[x]) PROVE x \in ToSet(todo') \cup errs'
      OBVIOUS
    <3>1. x \in ToSet(todo) \cup errs
      BY DEF LifeInv, CloseInv, GroupsAge, OfAnApp
    <3> QED
      BY <1>2, <1>3, <1>4, <3>1
  <2>2. ToSet(todo') \subseteq ToSet(apps)
    BY <1>3 DEF LifeInv, CloseInv
  <2>3. sClosed' /\ sCancelled'
    BY DEF LifeInv, CloseInv, OfAnApp
  <2>4. \A c \in CloseCalls : closerPc'[c] # "returned"
    BY DEF LifeInv, CloseInv
  <2> QED
    BY <1>2, <2>1, <2>2, <2>3, <2>4 DEF CloseInv, OfAnApp
<1>9. OpenInv'
  BY <1>2 DEF LifeInv, OpenInv, OfAnApp
<1> QED
  BY <1>5, <1>6, <1>7, <1>8, <1>9 DEF LifeInv

\* A signal or a look at the application moves close() on with the same todo.
LEMMA AppStepKeeps ==
    ASSUME LifeInv, GroupsAge, closeAt \in OfAnApp, closeAt' \in OfAnApp, closeOnce = "running",
           closeAt' = "waitExit" => appGroup'[Last(todo)].gone, appStruck' = {},
           UNCHANGED <<openVars, resources, lifecycle, appCalls, settled, closeOnce, closerPc,
                       todo, errs>>
    PROVE  LifeInv'
<1> USE DEF openVars, resources, lifecycle, appCalls
<1>1. LifeTypes'
  BY DEF LifeInv, LifeTypes, GroupsAge
<1>2. LaunchInv'
  <2>1. \A x \in Apps : stopPc'[x] = "wait" => launchPc[x] = "launched"
    BY DEF LifeInv, LaunchInv
  <2> QED
    BY <2>1, LaunchFrame
<1>3. GoneInv'
  BY DEF LifeInv, GoneInv, GroupsAge
<1>4. CloseInv'
  <2>1. \A x \in Apps : Ours(appGroup'[x]) => x \in ToSet(todo') \cup errs'
    BY DEF LifeInv, CloseInv, GroupsAge, OfAnApp
  <2>2. closeAt' = "waitExit" => (appGroup[Last(todo)].gone)'
    OBVIOUS
  <2> QED
    BY <2>1, <2>2 DEF LifeInv, CloseInv, OfAnApp
<1>5. OpenInv'
  BY DEF LifeInv, OpenInv, OfAnApp
<1> QED
  BY <1>1, <1>2, <1>3, <1>4, <1>5 DEF LifeInv

LEMMA AppSignalsKeep ==
    ASSUME LifeInv, TermApp \/ KillApp
    PROVE  LifeInv'
<1>1. closeAt \in OfAnApp /\ closeAt' \in {"waitTerm", "waitKill"} /\ closeOnce = "running"
  BY DEF TermApp, KillApp, InClose, OfAnApp
<1>2. PICK a \in Apps : a = Last(todo) /\ appGroup[a] \in Groups
  BY <1>1, AtAnApp
<1>3. PICK h \in {Terminated(appGroup[a]), Killed(appGroup[a])} : appGroup' = [appGroup EXCEPT ![a] = h]
  BY <1>2 DEF TermApp, KillApp
<1>4. GroupsAge
  BY <1>2, <1>3, SignalsAge, OneGroupAges
<1>5. appStruck' = {}
  <2>1. Strikes(a) = {} /\ appStruck = {}
    BY NoStrike DEF LifeInv, GoneInv
  <2> QED
    BY <1>2, <2>1 DEF TermApp, KillApp
<1>6. UNCHANGED <<openVars, resources, lifecycle, appCalls, settled, closeOnce, closerPc, todo, errs>>
  BY DEF TermApp, KillApp
<1> QED
  BY <1>1, <1>4, <1>5, <1>6, AppStepKeeps DEF OfAnApp

LEMMA LookAtAppKeeps ==
    ASSUME LifeInv, LookAtApp
    PROVE  LifeInv'
<1>1. closeAt \in OfAnApp /\ closeAt \in {"waitTerm", "waitKill"} /\ closeOnce = "running"
  BY DEF LookAtApp, InClose, OfAnApp
<1>2. PICK a \in Apps : /\ a = Last(todo) /\ appGroup[a] \in Groups
                        /\ appGroup[a].gone => ~Ours(appGroup[a])
  BY <1>1, AtAnApp
<1>3. appGroup' = [appGroup EXCEPT ![a] = Observed(appGroup[a])]
  BY <1>2 DEF LookAtApp
<1>4. GroupsAge
  BY <1>2, <1>3, SignalsAge, OneGroupAges
<1>5. ~GroupAlive(appGroup[a]) => appGroup'[a].gone
  <2>1. appGroup'[a] = Observed(appGroup[a])
    BY <1>3 DEF LifeInv, LifeTypes
  <2> QED
    BY <1>2, <2>1, SeenGone
<1>6. UNCHANGED <<openVars, resources, lifecycle, appCalls, appStruck, closeOnce, closerPc>>
      /\ appStruck = {}
  BY DEF LookAtApp, LifeInv, GoneInv
<1>7. CASE GroupAlive(appGroup[a])
  <2>1. UNCHANGED <<closeAt, todo, errs, settled>>
    BY <1>2, <1>7 DEF LookAtApp
  <2> QED
    BY <1>1, <1>4, <1>6, <2>1, AppStepKeeps
<1>8. CASE ~GroupAlive(appGroup[a]) /\ closeAt = "waitTerm"
  <2>1. AppEnds(FALSE)
    BY <1>2, <1>8 DEF LookAtApp
  <2> QED
    BY <1>1, <1>2, <1>4, <1>5, <1>6, <1>8, <2>1, AppEndsKeeps
<1>9. CASE ~GroupAlive(appGroup[a]) /\ closeAt = "waitKill"
  <2>1. closeAt' = "waitExit" /\ UNCHANGED <<todo, errs, settled>>
    BY <1>2, <1>9 DEF LookAtApp
  <2> QED
    BY <1>1, <1>2, <1>4, <1>5, <1>6, <1>9, <2>1, AppStepKeeps DEF OfAnApp
<1> QED
  BY <1>1, <1>7, <1>8, <1>9

LEMMA AppEndingsKeep ==
    ASSUME LifeInv, SignalFails \/ AppExited \/ KillDeadline
    PROVE  LifeInv'
<1>1. closeAt \in OfAnApp /\ closeOnce = "running"
  BY DEF SignalFails, AppExited, KillDeadline, InClose, OfAnApp
<1>2. GroupsAge
  BY SameGroups DEF SignalFails, AppExited, KillDeadline
<1>3. UNCHANGED <<openVars, resources, lifecycle, appCalls, appGroup, appStruck, closeOnce, closerPc>>
  BY DEF SignalFails, AppExited, KillDeadline
<1>4. CASE SignalFails \/ KillDeadline
  <2>1. AppEnds(TRUE)
    BY <1>4 DEF SignalFails, KillDeadline
  <2> QED
    BY <1>1, <1>2, <1>3, <2>1, AppEndsKeeps
<1>5. CASE AppExited
  <2>1. AppEnds(FALSE) /\ appGroup'[Last(todo)].gone
    BY <1>3, <1>5 DEF AppExited, InClose, LifeInv, CloseInv
  <2> QED
    BY <1>1, <1>2, <1>3, <2>1, AppEndsKeeps
<1> QED
  BY <1>4, <1>5

\* The backends and then the infrastructure, when every application is over.
LEMMA CloseEndsKeep ==
    ASSUME LifeInv, CloseBackend \/ StopInfra
    PROVE  LifeInv'
<1> USE DEF LifeInv
<1>1. /\ closeOnce = "running" /\ closeAt = "backends" /\ closeAt' \in {"backends", "publish"}
      /\ backends' \subseteq backends /\ errs \subseteq errs'
      /\ closeAt' = "publish" => backends' = {} /\ infra' # "running"
      /\ infra' # infra => closeAt' = "publish" /\ infra' = "stopped"
      /\ UNCHANGED <<openPc, mu, sClosed, sCancelled, apps, launchPc, stopPc,
                     appGroup, settled, appStruck, closeOnce, closerPc, todo>>
  BY DEF CloseBackend, StopInfra, InClose, openVars, lifecycle, appCalls, processes
<1>2. LifeTypes'
  BY <1>1 DEF LifeTypes
<1>3. LaunchInv'
  BY <1>1 DEF LaunchInv
<1>4. GoneInv'
  BY <1>1 DEF GoneInv
<1>5. CloseInv'
  BY <1>1 DEF CloseInv, OfAnApp
<1>6. OpenInv'
  BY <1>1 DEF OpenInv, LifeTypes
<1> QED
  BY <1>2, <1>3, <1>4, <1>5, <1>6

LEMMA PublishCloseKeeps ==
    ASSUME LifeInv, NEW c \in CloseCalls, PublishClose(c)
    PROVE  LifeInv'
<1> USE DEF LifeInv
<1>1. /\ closeOnce' = "done" /\ closeAt = "publish" /\ closeOnce = "running"
      /\ closerPc' = [closerPc EXCEPT ![c] = "returned"]
      /\ UNCHANGED <<openPc, backends, infra, mu, sClosed, sCancelled, apps, launchPc, stopPc,
                     appGroup, settled, appStruck, closeAt, todo, errs>>
  BY DEF PublishClose, InClose, openVars, resources, lifecycle, appCalls, processes
<1>2. LifeTypes'
  BY <1>1 DEF LifeTypes
<1>3. LaunchInv'
  BY <1>1 DEF LaunchInv
<1>4. GoneInv'
  BY <1>1 DEF GoneInv
<1>5. CloseInv'
  BY <1>1 DEF CloseInv
<1>6. OpenInv'
  BY <1>1 DEF OpenInv
<1> QED
  BY <1>2, <1>3, <1>4, <1>5, <1>6

LEMMA LifeStutters ==
    ASSUME LifeInv, UNCHANGED lifecycleVars
    PROVE  LifeInv'
<1>1. UNCHANGED <<openPc, backends, infra, mu, sClosed, sCancelled, apps, launchPc, stopPc,
                  appGroup, settled, appStruck, closeOnce, closerPc, closeAt, todo, errs>>
  BY DEF lifecycleVars, openVars, resources, lifecycle, appCalls, processes, closeVars
<1> QED
  BY <1>1 DEF LifeInv, LifeTypes, LaunchInv, GoneInv, CloseInv, OpenInv

LEMMA LifeSteps ==
    ASSUME LifeInv, [LifecycleNext]_lifecycleVars
    PROVE  LifeInv'
<1>1. CASE OpenStep \/ OpenCancelled
  BY <1>1, OpenKeeps DEF OpenStep, OpenWorks
<1>2. CASE CloseBody
  <2>1. CASE \E c \in CloseCalls : PublishClose(c)
    BY <2>1, PublishCloseKeeps
  <2> QED
    BY <1>2, <2>1, MarkClosedKeeps, CloseMovesKeep, AppSignalsKeep, LookAtAppKeeps, AppEndingsKeep,
       CloseEndsKeep DEF CloseBody
<1>3. CASE \E a \in Apps : LaunchCancelled(a) \/ LaunchCalled(a) \/ LaunchStep(a)
  BY <1>3, LaunchCancelledKeeps, LaunchStepsKeep, LaunchStartsKeeps DEF LaunchStep
<1>4. CASE \E a \in Apps : AppMoves(a) \/ ReapApp(a) \/ PublishExit(a)
  BY <1>4, ProcessesKeep
<1>5. CASE \E a \in Apps : StopSignals(a) \/ StopLooks(a) \/ StopGivesUp(a)
  BY <1>5, StopsKeep
<1>6. CASE \E c \in CloseCalls : CloseCalled(c) \/ CloseReturns(c)
  BY <1>6, CloseCallsKeep
<1>7. CASE UNCHANGED lifecycleVars
  BY <1>7, LifeStutters
<1> QED
  BY <1>1, <1>2, <1>3, <1>4, <1>5, <1>6, <1>7 DEF LifecycleNext

\* The invariant of the whole session: who may start an application, what was
\* seen gone, how far close() is, and what Open has left (session.go).
THEOREM SessionHolds == LifecycleSpec => []LifeInv
<1>1. LifecycleInit => LifeInv
  BY LifeInitially
<1>2. LifeInv /\ [LifecycleNext]_lifecycleVars => LifeInv'
  BY LifeSteps
<1> QED
  BY <1>1, <1>2, PTL DEF LifecycleSpec

\* No backend and no application outlives Close or the desktop unreported, a
\* failed Open leaves nothing, and no stop signals a stranger, for any number
\* of applications, capabilities and calls of Close.
THEOREM NothingIsLeft == LifecycleSpec => []TeardownIsExact
<1>1. LifeInv => TeardownIsExact
  <2> SUFFICES ASSUME LifeInv PROVE TeardownIsExact
    OBVIOUS
  <2>1. NothingOutlivesClose
    <3> SUFFICES ASSUME infra = "stopped" \/ (\E c \in CloseCalls : closerPc[c] = "returned")
                 PROVE  backends = {} /\ \A a \in Apps : Ours(appGroup[a]) => a \in errs
      BY DEF NothingOutlivesClose
    <3>1. closeAt = "publish"
      BY DEF LifeInv, CloseInv, OpenInv
    <3>2. ToSet(todo) = {}
      BY <3>1 DEF LifeInv, CloseInv, ToSet
    <3> QED
      BY <3>1, <3>2 DEF LifeInv, CloseInv, OpenInv
  <2>2. FailedOpenLeavesNothing
    BY DEF LifeInv, OpenInv, FailedOpenLeavesNothing
  <2>3. SettledAreSpared
    BY DEF LifeInv, GoneInv, SettledAreSpared
  <2> QED
    BY <2>1, <2>2, <2>3 DEF TeardownIsExact
<1> QED
  BY <1>1, SessionHolds, PTL

-----------------------------------------------------------------------------
(* The infrastructure of a managed session.                                *)

OfAHelper == {"term", "waitLeader", "waitGroup", "kill", "waitKilled"}
AtAHelper == {"dirs", "pidfile", "spawn", "fork", "assign", "ready"}

InfraTypes ==
    /\ startPc \in AtAHelper \cup {"cleanup", "failed", "started"}
    /\ startPc \in AtAHelper => helperAt \in 1..Len(Helpers)
    /\ runtimeDir \in {"none", "present", "removed"}
    /\ field \in SUBSET Procs
    /\ helperGroup \in [Procs -> Groups]
    /\ stopOnce \in {"no", "running", "done"}
    /\ stopperPc \in [StopCalls -> {"idle", "body", "join", "returned"}]
    /\ stopAt \in {"unregister", "cancel", "look", "unmount", "verify", "remove", "publish"}
                  \cup OfAHelper
    /\ turn \in Seq(Procs)

\* What stop relies on: it begins after the handler exists, and what has
\* started is known to infra but for the helper that is being assigned.
StartInv ==
    /\ startPc \in {"dirs", "pidfile"} => handler = "off" /\ stopOnce = "no" /\ field = {}
    /\ infraCtx => stopOnce # "no"
    /\ \A p \in Procs : \/ Untouched(helperGroup[p]) \/ p \in field
                        \/ startPc = "assign" /\ p = Helpers[helperAt]
    /\ \A p \in Procs : helperGroup[p].gone => ~Ours(helperGroup[p])

\* Where the body of stop is, and what has become of the directory.
StopInv ==
    /\ stopOnce = "no" => stopAt = "unregister" /\ turn = Helpers
    /\ stopOnce = "done" => stopAt = "publish"
    /\ \A c \in StopCalls : stopperPc[c] = "returned" => stopOnce = "done"
    /\ stopAt \in {"unmount", "verify", "remove", "publish"} => turn = <<>>
    /\ stopAt \in OfAHelper => turn # <<>>
    /\ stopAt = "publish" \/ startPc = "failed" => runtimeDir # "present" \/ failure
    /\ runtimeDir = "removed" => stopAt = "publish" \/ (startPc = "failed" /\ field = {})

\* What stop achieves when no signal came during startup: nothing starts any
\* more, and a helper is still to be stopped, has ended or was killed.
OrderlyInv ==
    ~early =>
        /\ stopOnce # "no" => startPc \in {"cleanup", "failed", "started"}
        /\ \A p \in field : \/ p \in ToSet(turn)
                            \/ ~Ours(helperGroup[p]) \/ helperGroup[p].killed
        /\ stopAt = "waitKilled" =>
               ~Ours(helperGroup[Last(turn)]) \/ helperGroup[Last(turn)].killed
        /\ stopAt = "remove" => ~mounted
        /\ ~lost

InfraInv == InfraTypes /\ StartInv /\ StopInv /\ OrderlyInv

LEMMA InfraInitially == InfraInit => InfraInv
<1> SUFFICES ASSUME InfraInit PROVE InfraInv
  OBVIOUS
<1>1. NotStarted \in Groups /\ Untouched(NotStarted) /\ ~NotStarted.gone
  BY DEF NotStarted, Groups, Untouched
<1>2. Helpers \in Seq(Procs) /\ Len(Helpers) \in Nat /\ Len(Helpers) >= 1
  BY HelpersAreASequence DEF Procs
<1>3. InfraTypes
  BY <1>1, <1>2 DEF InfraInit, InfraTypes, AtAHelper
<1>4. StartInv
  BY <1>1 DEF InfraInit, StartInv
<1>5. StopInv
  BY DEF InfraInit, StopInv, OfAHelper
<1>6. OrderlyInv
  BY DEF InfraInit, OrderlyInv
<1> QED
  BY <1>3, <1>4, <1>5, <1>6 DEF InfraInv

\* What a step makes of the helpers when it starts none.
HelpersAge ==
    /\ helperGroup' \in [Procs -> Groups]
    /\ \A p \in Procs :
          /\ Ours(helperGroup'[p]) => Ours(helperGroup[p])
          /\ helperGroup[p].killed => helperGroup'[p].killed
          /\ helperGroup'[p].gone => ~Ours(helperGroup'[p])
          /\ Untouched(helperGroup[p]) => Untouched(helperGroup'[p])

LEMMA SameHelpers ==
    ASSUME InfraInv, helperGroup' = helperGroup
    PROVE  HelpersAge
BY DEF InfraInv, InfraTypes, StartInv, HelpersAge

LEMMA OneHelperAges ==
    ASSUME InfraInv, NEW p \in Procs, NEW h, Ages(helperGroup[p], h),
           helperGroup' = [helperGroup EXCEPT ![p] = h]
    PROVE  HelpersAge
<1>1. helperGroup \in [Procs -> Groups] /\ \A x \in Procs : helperGroup[x].gone => ~Ours(helperGroup[x])
  BY DEF InfraInv, InfraTypes, StartInv
<1>2. helperGroup' \in [Procs -> Groups]
  BY <1>1 DEF Ages
<1>3. \A x \in Procs : helperGroup'[x] = IF x = p THEN h ELSE helperGroup[x]
  BY <1>1
<1> QED
  BY <1>1, <1>2, <1>3 DEF HelpersAge, Ages

-----------------------------------------------------------------------------
(* startSession.                                                           *)

\* The helper that startup is at.
LEMMA HelperInTurn ==
    ASSUME InfraInv, startPc \in AtAHelper
    PROVE  /\ helperAt \in 1..Len(Helpers) /\ Len(Helpers) \in Nat
           /\ Helpers[helperAt] \in Procs
<1>1. Helpers \in Seq(Procs)
  BY HelpersAreASequence DEF Procs
<1> QED
  BY <1>1 DEF InfraInv, InfraTypes

\* Startup moves on with the processes and the files as they are.
LEMMA StartMovesKeep ==
    ASSUME InfraInv, startPc \in AtAHelper \ {"dirs", "assign"},
           startPc' \in {"spawn", "fork", "ready", "started", "cleanup"},
           startPc' \in AtAHelper => helperAt' \in 1..Len(Helpers),
           handler' # "off" \/ UNCHANGED handler,
           UNCHANGED <<fileVars, field, helperGroup, infraCtx, early, stopVars>>
    PROVE  InfraInv'
<1> USE DEF fileVars, stopVars
<1>1. InfraTypes'
  BY DEF InfraInv, InfraTypes, AtAHelper
<1>2. StartInv'
  BY DEF InfraInv, StartInv, AtAHelper
<1>3. StopInv'
  BY DEF InfraInv, StopInv, AtAHelper
<1>4. OrderlyInv'
  BY DEF InfraInv, OrderlyInv, AtAHelper
<1> QED
  BY <1>1, <1>2, <1>3, <1>4 DEF InfraInv

LEMMA StartsKeep ==
    ASSUME InfraInv, Register \/ PidfileFails \/ CheckSpawn \/ SpawnFails \/ Ready \/ NotReady
    PROVE  InfraInv'
<1>1. startPc \in AtAHelper \ {"dirs", "assign"}
  BY DEF Register, PidfileFails, CheckSpawn, SpawnFails, Ready, NotReady, AtAHelper
<1>2. helperAt \in 1..Len(Helpers) /\ Len(Helpers) \in Nat
  BY <1>1, HelperInTurn
<1>3. /\ startPc' \in {"spawn", "fork", "ready", "started", "cleanup"}
      /\ startPc' \in AtAHelper => helperAt' \in 1..Len(Helpers)
  <2>1. CASE Register \/ PidfileFails \/ CheckSpawn
    BY <1>2, <2>1 DEF Register, PidfileFails, CheckSpawn, AtAHelper
  <2>2. CASE SpawnFails \/ Ready \/ NotReady
    <3>1. Proceed \/ (startPc' = "cleanup" /\ UNCHANGED helperAt)
      BY <2>2 DEF SpawnFails, Ready, NotReady, HelperFails
    <3> QED
      BY <1>2, <3>1 DEF Proceed, AtAHelper
  <2> QED
    BY <2>1, <2>2
<1>4. handler' # "off" \/ UNCHANGED handler
  BY DEF Register, PidfileFails, CheckSpawn, SpawnFails, Ready, NotReady, handlerVars
<1>5. UNCHANGED <<fileVars, field, helperGroup, infraCtx, early, stopVars>>
  BY DEF Register, PidfileFails, CheckSpawn, SpawnFails, Ready, NotReady, handlerVars
<1> QED
  BY <1>1, <1>3, <1>4, <1>5, StartMovesKeep

LEMMA PrepareDirsKeeps ==
    ASSUME InfraInv, PrepareDirs
    PROVE  InfraInv'
<1>1. /\ startPc = "dirs" /\ stopOnce = "no" /\ field = {} /\ stopAt = "unregister"
      /\ handler = "off" /\ ~infraCtx
  BY DEF PrepareDirs, InfraInv, StartInv, StopInv
<1>2. UNCHANGED <<helperAt, startCtx, mounted, lost, field, helperGroup, infraCtx, handler, early,
                  stopOnce, stopperPc, stopAt, turn>>
  BY DEF PrepareDirs, handlerVars
<1>3. \/ startPc' = "pidfile" /\ runtimeDir' = "present"
      \/ startPc' = "failed" /\ runtimeDir' \in {"none", "removed"}
      \/ startPc' = "failed" /\ runtimeDir' = "present" /\ failure'
  BY DEF PrepareDirs
<1>4. InfraTypes'
  BY <1>1, <1>2, <1>3 DEF InfraInv, InfraTypes, AtAHelper
<1>5. StartInv'
  BY <1>1, <1>2, <1>3 DEF InfraInv, StartInv
<1>6. StopInv'
  BY <1>1, <1>2, <1>3 DEF InfraInv, StopInv, OfAHelper
<1>7. OrderlyInv'
  BY <1>1, <1>2, <1>3 DEF InfraInv, OrderlyInv
<1> QED
  BY <1>4, <1>5, <1>6, <1>7 DEF InfraInv

\* A helper starts while nobody stops.
LEMMA ForkKeeps ==
    ASSUME InfraInv, Fork
    PROVE  InfraInv'
<1>1. PICK p \in Procs : p = Helpers[helperAt]
  BY HelperInTurn DEF Fork, AtAHelper
<1>2. /\ startPc = "fork" /\ startPc' = "assign"
      /\ helperGroup' = [helperGroup EXCEPT ![p] = Started]
      /\ UNCHANGED <<helperAt, runtimeDir, mounted, lost, field, infraCtx, handler, early,
                     stopOnce, stopperPc, stopAt, turn, failure>>
  BY <1>1 DEF Fork, fileVars, handlerVars, stopVars
<1>3. Started \in Groups /\ ~Started.gone
  BY DEF Started, NotStarted, Groups
<1>4. \A x \in Procs : helperGroup'[x] = IF x = p THEN Started ELSE helperGroup[x]
  BY <1>2 DEF InfraInv, InfraTypes
<1>5. InfraTypes'
  BY <1>2, <1>3 DEF InfraInv, InfraTypes, AtAHelper
<1>6. StartInv'
  BY <1>1, <1>2, <1>3, <1>4 DEF InfraInv, StartInv
<1>7. StopInv'
  BY <1>2 DEF InfraInv, StopInv
<1>8. OrderlyInv'
  <2> SUFFICES ASSUME ~early PROVE OrderlyInv'
    BY <1>2 DEF OrderlyInv
  <2>1. stopOnce = "no" /\ stopAt = "unregister" /\ turn = Helpers /\ ~lost
    BY <1>2 DEF InfraInv, StopInv, OrderlyInv
  <2>2. field \subseteq ToSet(turn)
    BY <2>1 DEF InfraInv, InfraTypes, Procs
  <2> QED
    BY <1>2, <2>1, <2>2 DEF OrderlyInv
<1> QED
  BY <1>5, <1>6, <1>7, <1>8 DEF InfraInv

LEMMA AssignKeeps ==
    ASSUME InfraInv, Assign
    PROVE  InfraInv'
<1>1. PICK p \in Procs : p = Helpers[helperAt]
  BY HelperInTurn DEF Assign, AtAHelper
<1>2. /\ startPc = "assign" /\ startPc' = "ready" /\ field' = field \cup {p}
      /\ UNCHANGED <<helperAt, runtimeDir, mounted, lost, helperGroup, infraCtx, handler, early,
                     stopOnce, stopperPc, stopAt, turn, failure>>
  BY <1>1 DEF Assign, fileVars, handlerVars, stopVars
<1>3. InfraTypes'
  BY <1>2 DEF InfraInv, InfraTypes, AtAHelper
<1>4. StartInv'
  BY <1>1, <1>2 DEF InfraInv, StartInv
<1>5. StopInv'
  BY <1>2 DEF InfraInv, StopInv
<1>6. OrderlyInv'
  <2> SUFFICES ASSUME ~early PROVE OrderlyInv'
    BY <1>2 DEF OrderlyInv
  <2>1. stopOnce = "no" /\ stopAt = "unregister" /\ turn = Helpers /\ ~lost
    BY <1>2 DEF InfraInv, StopInv, OrderlyInv
  <2>2. field' \subseteq ToSet(turn)
    BY <1>2, <2>1 DEF InfraInv, InfraTypes, Procs
  <2> QED
    BY <1>2, <2>1, <2>2 DEF OrderlyInv
<1> QED
  BY <1>3, <1>4, <1>5, <1>6 DEF InfraInv

\* The stop that the failing startup called has removed the directory or failed.
LEMMA StartupFailsKeeps ==
    ASSUME InfraInv, StartupFails
    PROVE  InfraInv'
<1>1. stopOnce = "done" /\ stopAt = "publish"
  BY DEF StartupFails, InfraInv, StopInv, StopCalls
<1>2. /\ startPc = "cleanup" /\ startPc' = "failed"
      /\ UNCHANGED <<helperAt, runtimeDir, mounted, lost, field, helperGroup, infraCtx, handler,
                     early, stopOnce, stopperPc, stopAt, turn, failure>>
  BY DEF StartupFails, fileVars, handlerVars, stopVars
<1>3. InfraTypes'
  BY <1>2 DEF InfraInv, InfraTypes, AtAHelper
<1>4. StartInv'
  BY <1>2 DEF InfraInv, StartInv
<1>5. StopInv'
  BY <1>1, <1>2 DEF InfraInv, StopInv
<1>6. OrderlyInv'
  BY <1>2 DEF InfraInv, OrderlyInv
<1> QED
  BY <1>3, <1>4, <1>5, <1>6 DEF InfraInv

-----------------------------------------------------------------------------
(* The helpers.                                                            *)

\* A step that changes helpers only by ageing them.
LEMMA AgeingHelpersKeep ==
    ASSUME InfraInv, HelpersAge,
           UNCHANGED <<startPc, helperAt, fileVars, field, infraCtx, handlerVars, stopVars>>
    PROVE  InfraInv'
<1> USE DEF fileVars, handlerVars, stopVars
<1>1. InfraTypes'
  BY DEF InfraInv, InfraTypes, HelpersAge
<1>2. StartInv'
  BY DEF InfraInv, StartInv, HelpersAge
<1>3. StopInv'
  BY DEF InfraInv, StopInv
<1>4. OrderlyInv'
  <2>1. \A p \in field : p \in Procs
    BY DEF InfraInv, InfraTypes
  <2>2. stopAt = "waitKilled" => Last(turn) \in Procs
    BY ElementsOfFront DEF InfraInv, InfraTypes, StopInv, OfAHelper
  <2>3. (early => early') /\ (early' => early)
    OBVIOUS
  <2> QED
    BY <2>1, <2>2 DEF InfraInv, OrderlyInv, HelpersAge
<1> QED
  BY <1>1, <1>2, <1>3, <1>4 DEF InfraInv

LEMMA HelpersKeep ==
    ASSUME InfraInv, NEW p \in Procs, HelperMovesOn(p) \/ ContextKills(p) \/ ReapHelper(p)
    PROVE  InfraInv'
<1>1. helperGroup \in [Procs -> Groups] /\ helperGroup[p] \in Groups
  BY DEF InfraInv, InfraTypes
<1>2. HelpersAge
  <2>1. CASE HelperMovesOn(p)
    <3>1. PICK g \in Successors(helperGroup[p]) : helperGroup' = [helperGroup EXCEPT ![p] = g]
      BY <2>1 DEF HelperMovesOn
    <3>2. Ages(helperGroup[p], g)
      BY <1>1, SuccessorsAge
    <3> QED
      BY <3>1, <3>2, OneHelperAges
  <2>2. CASE ReapHelper(p)
    <3> DEFINE g == [helperGroup[p] EXCEPT !.leader = "reaped"]
    <3>1. Ages(helperGroup[p], g)
      BY <1>1, <2>2, ReapingAges DEF ReapHelper
    <3>2. helperGroup' = [helperGroup EXCEPT ![p] = g]
      BY <1>1, <2>2 DEF ReapHelper
    <3> HIDE DEF g
    <3> QED
      BY <3>1, <3>2, OneHelperAges
  <2>3. CASE ContextKills(p)
    <3> DEFINE g == [helperGroup[p] EXCEPT !.leader = "zombie"]
    <3>1. Ages(helperGroup[p], g)
      BY <1>1, <2>3, ExitAges DEF ContextKills
    <3>2. helperGroup' = [helperGroup EXCEPT ![p] = g]
      BY <1>1, <2>3 DEF ContextKills
    <3> HIDE DEF g
    <3> QED
      BY <3>1, <3>2, OneHelperAges
  <2> QED
    BY <2>1, <2>2, <2>3
<1>3. UNCHANGED <<startPc, helperAt, fileVars, field, infraCtx, handlerVars, stopVars>>
  BY DEF HelperMovesOn, ContextKills, ReapHelper, startVars
<1> QED
  BY <1>2, <1>3, AgeingHelpersKeep

\* Nothing mounts below the directory between the last look and its removal:
\* whoever could is dead or has been killed.
LEMMA HelperMountsKeeps ==
    ASSUME InfraInv, NEW p \in Procs, HelperMounts(p)
    PROVE  InfraInv'
<1>1. UNCHANGED <<startPc, helperAt, runtimeDir, lost, field, helperGroup, infraCtx, handler, early,
                  stopOnce, stopperPc, stopAt, turn, failure>>
  BY DEF HelperMounts, startVars, handlerVars, stopVars
<1>2. InfraTypes' /\ StartInv' /\ StopInv'
  BY <1>1 DEF InfraInv, InfraTypes, StartInv, StopInv
<1>3. ~early => stopAt # "remove"
  <2> SUFFICES ASSUME ~early, stopAt = "remove" PROVE FALSE
    OBVIOUS
  <2>1. stopOnce # "no" /\ turn = <<>>
    BY DEF InfraInv, StopInv
  <2>2. startPc # "assign"
    BY <2>1 DEF InfraInv, OrderlyInv
  <2>3. ~Untouched(helperGroup[p]) /\ Ours(helperGroup[p]) /\ ~helperGroup[p].killed
    BY DEF HelperMounts, Untouched, Ours
  <2>4. p \in field
    BY <2>2, <2>3 DEF InfraInv, StartInv
  <2>5. p \notin ToSet(turn)
    BY <2>1 DEF ToSet
  <2> QED
    BY <2>3, <2>4, <2>5 DEF InfraInv, OrderlyInv
<1>4. OrderlyInv'
  BY <1>1, <1>3 DEF InfraInv, OrderlyInv
<1> QED
  BY <1>2, <1>4 DEF InfraInv

-----------------------------------------------------------------------------
(* stop.                                                                   *)

\* A call of stop enters when startup is over, but for a signal.
LEMMA EnterStopKeeps ==
    ASSUME InfraInv, NEW c \in StopCalls, EnterStop(c), startPc \notin {"dirs", "pidfile"},
           early => early',
           ~early' /\ stopOnce = "no" => startPc \in {"cleanup", "failed", "started"}
    PROVE  InfraInv'
<1>1. UNCHANGED <<startPc, helperAt, runtimeDir, mounted, lost, field, helperGroup, infraCtx,
                  handler, stopAt, turn, failure>>
  BY DEF EnterStop, startVars, fileVars
<1>2. PICK to \in {"body", "join"} :
          /\ stopperPc' = [stopperPc EXCEPT ![c] = to]
          /\ stopOnce' = IF stopOnce = "no" THEN "running" ELSE stopOnce
  BY DEF EnterStop
<1>3. InfraTypes'
  BY <1>1, <1>2 DEF InfraInv, InfraTypes
<1>4. StartInv'
  BY <1>1, <1>2 DEF InfraInv, StartInv
<1>5. StopInv'
  <2>1. \A x \in StopCalls : stopperPc'[x] = "returned" => stopperPc[x] = "returned"
    BY <1>2 DEF InfraInv, InfraTypes
  <2> QED
    BY <1>1, <1>2, <2>1 DEF InfraInv, StopInv
<1>6. OrderlyInv'
  <2> SUFFICES ASSUME ~early' PROVE OrderlyInv'
    BY DEF OrderlyInv
  <2>1. ~early
    OBVIOUS
  <2>2. startPc \in {"cleanup", "failed", "started"}
    BY <2>1 DEF InfraInv, OrderlyInv
  <2> QED
    BY <1>1, <2>1, <2>2 DEF InfraInv, OrderlyInv
<1> QED
  BY <1>3, <1>4, <1>5, <1>6 DEF InfraInv

LEMMA StopCallsKeep ==
    ASSUME InfraInv, NEW c \in StopCalls, CallStop(c) \/ JoinStop(c)
    PROVE  InfraInv'
<1>1. CASE CallStop(c)
  <2>1. startPc \in {"cleanup", "started"} /\ EnterStop(c) /\ early' = early
    BY <1>1 DEF CallStop, MayCallStop
  <2> QED
    BY <2>1, EnterStopKeeps
<1>2. CASE JoinStop(c)
  <2>1. /\ stopOnce = "done" /\ stopperPc' = [stopperPc EXCEPT ![c] = "returned"]
        /\ UNCHANGED <<startPc, helperAt, runtimeDir, mounted, lost, field, helperGroup, infraCtx,
                       handler, early, stopOnce, stopAt, turn, failure>>
    BY <1>2 DEF JoinStop, startVars, fileVars, handlerVars
  <2>2. InfraTypes'
    BY <2>1 DEF InfraInv, InfraTypes
  <2>3. StartInv' /\ OrderlyInv'
    BY <2>1 DEF InfraInv, StartInv, OrderlyInv
  <2>4. StopInv'
    BY <2>1 DEF InfraInv, StopInv
  <2> QED
    BY <2>2, <2>3, <2>4 DEF InfraInv
<1> QED
  BY <1>1, <1>2

LEMMA HandlerKeeps ==
    ASSUME InfraInv, HandlerWakes \/ HandlerEnds
    PROVE  InfraInv'
<1>1. CASE HandlerWakes
  <2>1. handler = "watching" /\ EnterStop("handler") /\ early' = (early \/ (Starting /\ ~infraCtx))
    BY <1>1 DEF HandlerWakes, MayCallStop
  <2>2. startPc \notin {"dirs", "pidfile"} /\ (early => early')
    BY <2>1 DEF InfraInv, StartInv
  <2>3. ~early' /\ stopOnce = "no" => startPc \in {"cleanup", "failed", "started"}
    BY <2>1 DEF InfraInv, StartInv, Starting
  <2> QED
    BY <2>1, <2>2, <2>3, EnterStopKeeps DEF StopCalls
<1>2. CASE HandlerEnds
  <2>1. /\ handler = "watching"
        /\ UNCHANGED <<startPc, helperAt, runtimeDir, mounted, lost, field, helperGroup, infraCtx,
                       early, stopOnce, stopperPc, stopAt, turn, failure>>
    BY <1>2 DEF HandlerEnds, startVars, fileVars, stopVars
  <2>2. InfraTypes' /\ StopInv'
    BY <2>1 DEF InfraInv, InfraTypes, StopInv
  <2>3. StartInv' /\ OrderlyInv'
    BY <2>1 DEF InfraInv, StartInv, OrderlyInv
  <2> QED
    BY <2>2, <2>3 DEF InfraInv
<1> QED
  BY <1>1, <1>2

\* The body of stop goes on with the same helpers to stop.
LEMMA StopMovesOnKeep ==
    ASSUME InfraInv, HelpersAge, stopOnce = "running",
           stopAt' \in {"cancel", "look", "unmount", "verify", "remove"} \cup OfAHelper,
           stopAt # "publish",
           stopAt' \in {"unmount", "verify", "remove"} => turn = <<>>,
           stopAt' \in OfAHelper => turn # <<>>,
           stopAt' = "waitKilled" =>
               ~Ours(helperGroup'[Last(turn)]) \/ helperGroup'[Last(turn)].killed,
           stopAt' = "remove" => ~mounted',
           UNCHANGED <<startPc, helperAt, runtimeDir, lost, field, handler, early, stopOnce,
                       stopperPc, turn, failure>>
    PROVE  InfraInv'
<1>1. InfraTypes'
  BY DEF InfraInv, InfraTypes, HelpersAge
<1>2. StartInv'
  BY DEF InfraInv, StartInv, HelpersAge
<1>3. StopInv'
  BY DEF InfraInv, StopInv, OfAHelper
<1>4. OrderlyInv'
  <2>1. \A p \in field : p \in Procs
    BY DEF InfraInv, InfraTypes
  <2> QED
    BY <2>1 DEF InfraInv, OrderlyInv, HelpersAge
<1> QED
  BY <1>1, <1>2, <1>3, <1>4 DEF InfraInv

\* The body of stop is done with a helper that it does not know, that has ended
\* or that it has killed.
LEMMA HelperDoneKeeps ==
    ASSUME InfraInv, HelpersAge, stopOnce = "running", stopAt # "publish", turn # <<>>,
           turn' = Front(turn), stopAt' = "look",
           ~early => \/ Last(turn) \notin field
                     \/ ~Ours(helperGroup'[Last(turn)]) \/ helperGroup'[Last(turn)].killed,
           UNCHANGED <<startPc, helperAt, runtimeDir, mounted, lost, field, infraCtx, handler, early,
                       stopOnce, stopperPc, failure>>
    PROVE  InfraInv'
<1>1. turn' \in Seq(Procs) /\ ToSet(turn') \cup {Last(turn)} = ToSet(turn)
  BY ElementsOfFront DEF InfraInv, InfraTypes
<1>2. InfraTypes'
  BY <1>1 DEF InfraInv, InfraTypes, HelpersAge
<1>3. StartInv'
  BY DEF InfraInv, StartInv, HelpersAge
<1>4. StopInv'
  BY DEF InfraInv, StopInv, OfAHelper
<1>5. OrderlyInv'
  <2>1. \A p \in field : p \in Procs
    BY DEF InfraInv, InfraTypes
  <2> QED
    BY <1>1, <2>1 DEF InfraInv, OrderlyInv, HelpersAge
<1> QED
  BY <1>2, <1>3, <1>4, <1>5 DEF InfraInv

\* stop begins, and after the helpers it unmounts.
LEMMA StopBeginsKeeps ==
    ASSUME InfraInv, Unregister \/ CancelInfra \/ UnmountSubdirs \/ (VerifyUnmounted /\ ~mounted)
    PROVE  InfraInv'
<1>1. HelpersAge
  BY SameHelpers DEF Unregister, CancelInfra, UnmountSubdirs, VerifyUnmounted
<1>2. /\ stopOnce = "running" /\ stopAt \in {"unregister", "cancel", "unmount", "verify"}
      /\ stopAt' \in {"cancel", "look", "verify", "remove"}
      /\ stopAt' \in {"verify", "remove"} => stopAt \in {"unmount", "verify"}
      /\ stopAt' = "remove" => ~mounted'
      /\ UNCHANGED <<startPc, helperAt, runtimeDir, lost, field, handler, early, stopOnce,
                     stopperPc, turn, failure>>
  <2> USE DEF InStop, startVars, fileVars, handlerVars, stopVars
  <2>1. CASE Unregister
    BY <2>1 DEF Unregister
  <2>2. CASE CancelInfra
    BY <2>2 DEF CancelInfra
  <2>3. CASE UnmountSubdirs
    BY <2>3 DEF UnmountSubdirs
  <2>4. CASE VerifyUnmounted /\ ~mounted
    BY <2>4 DEF VerifyUnmounted, MayRemove
  <2> QED
    BY <2>1, <2>2, <2>3, <2>4
<1>3. stopAt' \in {"verify", "remove"} => turn = <<>>
  BY <1>2 DEF InfraInv, StopInv
<1> QED
  BY <1>1, <1>2, <1>3, StopMovesOnKeep DEF OfAHelper

LEMMA LookAtHelperKeeps ==
    ASSUME InfraInv, LookAtHelper
    PROVE  InfraInv'
<1>1. /\ HelpersAge /\ stopOnce = "running" /\ stopAt = "look"
      /\ UNCHANGED <<startPc, helperAt, runtimeDir, mounted, lost, field, infraCtx, handler, early,
                     stopOnce, stopperPc, failure>>
  BY SameHelpers DEF LookAtHelper, InStop, startVars, fileVars, handlerVars
<1>2. CASE turn = <<>>
  <2>1. stopAt' = "unmount" /\ turn' = turn
    BY <1>2 DEF LookAtHelper
  <2> QED
    BY <1>1, <1>2, <2>1, StopMovesOnKeep DEF OfAHelper
<1>3. CASE turn # <<>> /\ NotTracked(Last(turn))
  <2>1. stopAt' = "look" /\ turn' = Front(turn) /\ Last(turn) \notin field
    BY <1>1, <1>3 DEF LookAtHelper, NotTracked
  <2> QED
    BY <1>1, <1>3, <2>1, HelperDoneKeeps
<1>4. CASE turn # <<>> /\ ~NotTracked(Last(turn))
  <2>1. stopAt' = "term" /\ turn' = turn
    BY <1>4 DEF LookAtHelper
  <2> QED
    BY <1>1, <1>4, <2>1, StopMovesOnKeep DEF OfAHelper
<1> QED
  BY <1>2, <1>3, <1>4

\* The helper that stop is at.
LEMMA HelperBeingStopped ==
    ASSUME InfraInv, stopAt \in OfAHelper
    PROVE  /\ turn # <<>> /\ Last(turn) \in Procs /\ helperGroup \in [Procs -> Groups]
           /\ helperGroup[Last(turn)] \in Groups
           /\ helperGroup[Last(turn)].gone => ~Ours(helperGroup[Last(turn)])
<1>1. turn \in Seq(Procs) /\ turn # <<>>
  BY DEF InfraInv, InfraTypes, StopInv
<1>2. Last(turn) \in Procs
  BY <1>1, ElementsOfFront
<1> QED
  BY <1>1, <1>2 DEF InfraInv, InfraTypes, StartInv

\* A group that is killed has been reached or has no process of ours.
LEMMA KilledOrOver ==
    ASSUME NEW g \in Groups, g.gone => ~Ours(g)
    PROVE  ~Ours(Killed(g)) \/ Killed(g).killed
BY DEF Groups, Killed, Reaches, GroupAlive, KernelSees, Ours

LEMMA StopSignalsKeep ==
    ASSUME InfraInv, TermHelper \/ KillHelper
    PROVE  InfraInv'
<1>1. /\ stopOnce = "running" /\ stopAt \in OfAHelper /\ stopAt' \in OfAHelper
      /\ UNCHANGED <<startPc, helperAt, runtimeDir, mounted, lost, field, infraCtx, handler, early,
                     stopOnce, stopperPc, turn, failure>>
  BY DEF TermHelper, KillHelper, InStop, OfAHelper, startVars, fileVars, handlerVars
<1>2. PICK p \in Procs : /\ p = Last(turn) /\ turn # <<>> /\ helperGroup \in [Procs -> Groups]
                         /\ helperGroup[p] \in Groups
                         /\ helperGroup[p].gone => ~Ours(helperGroup[p])
  BY <1>1, HelperBeingStopped
<1>3. PICK h \in {Terminated(helperGroup[p]), Killed(helperGroup[p])} :
          /\ helperGroup' = [helperGroup EXCEPT ![p] = h]
          /\ stopAt' = "waitKilled" => h = Killed(helperGroup[p])
  BY <1>2 DEF TermHelper, KillHelper
<1>4. HelpersAge
  BY <1>2, <1>3, SignalsAge, OneHelperAges
<1>5. helperGroup'[p] = h
  BY <1>2, <1>3
<1>6. stopAt' = "waitKilled" => ~Ours(helperGroup'[p]) \/ helperGroup'[p].killed
  BY <1>2, <1>3, <1>5, KilledOrOver
<1>7. stopAt' \notin {"unmount", "verify", "remove"} /\ stopAt # "publish"
  BY <1>1 DEF OfAHelper
<1> QED
  BY <1>1, <1>2, <1>4, <1>6, <1>7, StopMovesOnKeep

LEMMA StopWaitsKeep ==
    ASSUME InfraInv, LeaderReaped \/ TermTimesOut
    PROVE  InfraInv'
<1>1. /\ stopOnce = "running" /\ stopAt \in {"waitLeader", "waitGroup"}
      /\ stopAt' \in {"waitGroup", "kill"}
      /\ UNCHANGED <<startPc, helperAt, runtimeDir, mounted, lost, field, helperGroup, infraCtx,
                     handler, early, stopOnce, stopperPc, turn, failure>>
  BY DEF LeaderReaped, TermTimesOut, AfterTimeout, InStop, startVars, fileVars, handlerVars
<1>2. HelpersAge /\ turn # <<>>
  BY <1>1, SameHelpers, HelperBeingStopped DEF OfAHelper
<1> QED
  BY <1>1, <1>2, StopMovesOnKeep DEF OfAHelper

LEMMA LookAtGroupKeeps ==
    ASSUME InfraInv, LookAtGroup
    PROVE  InfraInv'
<1>1. /\ stopOnce = "running" /\ stopAt \in {"waitGroup", "waitKilled"} /\ stopAt \in OfAHelper
      /\ UNCHANGED <<startPc, helperAt, runtimeDir, mounted, lost, field, infraCtx, handler, stopCh,
                     early, stopOnce, stopperPc, failure>>
  BY DEF LookAtGroup, InStop, OfAHelper, startVars, fileVars, handlerVars
<1>2. PICK p \in Procs : /\ p = Last(turn) /\ turn # <<>> /\ helperGroup \in [Procs -> Groups]
                         /\ helperGroup[p] \in Groups
                         /\ helperGroup[p].gone => ~Ours(helperGroup[p])
  BY <1>1, HelperBeingStopped
<1>3. helperGroup' = [helperGroup EXCEPT ![p] = Observed(helperGroup[p])]
  BY <1>2 DEF LookAtGroup
<1>4. HelpersAge
  BY <1>2, <1>3, SignalsAge, OneHelperAges
<1>5. CASE GroupAlive(helperGroup[p])
  <2>1. turn' = turn /\ stopAt' = stopAt
    BY <1>2, <1>5 DEF LookAtGroup
  <2> QED
    BY <1>3, <1>1, <1>4, <2>1, AgeingHelpersKeep DEF fileVars, handlerVars, stopVars
<1>6. CASE ~GroupAlive(helperGroup[p])
  <2>1. turn' = Front(turn) /\ stopAt' = "look"
    BY <1>2, <1>6 DEF LookAtGroup, HelperDone
  <2>2. ~Ours(helperGroup'[p])
    BY <1>2, <1>3, <1>6, SeenGone
  <2> QED
    BY <1>1, <1>2, <1>4, <2>1, <2>2, HelperDoneKeeps
<1> QED
  BY <1>5, <1>6

LEMMA KillTimesOutKeeps ==
    ASSUME InfraInv, KillTimesOut
    PROVE  InfraInv'
<1>1. /\ stopOnce = "running" /\ stopAt = "waitKilled" /\ turn' = Front(turn) /\ stopAt' = "look"
      /\ UNCHANGED <<startPc, helperAt, runtimeDir, mounted, lost, field, helperGroup, infraCtx,
                     handler, early, stopOnce, stopperPc, failure>>
  BY DEF KillTimesOut, HelperDone, InStop, startVars, fileVars, handlerVars
<1>2. HelpersAge /\ turn # <<>>
  BY <1>1, SameHelpers, HelperBeingStopped DEF OfAHelper
<1>3. ~early => ~Ours(helperGroup'[Last(turn)]) \/ helperGroup'[Last(turn)].killed
  BY <1>1 DEF InfraInv, OrderlyInv
<1> QED
  BY <1>1, <1>2, <1>3, HelperDoneKeeps

\* The directory goes, or its failure to go is kept.
LEMMA StopEndsKeep ==
    ASSUME InfraInv, (VerifyUnmounted /\ mounted) \/ RemoveRuntime
    PROVE  InfraInv'
<1>1. /\ stopOnce = "running" /\ stopAt \in {"verify", "remove"} /\ stopAt' = "publish"
      /\ runtimeDir' # "present" \/ failure'
      /\ runtimeDir' = runtimeDir \/ runtimeDir' = "removed"
      /\ lost' => lost \/ (stopAt = "remove" /\ mounted)
      /\ UNCHANGED <<startPc, helperAt, mounted, field, helperGroup, infraCtx, handler, early,
                     stopOnce, stopperPc, turn>>
  <2> USE DEF InStop, startVars, fileVars, handlerVars
  <2>1. CASE VerifyUnmounted /\ mounted
    BY <2>1 DEF VerifyUnmounted, MayRemove
  <2>2. CASE RemoveRuntime
    BY <2>2 DEF RemoveRuntime
  <2> QED
    BY <2>1, <2>2
<1>2. turn = <<>>
  BY <1>1 DEF InfraInv, StopInv
<1>3. InfraTypes'
  BY <1>1 DEF InfraInv, InfraTypes
<1>4. StartInv'
  BY <1>1 DEF InfraInv, StartInv
<1>5. StopInv'
  BY <1>1, <1>2 DEF InfraInv, StopInv, OfAHelper
<1>6. OrderlyInv'
  BY <1>1 DEF InfraInv, OrderlyInv
<1> QED
  BY <1>3, <1>4, <1>5, <1>6 DEF InfraInv

LEMMA PublishStopKeeps ==
    ASSUME InfraInv, NEW c \in StopCalls, PublishStop(c)
    PROVE  InfraInv'
<1>1. /\ stopOnce = "running" /\ stopAt = "publish" /\ stopOnce' = "done"
      /\ stopperPc' = [stopperPc EXCEPT ![c] = "returned"]
      /\ UNCHANGED <<startPc, helperAt, runtimeDir, mounted, lost, field, helperGroup, infraCtx,
                     handler, early, stopAt, turn, failure>>
  BY DEF PublishStop, InStop, startVars, fileVars, handlerVars
<1>2. InfraTypes'
  BY <1>1 DEF InfraInv, InfraTypes
<1>3. StartInv' /\ OrderlyInv'
  BY <1>1 DEF InfraInv, StartInv, OrderlyInv
<1>4. StopInv'
  BY <1>1 DEF InfraInv, StopInv
<1> QED
  BY <1>2, <1>3, <1>4 DEF InfraInv

LEMMA InfraStutters ==
    ASSUME InfraInv, StartupCancelled \/ UNCHANGED infraVars
    PROVE  InfraInv'
<1>1. UNCHANGED <<startPc, helperAt, runtimeDir, mounted, lost, field, helperGroup, infraCtx,
                  handler, early, stopOnce, stopperPc, stopAt, turn, failure>>
  BY DEF StartupCancelled, infraVars, startVars, fileVars, handlerVars, stopVars
<1>2. InfraTypes' /\ StartInv'
  BY <1>1 DEF InfraInv, InfraTypes, StartInv
<1>3. StopInv' /\ OrderlyInv'
  BY <1>1 DEF InfraInv, StopInv, OrderlyInv
<1> QED
  BY <1>2, <1>3 DEF InfraInv

LEMMA InfraSteps ==
    ASSUME InfraInv, [InfraNext]_infraVars
    PROVE  InfraInv'
<1>1. CASE StartStep
  BY <1>1, StartsKeep, PrepareDirsKeeps, ForkKeeps, AssignKeeps, StartupFailsKeeps DEF StartStep
<1>2. CASE StopBody
  <2>1. CASE \E c \in StopCalls : PublishStop(c)
    BY <2>1, PublishStopKeeps
  <2>2. CASE Unregister \/ CancelInfra \/ UnmountSubdirs \/ VerifyUnmounted \/ RemoveRuntime
    BY <2>2, StopBeginsKeeps, StopEndsKeep
  <2>3. CASE TermHelper \/ KillHelper \/ LeaderReaped \/ TermTimesOut
    BY <2>3, StopSignalsKeep, StopWaitsKeep
  <2>4. CASE LookAtHelper \/ LookAtGroup \/ KillTimesOut
    BY <2>4, LookAtHelperKeeps, LookAtGroupKeeps, KillTimesOutKeeps
  <2> QED
    BY <1>2, <2>1, <2>2, <2>3, <2>4 DEF StopBody
<1>3. CASE HandlerWakes \/ HandlerEnds
  BY <1>3, HandlerKeeps
<1>4. CASE \E p \in Procs : HelperMovesOn(p) \/ ContextKills(p) \/ ReapHelper(p) \/ HelperMounts(p)
  BY <1>4, HelpersKeep, HelperMountsKeeps
<1>5. CASE \E c \in StopCalls : CallStop(c) \/ JoinStop(c)
  BY <1>5, StopCallsKeep
<1>6. CASE StartupCancelled \/ UNCHANGED infraVars
  BY <1>6, InfraStutters
<1> QED
  BY <1>1, <1>2, <1>3, <1>4, <1>5, <1>6 DEF InfraNext

\* The invariant of startSession, the signal handler and stop together
\* (session_infra.go).
THEOREM InfraHolds == InfraSpec => []InfraInv
<1>1. InfraInit => InfraInv
  BY InfraInitially
<1>2. InfraInv /\ [InfraNext]_infraVars => InfraInv'
  BY InfraSteps
<1> QED
  BY <1>1, <1>2, PTL DEF InfraSpec

\* stop reaches every helper that startup has started, and the runtime
\* directory goes last, for any helpers and any number of calls of stop.
THEOREM RuntimeIsLast == InfraSpec => []RuntimeGoesLast
<1>1. InfraInv => RuntimeGoesLast
  <2> SUFFICES ASSUME InfraInv PROVE RuntimeGoesLast
    OBVIOUS
  <2>1. \A p \in Procs : Ours(helperGroup[p]) => ~Untouched(helperGroup[p])
    BY DEF InfraInv, InfraTypes, Ours, Untouched, Groups
  <2>2. StopReachesAll
    <3> SUFFICES ASSUME ~early, NEW c \in StopCalls, stopperPc[c] = "returned", ~Starting,
                        NEW p \in Procs, Ours(helperGroup[p])
                 PROVE  helperGroup[p].killed
      BY DEF StopReachesAll
    <3>1. turn = <<>>
      BY DEF InfraInv, StopInv
    <3>2. p \in field /\ p \notin ToSet(turn)
      BY <2>1, <3>1 DEF InfraInv, StartInv, Starting, ToSet
    <3> QED
      BY <3>2 DEF InfraInv, OrderlyInv
  <2>3. DirectoryGoesLast
    <3>1. ASSUME ~early, runtimeDir = "removed", field # {}
          PROVE  ~lost /\ \A p \in field : Ours(helperGroup[p]) => helperGroup[p].killed
      <4>1. ToSet(turn) = {}
        BY <3>1 DEF InfraInv, StopInv, ToSet
      <4> QED
        BY <3>1, <4>1 DEF InfraInv, OrderlyInv
    <3>2. startPc = "failed" => runtimeDir # "present" \/ failure
      BY DEF InfraInv, StopInv
    <3> QED
      BY <3>1, <3>2 DEF DirectoryGoesLast
  <2> QED
    BY <2>2, <2>3 DEF RuntimeGoesLast
<1> QED
  BY <1>1, InfraHolds, PTL

-----------------------------------------------------------------------------
(* The cleanup of stale sessions.                                          *)

Scanning == {"list", "next", "stat", "child", "grace", "postkill", "mounts", "unmount",
             "verify", "remove"}
Pcs == Scanning \cup {"idle", "done", "failed", "release"}
Reaping == {"child", "grace", "postkill", "mounts", "unmount", "verify", "remove"}
CallRecords ==
    [pc : Pcs, mine : Nat, start : Nat, now : Nat,
     todo : Seq(AllDirs), limit : Nat, tracked : BOOLEAN, dead : SUBSET AllDirs,
     cancelled : BOOLEAN]
DirRecords ==
    [state : {"absent", "present"}, file : {"none", "empty", "pid", "removed"},
     owner : {"none", "nobody", "alive", "dead"}, mtime : Nat, mounted : BOOLEAN]
HelperRecords ==
    [leader : BOOLEAN, kid : BOOLEAN, stranger : BOOLEAN, recorded : BOOLEAN,
     term : BOOLEAN, killed : BOOLEAN]

CleanupTypes ==
    /\ clock \in Nat /\ last \in Nat /\ attempt \in Nat
    /\ call \in [Calls -> CallRecords]
    /\ dir \in [AllDirs -> DirRecords]
    /\ helper \in [AllDirs -> HelperRecords]

-----------------------------------------------------------------------------
(* The rate limit.                                                         *)

\* Attempts are numbered, and the one that has the claim is the last.
ClaimInv ==
    /\ clock >= Interval
    /\ \A c \in Calls :
          /\ call[c].mine <= attempt /\ call[c].start <= clock
          /\ call[c].pc \in Scanning \cup {"release"} => call[c].mine > 0
          /\ call[c].pc = "idle" => call[c].mine = 0
    /\ \A a, b \in Calls : call[a].mine > 0 /\ call[a].mine = call[b].mine => a = b

\* The next scan to start is spaced from every one that has not failed.
SpacingInv ==
    \A a \in Calls : call[a].mine > 0 /\ call[a].pc # "failed" =>
        IF last = Never THEN clock - call[a].start >= Interval ELSE call[a].start <= last

-----------------------------------------------------------------------------
(* The directories.                                                        *)

\* A living owner has its directory and fills its pid file within the grace; only
\* a dead owner's helper has been signalled.
OwnerInv ==
    \A d \in AllDirs :
        /\ dir[d].state = "present" => dir[d].owner \in {"alive", "dead"}
        /\ dir[d].mtime <= clock
        /\ dir[d].owner # "dead" => ~helper[d].term
        /\ dir[d].owner = "alive" =>
              /\ dir[d].state = "present" /\ dir[d].file # "removed"
              /\ dir[d].file # "pid" => clock <= dir[d].mtime + Grace

\* A pid is a stranger's only after the helper's group is gone.
PidInv ==
    /\ struck = {}
    /\ \A d \in AllDirs : helper[d].stranger => ~helper[d].leader /\ ~helper[d].kid

\* A directory of the user's own that a scan may reap
Doomed(d) == d \notin Foreign => dir[d].owner = "dead"

\* What is true of the directory at each step of a scan.
ScanOf(c) ==
    /\ call[c].now <= clock
    /\ call[c].pc \in Scanning \ {"list", "next"} => call[c].todo # <<>>
    /\ call[c].pc = "stat" =>
          /\ call[c].limit >= Grace
          /\ Here(c) \notin Foreign /\ dir[Here(c)].owner = "alive" =>
                call[c].now <= dir[Here(c)].mtime + Grace
    /\ call[c].pc \in Reaping => Doomed(Here(c))
    /\ call[c].pc \in {"grace", "postkill"} => Here(c) \notin Foreign

ScanInv == \A c \in Calls : ScanOf(c)

\* A scan about to remove a directory knows of all that is mounted there unless it
\* was mounted since.
MissedInv ==
    \A c \in Calls : call[c].pc = "remove" /\ dir[Here(c)].mounted
                     => <<c, Here(c)>> \in missed

ClaimsInv == ClaimInv /\ ScansAreSpaced /\ SpacingInv
DirsInv == OwnerInv /\ PidInv /\ ScanInv
CleanupInv == CleanupTypes /\ ClaimsInv /\ DirsInv /\ MissedInv

\* What no step undoes: a death, and how young the directory of a living owner is.
Stable(d) ==
    /\ dir[d].owner = "dead" => dir'[d].owner = "dead"
    /\ dir'[d].owner = "alive" =>
          IF dir[d].owner = "alive" THEN dir'[d].mtime >= dir[d].mtime ELSE dir'[d].mtime >= clock

\* One call moves and keeps its attempt.
Moved(c) ==
    /\ call' \in [Calls -> CallRecords]
    /\ \A k \in Calls \ {c} : call'[k] = call[k]
    /\ call'[c].mine = call[c].mine /\ call'[c].start = call[c].start

-----------------------------------------------------------------------------
\* Nobody has claimed and no directory is there.
LEMMA InitInv == ASSUME CleanupInit PROVE CleanupInv
  <1> USE CleanupAssumption
  <1>1. /\ Idle \in CallRecords /\ NotMade \in CallRecords /\ Idle.mine = 0 /\ NotMade.mine = 0
        /\ Idle.pc = "idle" /\ NotMade.pc = "done" /\ Idle.now = 0 /\ NotMade.now = 0
        /\ Idle.start = 0 /\ NotMade.start = 0
    <2>1. <<>> \in Seq(AllDirs) /\ {} \in SUBSET AllDirs
      OBVIOUS
    <2>2. {"idle", "done"} \subseteq Pcs
      BY DEF Pcs
    <2> QED BY <2>1, <2>2 DEF Idle, NotMade, CallRecords
  <1>2. /\ Absent \in DirRecords /\ NeverThere \in DirRecords
        /\ Absent.state = "absent" /\ NeverThere.state = "absent"
        /\ Absent.owner = "none" /\ NeverThere.owner = "nobody"
        /\ Absent.mtime = 0 /\ NeverThere.mtime = 0
    BY DEF Absent, NeverThere, DirRecords
  <1>3. NoHelper \in HelperRecords /\ ~NoHelper.stranger /\ ~NoHelper.term
    BY DEF NoHelper, HelperRecords
  <1>4. CleanupTypes
    BY <1>1, <1>2, <1>3 DEF CleanupInit, CleanupTypes, Never
  <1>5. \A c \in Calls : call[c] \in {Idle, NotMade}
    BY DEF CleanupInit
  <1>6. \A d \in AllDirs : dir[d] \in {Absent, NeverThere} /\ helper[d] = NoHelper
    BY DEF CleanupInit
  <1>7. ClaimsInv
    BY <1>1, <1>4, <1>5 DEF CleanupInit, ClaimsInv, ClaimInv, ScansAreSpaced, SpacingInv, Scanning, CleanupTypes
  <1>8. DirsInv
    BY <1>1, <1>2, <1>3, <1>4, <1>5, <1>6 DEF CleanupInit, DirsInv, OwnerInv, PidInv, ScanInv, ScanOf,
       Scanning, Reaping, CleanupTypes
  <1>9. MissedInv
    BY <1>1, <1>5 DEF MissedInv
  <1> QED BY <1>4, <1>7, <1>8, <1>9 DEF CleanupInv

\* A call that stays where it is keeps what is true of its directory.
LEMMA CallStays ==
    ASSUME CleanupTypes, CleanupTypes', NEW c \in Calls, ScanOf(c),
           \A d \in AllDirs : Stable(d), clock' >= clock,
           call'[c].pc = call[c].pc, call'[c].todo = call[c].todo,
           call'[c].limit = call[c].limit, call'[c].now = call[c].now
    PROVE  ScanOf(c)'
  <1>1. call[c] \in CallRecords /\ clock \in Nat /\ clock' \in Nat /\ Grace \in Nat
    BY CleanupAssumption DEF CleanupTypes
  <1>2. call'[c].now <= clock'
    BY <1>1 DEF ScanOf, CallRecords
  <1>3. CASE call[c].pc \notin Scanning \ {"list", "next"}
    BY <1>2, <1>3 DEF ScanOf, Scanning, Reaping
  <1>4. CASE call[c].pc \in Scanning \ {"list", "next"}
    <2>1. call[c].todo # <<>> /\ Here(c)' = Here(c)
      BY <1>4 DEF ScanOf, Here
    <2>2. PICK d \in AllDirs : d = Here(c)
      BY <1>1, <2>1 DEF Here, CallRecords
    <2>3. Doomed(d) => Doomed(d)'
      BY <2>2 DEF Stable, Doomed
    <2>5. call[c].pc = "stat" /\ d \notin Foreign /\ dir'[d].owner = "alive" =>
             call[c].now <= dir'[d].mtime + Grace
      <3> SUFFICES ASSUME call[c].pc = "stat", d \notin Foreign, dir'[d].owner = "alive"
                   PROVE  call[c].now <= dir'[d].mtime + Grace
        OBVIOUS
      <3>1. dir[d].mtime \in Nat /\ dir'[d].mtime \in Nat /\ call[c].now \in Nat /\ Grace \in Nat
        BY <1>1, <2>2 DEF CleanupTypes, DirRecords, CallRecords
      <3>2. CASE dir[d].owner = "alive"
        <4>1. call[c].now <= dir[d].mtime + Grace
          BY <2>2, <3>2 DEF ScanOf
        <4>2. dir'[d].mtime >= dir[d].mtime
          BY <3>2 DEF Stable
        <4> QED BY <3>1, <4>1, <4>2
      <3>3. CASE dir[d].owner # "alive"
        <4>1. call[c].now <= clock
          BY DEF ScanOf
        <4>2. dir'[d].mtime >= clock
          BY <3>3 DEF Stable
        <4> QED BY <1>1, <3>1, <4>1, <4>2
      <3> QED BY <3>2, <3>3
    <2> QED BY <1>2, <2>1, <2>2, <2>3, <2>5 DEF ScanOf
  <1> QED BY <1>3, <1>4

-----------------------------------------------------------------------------
(* What the steps of a scan do to the call.                                *)

LEMMA GotoMoves ==
    ASSUME CleanupTypes, NEW c \in Calls, NEW l \in Pcs, Goto(c, l)
    PROVE  /\ Moved(c) /\ call'[c].pc = l /\ call'[c].todo = call[c].todo
           /\ call'[c].limit = call[c].limit /\ call'[c].now = call[c].now
  <1>1. call[c] \in CallRecords /\ call' = [call EXCEPT ![c] = [call[c] EXCEPT !.pc = l]]
    BY DEF CleanupTypes, Goto
  <1>2. [call[c] EXCEPT !.pc = l] \in CallRecords
    BY <1>1 DEF CallRecords
  <1> QED BY <1>1, <1>2 DEF CleanupTypes, Moved, CallRecords

LEMMA SkipMoves ==
    ASSUME CleanupTypes, NEW c \in Calls, call[c].todo # <<>>, Skipped(c)
    PROVE  Moved(c) /\ call'[c].pc = "next" /\ call'[c].now = call[c].now
  <1> DEFINE r == [call[c] EXCEPT !.pc = "next", !.todo = Tail(@), !.limit = 0, !.tracked = FALSE]
  <1>1. call[c] \in CallRecords /\ call' = [call EXCEPT ![c] = r]
    BY DEF CleanupTypes, Skipped
  <1>2. Tail(call[c].todo) \in Seq(AllDirs) /\ "next" \in Pcs
    BY <1>1 DEF CallRecords, Pcs, Scanning
  <1>3. r \in CallRecords
    BY <1>1, <1>2 DEF CallRecords
  <1>4. r.mine = call[c].mine /\ r.start = call[c].start /\ r.pc = "next" /\ r.now = call[c].now
    BY <1>1 DEF CallRecords
  <1> QED BY <1>1, <1>3, <1>4 DEF CleanupTypes, Moved

LEMMA TrackMoves ==
    ASSUME CleanupTypes, NEW c \in Calls, NEW l \in Pcs, NEW b \in BOOLEAN,
           call' = [call EXCEPT ![c].pc = l, ![c].tracked = b]
    PROVE  /\ Moved(c) /\ call'[c].pc = l /\ call'[c].todo = call[c].todo
           /\ call'[c].limit = call[c].limit /\ call'[c].now = call[c].now
  <1> DEFINE r == [call[c] EXCEPT !.pc = l, !.tracked = b]
  <1>1. call[c] \in CallRecords /\ call' = [call EXCEPT ![c] = r]
    BY DEF CleanupTypes
  <1>2. r \in CallRecords
    BY <1>1 DEF CallRecords
  <1>3. /\ r.mine = call[c].mine /\ r.start = call[c].start /\ r.pc = l /\ r.now = call[c].now
        /\ r.todo = call[c].todo /\ r.limit = call[c].limit
    BY <1>1 DEF CallRecords
  <1> QED BY <1>1, <1>2, <1>3 DEF CleanupTypes, Moved

\* A call that moves to where nothing is claimed of its directory
LEMMA CallLeaves ==
    ASSUME CleanupTypes, CleanupTypes', NEW c \in Calls, ScanOf(c), UNCHANGED clock, call'[c].now = call[c].now,
           call'[c].pc \in {"next", "release", "done", "failed"}
    PROVE  ScanOf(c)'
  BY DEF ScanOf, Scanning, Reaping

\* A step that leaves the directories as they are, and one that fails
LEMMA QuietStep ==
    ASSUME UNCHANGED <<clock, dir, helper>>, CleanupTypes PROVE \A d \in AllDirs : Stable(d)
  <1> SUFFICES ASSUME NEW d \in AllDirs PROVE Stable(d)
    OBVIOUS
  <1>1. dir[d].mtime \in Nat /\ dir[d] \in DirRecords
    BY DEF CleanupTypes, DirRecords
  <1> QED BY <1>1 DEF Stable

\* A scan that moves one call, and changes a directory or a helper only in a way
\* that is stable: what has to be shown is what it claims of its own directory.
LEMMA ScanKeeps ==
    ASSUME CleanupTypes, DirsInv, NEW c \in Calls, Moved(c),
           UNCHANGED <<clock, last, attempt>>,
           dir' \in [AllDirs -> DirRecords], helper' \in [AllDirs -> HelperRecords],
           \A d \in AllDirs : Stable(d), CleanupTypes' => ScanOf(c)'
    PROVE  CleanupTypes' /\ ScanInv'
  <1>1. CleanupTypes'
    BY DEF CleanupTypes, Moved
  <1>2. \A k \in Calls \ {c} : ScanOf(k)'
    BY <1>1, CallStays DEF DirsInv, ScanInv, Moved, CleanupTypes
  <1> QED BY <1>1, <1>2 DEF ScanInv

\* What a step of a scan leaves behind
Kept(c) ==
    /\ CleanupTypes' /\ DirsInv' /\ Moved(c) /\ UNCHANGED <<clock, last, attempt>>
    /\ call[c].pc \in Scanning /\ call'[c].pc \in Scanning \cup {"release", "done"}

LEMMA Looking ==
    ASSUME CleanupInv, NEW c \in Calls, Moved(c),
           UNCHANGED <<clock, last, attempt, dir, helper, struck>>,
           call[c].pc \in Scanning, call'[c].pc \in Scanning \cup {"release", "done"},
           CleanupTypes' => ScanOf(c)'
    PROVE  Kept(c)
  <1>1. CleanupTypes' /\ ScanInv'
    BY QuietStep, ScanKeeps DEF CleanupInv, CleanupTypes
  <1>2. OwnerInv' /\ PidInv'
    BY DEF CleanupInv, DirsInv, OwnerInv, PidInv
  <1> QED BY <1>1, <1>2 DEF Kept, DirsInv

\* The context has ended: the scan gives up.
LEMMA StopsKept ==
    ASSUME CleanupInv, NEW c \in Calls, call[c].pc \in Scanning, Stops(c),
           UNCHANGED <<clock, last, attempt, struck>>
    PROVE  Kept(c)
  <1>1. Goto(c, "release") /\ UNCHANGED <<dir, helper>> /\ "release" \in Pcs
    BY DEF Stops, Pcs
  <1>2. Moved(c) /\ call'[c].pc = "release" /\ call'[c].now = call[c].now
    BY <1>1, GotoMoves DEF CleanupInv
  <1>3. CleanupTypes' => ScanOf(c)'
    BY <1>2, CallLeaves DEF CleanupInv, DirsInv, ScanInv
  <1> QED BY <1>1, <1>2, <1>3, Looking

\* A scan that moves on without touching anything
LEMMA GotoKept ==
    ASSUME CleanupInv, NEW c \in Calls, call[c].pc \in Scanning,
           NEW l \in Scanning \cup {"release", "done"}, Goto(c, l),
           UNCHANGED <<clock, last, attempt, dir, helper, struck>>,
           \/ l \in {"release", "done"}
           \/ /\ call[c].todo # <<>>
              /\ l \in Reaping \ {"grace", "postkill"} /\ Doomed(Here(c))
    PROVE  Kept(c)
  <1>1. /\ Moved(c) /\ call'[c].pc = l /\ call'[c].todo = call[c].todo
        /\ call'[c].limit = call[c].limit /\ call'[c].now = call[c].now
    BY GotoMoves DEF CleanupInv, Pcs
  <1>2. ASSUME CleanupTypes' PROVE ScanOf(c)'
    <2>1. CASE l \in {"release", "done"}
      BY <1>1, <1>2, <2>1, CallLeaves DEF CleanupInv, DirsInv, ScanInv
    <2>2. CASE l \notin {"release", "done"}
      <3>1. Here(c)' = Here(c) /\ call[c].now <= clock
        BY <1>1 DEF Here, CleanupInv, DirsInv, ScanInv, ScanOf
      <3>2. Doomed(Here(c))' = Doomed(Here(c))
        BY <3>1 DEF Doomed
      <3> QED BY <1>1, <2>2, <3>1, <3>2 DEF ScanOf, Reaping
    <2> QED BY <2>1, <2>2
  <1> QED BY <1>1, <1>2, Looking

LEMMA SkipKept ==
    ASSUME CleanupInv, NEW c \in Calls, call[c].pc \in Scanning, call[c].todo # <<>>,
           Skipped(c), UNCHANGED <<clock, last, attempt, dir, helper, struck>>
    PROVE  Kept(c)
  <1>1. Moved(c) /\ call'[c].pc = "next" /\ call'[c].now = call[c].now
    BY SkipMoves DEF CleanupInv
  <1>2. CleanupTypes' => ScanOf(c)'
    BY <1>1, CallLeaves DEF CleanupInv, DirsInv, ScanInv
  <1> QED BY <1>1, <1>2, Looking DEF Scanning

-----------------------------------------------------------------------------
(* The steps of a scan.                                                    *)

\* The listing is made of directories, and what is listed is not decided yet.
LEMMA ListKept == ASSUME CleanupInv, NEW c \in Calls, List(c) PROVE Kept(c)
  <1>1. UNCHANGED <<clock, last, attempt, dir, helper, struck>> /\ call[c].pc = "list"
    BY DEF List, Stops
  <1>2. CASE Stops(c)
    BY <1>1, <1>2, StopsKept DEF Scanning
  <1>3. CASE ~Stops(c)
    <2>1. PICK n \in 0..Len(Dirs) : \E found \in [1..n -> Present] :
             call' = [call EXCEPT ![c].pc = "next", ![c].now = clock, ![c].todo = found,
                                  ![c].dead = {d \in Present : dir[d].file = "pid"
                                                               /\ dir[d].owner = "dead"}]
      BY <1>3 DEF List
    <2>2. PICK found \in [1..n -> Present] :
             call' = [call EXCEPT ![c].pc = "next", ![c].now = clock, ![c].todo = found,
                                  ![c].dead = {d \in Present : dir[d].file = "pid"
                                                               /\ dir[d].owner = "dead"}]
      BY <2>1
    <2> DEFINE gone == {d \in Present : dir[d].file = "pid" /\ dir[d].owner = "dead"}
               r == [call[c] EXCEPT !.pc = "next", !.now = clock, !.todo = found, !.dead = gone]
    <2>3. gone \in SUBSET AllDirs /\ Present \subseteq AllDirs
      BY DEF Present
    <2>4. n \in Nat
      BY <2>1, CleanupAssumption
    <2>5. found \in Seq(AllDirs)
      BY <2>3, <2>4
    <2>6. call[c] \in CallRecords /\ clock \in Nat /\ "next" \in Pcs
      BY DEF CleanupInv, CleanupTypes, Pcs, Scanning
    <2>7. r \in CallRecords
      BY <2>3, <2>5, <2>6 DEF CallRecords
    <2>8. r.pc = "next" /\ r.now = clock /\ r.mine = call[c].mine /\ r.start = call[c].start
      BY <2>6 DEF CallRecords
    <2>9. call' = [call EXCEPT ![c] = r]
      BY <2>2 DEF CleanupInv, CleanupTypes
    <2>10. Moved(c) /\ call'[c].pc = "next" /\ call'[c].now = clock
      BY <2>7, <2>8, <2>9 DEF Moved, CleanupInv, CleanupTypes
    <2>11. ScanOf(c)'
      BY <1>1, <2>6, <2>10 DEF ScanOf, Scanning, Reaping
    <2> QED BY <1>1, <2>10, <2>11, Looking DEF Scanning
  <1> QED BY <1>2, <1>3

LEMMA ScanEndsKept == ASSUME CleanupInv, NEW c \in Calls, ScanEnds(c) PROVE Kept(c)
  BY GotoKept DEF ScanEnds, Scanning

\* The directory at hand is one of the directories.
LEMMA HereIsADir ==
    ASSUME CleanupTypes, NEW c \in Calls, call[c].todo # <<>>
    PROVE  /\ Here(c) \in AllDirs /\ dir[Here(c)] \in DirRecords /\ helper[Here(c)] \in HelperRecords
           /\ dir[Here(c)].mtime \in Nat /\ call[c].now \in Nat /\ call[c].limit \in Nat
  BY DEF CleanupTypes, CallRecords, DirRecords, Here

\* A directory without a valid owner is looked at again unless it is doomed: an
\* owner that starts up has been quick so far.
LEMMA LookKept == ASSUME CleanupInv, NEW c \in Calls, Look(c) PROVE Kept(c)
  <1> DEFINE d == Here(c)
             file == OwnerFile(d)
  <1>1. /\ UNCHANGED <<clock, last, attempt, dir, helper, struck>>
        /\ call[c].pc = "next" /\ call[c].todo # <<>>
    BY DEF Look, Stops
  <1>2. d \in AllDirs /\ dir[d] \in DirRecords /\ dir[d].mtime \in Nat /\ call[c].now \in Nat
    BY <1>1, HereIsADir DEF CleanupInv
  <1>3. CASE Stops(c)
    BY <1>1, <1>3, StopsKept DEF Scanning
  <1>4. CASE file # "pid" /\ call' = [call EXCEPT ![c].pc = "stat", ![c].limit = Threshold(file)]
    <2> DEFINE r == [call[c] EXCEPT !.pc = "stat", !.limit = Threshold(file)]
    <2>1. Threshold(file) \in Nat /\ Threshold(file) >= Grace /\ Grace \in Nat /\ clock \in Nat
      BY CleanupAssumption DEF Threshold, CleanupInv, CleanupTypes
    <2>2. call[c] \in CallRecords /\ call' = [call EXCEPT ![c] = r] /\ "stat" \in Pcs
      BY <1>4 DEF CleanupInv, CleanupTypes, Pcs, Scanning
    <2>3. r \in CallRecords
      BY <2>1, <2>2 DEF CallRecords
    <2>4. /\ r.pc = "stat" /\ r.now = call[c].now /\ r.mine = call[c].mine /\ r.start = call[c].start
          /\ r.todo = call[c].todo /\ r.limit = Threshold(file)
      BY <2>2 DEF CallRecords
    <2>5. Moved(c) /\ call'[c] = r
      BY <2>2, <2>3, <2>4 DEF Moved, CleanupInv, CleanupTypes
    <2>6. call[c].now <= clock
      BY DEF CleanupInv, DirsInv, ScanInv, ScanOf
    <2>7. d \notin Foreign /\ dir[d].owner = "alive" => call[c].now <= dir[d].mtime + Grace
      <3> SUFFICES ASSUME d \notin Foreign, dir[d].owner = "alive"
                   PROVE  call[c].now <= dir[d].mtime + Grace
        OBVIOUS
      <3>1. dir[d].state = "present"
        BY <1>2 DEF CleanupInv, DirsInv, OwnerInv
      <3>2. dir[d].file # "pid"
        BY <1>4, <3>1 DEF OwnerFile
      <3>3. clock <= dir[d].mtime + Grace
        BY <1>2, <3>2 DEF CleanupInv, DirsInv, OwnerInv
      <3> QED BY <1>2, <2>1, <2>6, <3>3
    <2>8. Here(c)' = d /\ dir'[d] = dir[d]
      BY <1>1, <2>4, <2>5 DEF Here
    <2>9. ScanOf(c)'
      BY <1>1, <2>1, <2>4, <2>5, <2>6, <2>7, <2>8 DEF ScanOf, Reaping
    <2> QED BY <1>1, <2>4, <2>5, <2>9, Looking DEF Scanning
  <1>5. CASE file = "pid" /\ dir[d].owner = "dead" /\ Goto(c, "child")
    <2>1. Doomed(d)
      BY <1>5 DEF Doomed
    <2> QED BY <1>1, <1>5, <2>1, GotoKept DEF Scanning, Reaping
  <1>6. CASE Skipped(c)
    BY <1>1, <1>6, SkipKept DEF Scanning
  <1> QED BY <1>3, <1>4, <1>5, <1>6 DEF Look

\* Only a directory whose owner is dead is old, as ages are measured against the
\* time of the listing.
LEMMA StatKept == ASSUME CleanupInv, NEW c \in Calls, Stat(c) PROVE Kept(c)
  <1> DEFINE d == Here(c)
  <1>1. /\ UNCHANGED <<clock, last, attempt, dir, helper, struck>> /\ call[c].pc = "stat"
    BY DEF Stat, Stops
  <1>2. ScanOf(c)
    BY DEF CleanupInv, DirsInv, ScanInv
  <1>3. call[c].todo # <<>>
    BY <1>1, <1>2 DEF ScanOf, Scanning
  <1>4. /\ d \in AllDirs /\ dir[d] \in DirRecords /\ dir[d].mtime \in Nat /\ call[c].now \in Nat
        /\ call[c].limit \in Nat /\ Grace \in Nat
    BY <1>3, HereIsADir, CleanupAssumption DEF CleanupInv
  <1>5. CASE Stops(c)
    BY <1>1, <1>5, StopsKept DEF Scanning
  <1>6. CASE /\ dir[d].state = "present" /\ call[c].now > dir[d].mtime + call[c].limit
             /\ Goto(c, "child")
    <2>1. call[c].limit >= Grace
      BY <1>1, <1>2 DEF ScanOf
    <2>2. d \notin Foreign => dir[d].owner # "alive"
      <3> SUFFICES ASSUME d \notin Foreign, dir[d].owner = "alive" PROVE FALSE
        OBVIOUS
      <3>1. call[c].now <= dir[d].mtime + Grace
        BY <1>1, <1>2 DEF ScanOf
      <3> QED BY <1>4, <1>6, <2>1, <3>1
    <2>3. dir[d].owner \in {"alive", "dead"}
      BY <1>4, <1>6 DEF CleanupInv, DirsInv, OwnerInv
    <2>4. Doomed(d)
      BY <2>2, <2>3 DEF Doomed
    <2> QED BY <1>1, <1>3, <1>6, <2>4, GotoKept DEF Scanning, Reaping
  <1>7. CASE Skipped(c)
    BY <1>1, <1>3, <1>7, SkipKept DEF Scanning
  <1> QED BY <1>5, <1>6, <1>7 DEF Stat

\* A helper is signalled only where the owner is dead, and never a stranger.
LEMMA StrikeEffect ==
    ASSUME CleanupTypes, OwnerInv, PidInv, NEW d \in AllDirs, NEW signal \in {"term", "kill"},
           Strike(d, signal), dir[d].owner = "dead", ~helper[d].stranger,
           UNCHANGED <<clock, dir>>
    PROVE  /\ helper' \in [AllDirs -> HelperRecords] /\ OwnerInv' /\ PidInv'
           /\ \A e \in AllDirs : Stable(e)
  <1>1. helper[d] \in HelperRecords
    BY DEF CleanupTypes
  <1> DEFINE r == IF signal = "term" THEN [helper[d] EXCEPT !.term = TRUE]
                  ELSE [helper[d] EXCEPT !.term = TRUE, !.killed = TRUE]
  <1>2. /\ r \in HelperRecords /\ r.leader = helper[d].leader /\ r.kid = helper[d].kid
        /\ r.stranger = helper[d].stranger /\ r.recorded = helper[d].recorded
    BY <1>1 DEF HelperRecords
  <1>3. helper' = [helper EXCEPT ![d] = r] /\ struck' = struck
    BY DEF Strike
  <1>4. helper' \in [AllDirs -> HelperRecords] /\ helper'[d] = r
    BY <1>2, <1>3 DEF CleanupTypes
  <1>5. \A e \in AllDirs \ {d} : helper'[e] = helper[e]
    BY <1>3 DEF CleanupTypes
  <1>6. OwnerInv'
    BY <1>5 DEF OwnerInv
  <1>7. PidInv'
    BY <1>2, <1>3, <1>4, <1>5 DEF PidInv
  <1>8. ASSUME NEW e \in AllDirs PROVE Stable(e)
    <2>1. dir[e].mtime \in Nat
      BY DEF CleanupTypes, DirRecords
    <2> QED BY <2>1 DEF Stable
  <1> QED BY <1>2, <1>4, <1>6, <1>7, <1>8

\* The first signal goes to a helper that is identified.
LEMMA TerminateKept == ASSUME CleanupInv, NEW c \in Calls, Terminate(c) PROVE Kept(c)
  <1> DEFINE d == Here(c)
  <1>1. UNCHANGED <<clock, last, attempt, dir>> /\ call[c].pc = "child" /\ CleanupTypes
    BY DEF Terminate, Stops, CleanupInv
  <1>2. call[c].todo # <<>> /\ Doomed(d) /\ call[c].now <= clock
    BY <1>1 DEF ScanOf, Scanning, Reaping, CleanupInv, DirsInv, ScanInv
  <1>3. d \in AllDirs /\ helper[d] \in HelperRecords
    BY <1>1, <1>2, HereIsADir
  <1>4. CASE Stops(c) /\ UNCHANGED struck
    BY <1>1, <1>4, StopsKept DEF Scanning
  <1>5. CASE ~Identified(d) /\ Goto(c, "mounts") /\ UNCHANGED <<helper, struck>>
    BY <1>1, <1>2, <1>5, GotoKept DEF Scanning, Reaping
  <1>6. CASE /\ Identified(d) /\ Strike(d, "term")
             /\ call' = [call EXCEPT ![c].pc = "grace", ![c].tracked = Tracked(c)]
    <2>1. Tracked(c) \in BOOLEAN /\ "grace" \in Pcs
      BY <1>1, <1>3 DEF Tracked, CleanupTypes, CallRecords, HelperRecords, Pcs, Scanning
    <2>2. Moved(c) /\ call'[c].pc = "grace" /\ call'[c].todo = call[c].todo /\ call'[c].now = call[c].now
      BY <1>1, <1>6, <2>1, TrackMoves
    <2>3. d \notin Foreign /\ dir[d].owner = "dead" /\ ~helper[d].stranger
      BY <1>2, <1>3, <1>6 DEF Identified, Doomed, CleanupInv, DirsInv, PidInv
    <2>4. /\ helper' \in [AllDirs -> HelperRecords] /\ OwnerInv' /\ PidInv'
          /\ \A e \in AllDirs : Stable(e)
      BY <1>1, <1>3, <1>6, <2>3, StrikeEffect DEF CleanupInv, DirsInv
    <2>5. ScanOf(c)'
      BY <1>1, <1>2, <2>2, <2>3 DEF ScanOf, Reaping, Here, Doomed
    <2>6. CleanupTypes' /\ ScanInv'
      BY <1>1, <2>2, <2>4, <2>5, ScanKeeps DEF CleanupInv, CleanupTypes
    <2> QED BY <1>1, <2>2, <2>4, <2>6 DEF Kept, DirsInv, Scanning
  <1> QED BY <1>4, <1>5, <1>6 DEF Terminate

\* Where the helper's group is waited for, the owner is dead.
LEMMA WaitingIsDoomed ==
    ASSUME CleanupInv, NEW c \in Calls, call[c].pc \in {"grace", "postkill"}
    PROVE  /\ call[c].todo # <<>> /\ Here(c) \in AllDirs /\ call[c].now <= clock
           /\ Here(c) \notin Foreign /\ dir[Here(c)].owner = "dead" /\ Doomed(Here(c))
  <1>1. /\ call[c].todo # <<>> /\ Doomed(Here(c)) /\ Here(c) \notin Foreign /\ call[c].now <= clock
    BY DEF ScanOf, Scanning, Reaping, CleanupInv, DirsInv, ScanInv
  <1>2. Here(c) \in AllDirs
    BY <1>1, HereIsADir DEF CleanupInv
  <1> QED BY <1>1, <1>2 DEF Doomed

LEMMA WaitTurnKept == ASSUME CleanupInv, NEW c \in Calls, WaitTurn(c) PROVE Kept(c)
  <1>1. /\ UNCHANGED <<clock, last, attempt, dir, helper, struck>> /\ CleanupTypes
        /\ call[c].pc \in {"grace", "postkill"}
    BY DEF WaitTurn, Stops, CleanupInv
  <1>2. CASE Stops(c)
    BY <1>1, <1>2, StopsKept DEF Scanning
  <1>3. CASE /\ ~(HelperAlive(helper[Here(c)]) /\ Refresh(c)) /\ Goto(c, "mounts")
    BY <1>1, <1>3, WaitingIsDoomed, GotoKept DEF Scanning, Reaping
  <1>4. CASE call' = [call EXCEPT ![c].tracked = Tracked(c)]
    <2>1. Here(c) \in AllDirs
      BY <1>1, WaitingIsDoomed
    <2>2. Tracked(c) \in BOOLEAN /\ call[c].pc \in Pcs /\ call[c] \in CallRecords
      BY <1>1, <2>1 DEF Tracked, CleanupTypes, CallRecords, HelperRecords
    <2>3. call' = [call EXCEPT ![c].pc = call[c].pc, ![c].tracked = Tracked(c)]
      <3>1. call' = [call EXCEPT ![c] = [call[c] EXCEPT !.tracked = Tracked(c)]]
        BY <1>1, <1>4 DEF CleanupTypes
      <3>2. [call[c] EXCEPT !.tracked = Tracked(c)] = [call[c] EXCEPT !.pc = call[c].pc, !.tracked = Tracked(c)]
        BY <2>2 DEF CallRecords
      <3> QED BY <1>1, <3>1, <3>2 DEF CleanupTypes
    <2>4. /\ Moved(c) /\ call'[c].pc = call[c].pc /\ call'[c].todo = call[c].todo
          /\ call'[c].limit = call[c].limit /\ call'[c].now = call[c].now
      BY <1>1, <2>2, <2>3, TrackMoves
    <2>5. \A e \in AllDirs : Stable(e)
      BY <1>1, QuietStep
    <2>6. CleanupTypes' => ScanOf(c)'
      <3>1. clock' >= clock /\ ScanOf(c)
        BY <1>1 DEF CleanupTypes, CleanupInv, DirsInv, ScanInv
      <3> QED BY <1>1, <2>4, <2>5, <3>1, CallStays
    <2> QED BY <1>1, <2>4, <2>6, Looking DEF Scanning
  <1> QED BY <1>2, <1>3, <1>4 DEF WaitTurn

\* The second signal, after another look.
LEMMA EscalateKept == ASSUME CleanupInv, NEW c \in Calls, Escalate(c) PROVE Kept(c)
  <1> DEFINE d == Here(c)
  <1>1. UNCHANGED <<clock, last, attempt, dir>> /\ call[c].pc = "grace" /\ CleanupTypes
    BY DEF Escalate, Stops, CleanupInv
  <1>2. /\ call[c].todo # <<>> /\ d \in AllDirs /\ call[c].now <= clock
        /\ d \notin Foreign /\ dir[d].owner = "dead" /\ Doomed(d)
    BY <1>1, WaitingIsDoomed
  <1>3. CASE Stops(c) /\ UNCHANGED struck
    BY <1>1, <1>3, StopsKept DEF Scanning
  <1>4. CASE ~(HelperAlive(helper[d]) /\ Refresh(c)) /\ Goto(c, "mounts") /\ UNCHANGED <<helper, struck>>
    BY <1>1, <1>2, <1>4, GotoKept DEF Scanning, Reaping
  <1>5. CASE /\ Refresh(c) /\ Strike(d, "kill")
             /\ call' = [call EXCEPT ![c].pc = "postkill", ![c].tracked = Tracked(c)]
    <2>1. Tracked(c) \in BOOLEAN /\ "postkill" \in Pcs
      BY <1>1, <1>2 DEF Tracked, CleanupTypes, CallRecords, HelperRecords, Pcs, Scanning
    <2>2. Moved(c) /\ call'[c].pc = "postkill" /\ call'[c].todo = call[c].todo /\ call'[c].now = call[c].now
      BY <1>1, <1>5, <2>1, TrackMoves
    <2>3. ~helper[d].stranger
      BY <1>2, <1>5 DEF Refresh, CleanupInv, DirsInv, PidInv
    <2>4. /\ helper' \in [AllDirs -> HelperRecords] /\ OwnerInv' /\ PidInv'
          /\ \A e \in AllDirs : Stable(e)
      BY <1>1, <1>2, <1>5, <2>3, StrikeEffect DEF CleanupInv, DirsInv
    <2>5. ScanOf(c)'
      BY <1>1, <1>2, <2>2 DEF ScanOf, Reaping, Here, Doomed
    <2>6. CleanupTypes' /\ ScanInv'
      BY <1>1, <2>2, <2>4, <2>5, ScanKeeps DEF CleanupInv, CleanupTypes
    <2> QED BY <1>1, <2>2, <2>4, <2>6 DEF Kept, DirsInv, Scanning
  <1> QED BY <1>3, <1>4, <1>5 DEF Escalate

LEMMA GiveUpKept == ASSUME CleanupInv, NEW c \in Calls, GiveUp(c) PROVE Kept(c)
  <1>1. /\ UNCHANGED <<clock, last, attempt, dir, helper, struck>> /\ call[c].pc = "postkill"
    BY DEF GiveUp, Stops
  <1>2. CASE Stops(c)
    BY <1>1, <1>2, StopsKept DEF Scanning
  <1>3. CASE Goto(c, "mounts")
    BY <1>1, <1>3, WaitingIsDoomed, GotoKept DEF Scanning, Reaping
  <1> QED BY <1>2, <1>3 DEF GiveUp

\* The steps past the helper: the owner of the directory at hand is dead.
LEMMA PastTheHelper ==
    ASSUME CleanupInv, NEW c \in Calls, call[c].pc \in {"mounts", "unmount", "verify", "remove"}
    PROVE  /\ call[c].todo # <<>> /\ Here(c) \in AllDirs /\ Doomed(Here(c)) /\ call[c].now <= clock
           /\ call[c].pc \in Scanning
  <1>1. /\ call[c].todo # <<>> /\ Doomed(Here(c)) /\ call[c].now <= clock
    BY DEF ScanOf, Scanning, Reaping, CleanupInv, DirsInv, ScanInv
  <1> QED BY <1>1, HereIsADir DEF CleanupInv, Scanning

LEMMA ReadMountsKept == ASSUME CleanupInv, NEW c \in Calls, ReadMounts(c) PROVE Kept(c)
  <1>1. /\ UNCHANGED <<clock, last, attempt, dir, helper, struck>> /\ call[c].pc = "mounts"
    BY DEF ReadMounts, Stops
  <1>2. CASE Stops(c)
    BY <1>1, <1>2, StopsKept DEF Scanning
  <1>3. CASE Goto(c, "release")
    BY <1>1, <1>3, GotoKept DEF Scanning
  <1>4. CASE Goto(c, IF dir[Here(c)].mounted THEN "unmount" ELSE "remove")
    BY <1>1, <1>4, PastTheHelper, GotoKept DEF Scanning, Reaping
  <1> QED BY <1>2, <1>3, <1>4 DEF ReadMounts

LEMMA VerifyKept == ASSUME CleanupInv, NEW c \in Calls, Verify(c) PROVE Kept(c)
  <1>1. /\ UNCHANGED <<clock, last, attempt, dir, helper, struck>> /\ call[c].pc = "verify"
    BY DEF Verify, Stops
  <1>2. CASE Stops(c)
    BY <1>1, <1>2, StopsKept DEF Scanning
  <1>3. CASE Goto(c, "release")
    BY <1>1, <1>3, GotoKept DEF Scanning
  <1>4. CASE ~dir[Here(c)].mounted /\ Goto(c, "remove")
    BY <1>1, <1>4, PastTheHelper, GotoKept DEF Scanning, Reaping
  <1> QED BY <1>2, <1>3, <1>4 DEF Verify

\* fusermount and RemoveAll take away what is mounted and what is there.
LEMMA LessOfADir ==
    ASSUME CleanupTypes, OwnerInv, PidInv, NEW d \in AllDirs, NEW r \in DirRecords,
           dir' = [dir EXCEPT ![d] = r], r.owner = dir[d].owner,
           r.mtime \in {dir[d].mtime, clock},
           dir[d].owner = "alive" =>
               r.state = dir[d].state /\ r.file = dir[d].file /\ r.mtime = dir[d].mtime,
           r.state = dir[d].state \/ r.state = "absent", UNCHANGED <<clock, helper, struck>>
    PROVE  /\ dir' \in [AllDirs -> DirRecords] /\ OwnerInv' /\ PidInv'
           /\ \A e \in AllDirs : Stable(e)
  <1>1. dir' \in [AllDirs -> DirRecords] /\ dir'[d] = r
    BY DEF CleanupTypes
  <1>2. \A e \in AllDirs \ {d} : dir'[e] = dir[e]
    BY DEF CleanupTypes
  <1>3. OwnerInv'
    <2>1. clock \in Nat
      BY DEF CleanupTypes
    <2> QED BY <1>1, <1>2, <2>1 DEF OwnerInv
  <1>4. PidInv'
    BY DEF PidInv
  <1>5. ASSUME NEW e \in AllDirs PROVE Stable(e)
    <2>1. dir[e].mtime \in Nat
      BY DEF CleanupTypes, DirRecords
    <2> QED BY <1>1, <1>2, <2>1 DEF Stable
  <1> QED BY <1>1, <1>3, <1>4, <1>5

LEMMA UnmountKept == ASSUME CleanupInv, NEW c \in Calls, Unmount(c) PROVE Kept(c)
  <1> DEFINE d == Here(c)
  <1>1. UNCHANGED <<clock, last, attempt, helper, struck>> /\ call[c].pc = "unmount" /\ CleanupTypes
    BY DEF Unmount, Stops, CleanupInv
  <1>2. call[c].todo # <<>> /\ d \in AllDirs /\ Doomed(d) /\ call[c].now <= clock /\ dir[d] \in DirRecords
    BY <1>1, PastTheHelper DEF CleanupTypes
  <1>3. CASE Stops(c)
    BY <1>1, <1>3, StopsKept DEF Scanning
  <1>4. CASE UNCHANGED dir /\ Goto(c, "verify")
    BY <1>1, <1>2, <1>4, GotoKept DEF Scanning, Reaping
  <1>5. CASE dir' = [dir EXCEPT ![d].mounted = FALSE] /\ Goto(c, "verify")
    <2> DEFINE r == [dir[d] EXCEPT !.mounted = FALSE]
    <2>1. /\ r \in DirRecords /\ dir' = [dir EXCEPT ![d] = r] /\ r.owner = dir[d].owner
          /\ r.mtime = dir[d].mtime /\ r.state = dir[d].state /\ r.file = dir[d].file /\ ~r.mounted
      BY <1>1, <1>2, <1>5 DEF CleanupTypes, DirRecords
    <2>2. /\ dir' \in [AllDirs -> DirRecords] /\ OwnerInv' /\ PidInv' /\ \A e \in AllDirs : Stable(e)
      BY <1>1, <1>2, <2>1, LessOfADir DEF CleanupInv, DirsInv
    <2>3. Moved(c) /\ call'[c].pc = "verify" /\ call'[c].todo = call[c].todo /\ call'[c].now = call[c].now
      BY <1>1, <1>5, GotoMoves DEF Pcs, Scanning
    <2>4. Here(c)' = Here(c)
      BY <2>3 DEF Here
    <2>5. ScanOf(c)'
      <3>1. Stable(Here(c))
        BY <1>2, <2>2
      <3>2. Doomed(Here(c))'
        BY <1>2, <2>4, <3>1 DEF Doomed, Stable
      <3> QED BY <1>1, <1>2, <2>3, <3>2 DEF ScanOf, Reaping
    <2>6. CleanupTypes' /\ ScanInv'
      BY <1>1, <2>2, <2>3, <2>5, ScanKeeps DEF CleanupInv, CleanupTypes
    <2> QED BY <1>1, <2>2, <2>3, <2>6 DEF Kept, DirsInv, Scanning
  <1> QED BY <1>3, <1>4, <1>5 DEF Unmount

\* The removal: the owner is dead.
LEMMA RemoveKept == ASSUME CleanupInv, NEW c \in Calls, RemoveDir(c) PROVE Kept(c)
  <1> DEFINE d == Here(c)
  <1>1. UNCHANGED <<clock, last, attempt, helper, struck>> /\ call[c].pc = "remove" /\ CleanupTypes
    BY DEF RemoveDir, RemoveAll, Stops, CleanupInv
  <1>2. call[c].todo # <<>> /\ d \in AllDirs /\ Doomed(d) /\ call[c].now <= clock /\ dir[d] \in DirRecords
    BY <1>1, PastTheHelper DEF CleanupTypes
  <1>3. CASE Stops(c)
    BY <1>1, <1>3, StopsKept DEF Scanning
  <1>4. CASE UNCHANGED dir /\ Goto(c, "release")
    BY <1>1, <1>4, GotoKept DEF Scanning
  <1>5. CASE UNCHANGED dir /\ Skipped(c)
    BY <1>1, <1>2, <1>5, SkipKept DEF Scanning
  <1>6. CASE RemoveAll(c)
    <2>1. PICK r \in DirRecords :
             /\ dir' = [dir EXCEPT ![d] = r] /\ r.owner = dir[d].owner
             /\ r.mtime \in {dir[d].mtime, clock} /\ r.state \in {dir[d].state, "absent"}
      <3>1. CASE dir' = [dir EXCEPT ![d].state = "absent"]
        <4> DEFINE r == [dir[d] EXCEPT !.state = "absent"]
        <4>1. r \in DirRecords /\ r.owner = dir[d].owner /\ r.mtime = dir[d].mtime /\ r.state = "absent"
          BY <1>2 DEF DirRecords
        <4> QED BY <1>1, <3>1, <4>1 DEF CleanupTypes
      <3>2. CASE dir' = [dir EXCEPT ![d].file = "removed", ![d].mtime = clock]
        <4> DEFINE r == [dir[d] EXCEPT !.file = "removed", !.mtime = clock]
        <4>1. /\ r \in DirRecords /\ r.owner = dir[d].owner /\ r.mtime = clock
              /\ r.state = dir[d].state
          BY <1>1, <1>2 DEF DirRecords, CleanupTypes
        <4> QED BY <1>1, <3>2, <4>1 DEF CleanupTypes
      <3> QED BY <1>6, <3>1, <3>2 DEF RemoveAll
    <2>2. dir[d].owner = "dead"
      BY <1>2, <1>6 DEF Doomed, RemoveAll
    <2>3. /\ dir' \in [AllDirs -> DirRecords] /\ OwnerInv' /\ PidInv' /\ \A e \in AllDirs : Stable(e)
      BY <1>1, <1>2, <2>1, <2>2, LessOfADir DEF CleanupInv, DirsInv
    <2>4. Moved(c) /\ call'[c].pc \in {"next", "release"} /\ call'[c].now = call[c].now
      <3>1. "release" \in Pcs
        BY DEF Pcs
      <3> QED BY <1>1, <1>2, <1>6, <3>1, SkipMoves, GotoMoves DEF RemoveAll
    <2>5. CleanupTypes' => ScanOf(c)'
      BY <1>1, <2>4, CallLeaves DEF CleanupInv, DirsInv, ScanInv
    <2>6. CleanupTypes' /\ ScanInv'
      BY <1>1, <2>3, <2>4, <2>5, ScanKeeps DEF CleanupInv, CleanupTypes
    <2> QED BY <1>1, <2>3, <2>4, <2>6 DEF Kept, DirsInv, Scanning
  <1> QED BY <1>3, <1>4, <1>5, <1>6 DEF RemoveDir

-----------------------------------------------------------------------------
(* The owners, their helpers and the kernel.                               *)

\* A directory and its helper may become r and h: what is true of them is kept
\* and nothing is undone.
Lawful(d, r, h) ==
    /\ r.state = "present" => r.owner \in {"alive", "dead"}
    /\ r.mtime <= clock
    /\ r.owner # "dead" => ~h.term
    /\ r.owner = "alive" => /\ r.state = "present" /\ r.file # "removed"
                            /\ r.file # "pid" => clock <= r.mtime + Grace
    /\ h.stranger => ~h.leader /\ ~h.kid
    /\ dir[d].owner = "dead" => r.owner = "dead"
    /\ r.owner = "alive" => IF dir[d].owner = "alive" THEN r.mtime >= dir[d].mtime
                            ELSE r.mtime >= clock

LEMMA OneDirMoves ==
    ASSUME CleanupInv, NEW d \in AllDirs, NEW r \in DirRecords, NEW h \in HelperRecords,
           dir' = [dir EXCEPT ![d] = r], helper' = [helper EXCEPT ![d] = h],
           UNCHANGED <<clock, last, attempt, call, struck>>, Lawful(d, r, h)
    PROVE  CleanupTypes' /\ DirsInv'
  <1>1. CleanupTypes' /\ dir'[d] = r /\ helper'[d] = h
    BY DEF CleanupInv, CleanupTypes
  <1>2. \A e \in AllDirs \ {d} : dir'[e] = dir[e] /\ helper'[e] = helper[e]
    BY DEF CleanupInv, CleanupTypes
  <1>3. OwnerInv'
    BY <1>1, <1>2 DEF CleanupInv, DirsInv, OwnerInv, Lawful
  <1>4. PidInv'
    BY <1>1, <1>2 DEF CleanupInv, DirsInv, PidInv, Lawful
  <1>5. ASSUME NEW e \in AllDirs PROVE Stable(e)
    <2>1. CASE e = d
      BY <1>1, <2>1 DEF Stable, Lawful
    <2>2. CASE e # d
      <3>1. dir[e].mtime \in Nat
        BY DEF CleanupInv, CleanupTypes, DirRecords
      <3> QED BY <1>2, <2>2, <3>1 DEF Stable
    <2> QED BY <2>1, <2>2
  <1>6. \A c \in Calls : ScanOf(c)'
    <2>1. clock' >= clock
      BY DEF CleanupInv, CleanupTypes
    <2> QED BY <1>1, <1>5, <2>1, CallStays DEF CleanupInv, DirsInv, ScanInv
  <1> QED BY <1>1, <1>3, <1>4, <1>6 DEF DirsInv, ScanInv

\* What an owner and the processes of its session do.  An owner that is dead does
\* nothing any more.
LEMMA OwnerKept ==
    ASSUME CleanupInv, NEW d \in AllDirs, OwnerStep(d)
    PROVE  CleanupTypes' /\ DirsInv' /\ UNCHANGED <<clock, last, attempt, call>>
  <1>1. /\ dir[d] \in DirRecords /\ helper[d] \in HelperRecords /\ clock \in Nat /\ Grace \in Nat
        /\ dir[d].mtime \in Nat
    BY CleanupAssumption DEF CleanupInv, CleanupTypes, DirRecords
  <1>2. UNCHANGED <<clock, last, attempt, call, struck>>
    BY DEF OwnerStep, Create, WriteOwner, StartHelper, RecordHelper, OwnerDies, HelperMoves, Mount
  <1>3. /\ dir[d].state = "present" => dir[d].owner \in {"alive", "dead"}
        /\ dir[d].mtime <= clock
        /\ dir[d].owner # "dead" => ~helper[d].term
        /\ dir[d].owner = "alive" =>
              /\ dir[d].state = "present" /\ dir[d].file # "removed"
              /\ dir[d].file # "pid" => clock <= dir[d].mtime + Grace
        /\ helper[d].stranger => ~helper[d].leader /\ ~helper[d].kid
    BY DEF CleanupInv, DirsInv, OwnerInv, PidInv
  <1>4. helper = [helper EXCEPT ![d] = helper[d]] /\ dir = [dir EXCEPT ![d] = dir[d]]
    BY DEF CleanupInv, CleanupTypes
  <1>5. CASE Create(d)
    <2> DEFINE r == [dir[d] EXCEPT !.state = "present", !.owner = "alive", !.mtime = clock]
    <2>1. dir' = [dir EXCEPT ![d] = r] /\ helper' = [helper EXCEPT ![d] = helper[d]]
      BY <1>4, <1>5 DEF Create, CleanupInv, CleanupTypes
    <2>2. /\ r \in DirRecords /\ r.state = "present" /\ r.owner = "alive" /\ r.mtime = clock
          /\ r.file = dir[d].file
      BY <1>1 DEF DirRecords
    <2>3. dir[d].owner = "none" /\ dir[d].file = "none"
      BY <1>5 DEF Create, Absent
    <2>4. Lawful(d, r, helper[d])
      BY <1>1, <1>3, <2>2, <2>3 DEF Lawful
    <2> QED BY <1>1, <1>2, <2>1, <2>2, <2>4, OneDirMoves
  <1>6. CASE WriteOwner(d)
    <2>1. PICK r \in DirRecords :
             /\ dir' = [dir EXCEPT ![d] = r]
             /\ r.state = dir[d].state /\ r.owner = dir[d].owner /\ r.mounted = dir[d].mounted
             /\ r.file # "removed" /\ (r.file # "pid" => r.mtime = clock)
             /\ r.mtime \in {clock, dir[d].mtime} /\ dir[d].file # "pid"
      <3>1. CASE dir' = [dir EXCEPT ![d].file = "empty", ![d].mtime = clock] /\ dir[d].file = "none"
        <4> DEFINE r == [dir[d] EXCEPT !.file = "empty", !.mtime = clock]
        <4>1. /\ r \in DirRecords /\ r.state = dir[d].state /\ r.owner = dir[d].owner
              /\ r.mounted = dir[d].mounted /\ r.mtime = clock /\ r.file = "empty"
          BY <1>1 DEF DirRecords
        <4>2. dir' = [dir EXCEPT ![d] = r]
          BY <3>1 DEF CleanupInv, CleanupTypes
        <4> QED BY <3>1, <4>1, <4>2
      <3>2. CASE dir' = [dir EXCEPT ![d].file = "pid"] /\ dir[d].file = "empty"
        <4> DEFINE r == [dir[d] EXCEPT !.file = "pid"]
        <4>1. /\ r \in DirRecords /\ r.state = dir[d].state /\ r.owner = dir[d].owner
              /\ r.mounted = dir[d].mounted /\ r.mtime = dir[d].mtime /\ r.file = "pid"
          BY <1>1 DEF DirRecords
        <4>2. dir' = [dir EXCEPT ![d] = r]
          BY <3>2 DEF CleanupInv, CleanupTypes
        <4> QED BY <3>2, <4>1, <4>2
      <3> QED BY <1>6, <3>1, <3>2 DEF WriteOwner
    <2>2. dir[d].owner = "alive" /\ dir[d].state = "present" /\ helper' = [helper EXCEPT ![d] = helper[d]]
      BY <1>4, <1>6 DEF WriteOwner, Owned
    <2>3. Lawful(d, r, helper[d])
      BY <1>1, <1>3, <2>1, <2>2 DEF Lawful
    <2> QED BY <1>1, <1>2, <2>1, <2>2, <2>3, OneDirMoves
  <1>7. CASE StartHelper(d)
    <2> DEFINE h == [helper[d] EXCEPT !.leader = TRUE]
    <2>1. dir' = [dir EXCEPT ![d] = dir[d]] /\ helper' = [helper EXCEPT ![d] = h] /\ dir[d].owner = "alive"
      BY <1>4, <1>7 DEF StartHelper, Owned, CleanupInv, CleanupTypes
    <2>2. h \in HelperRecords /\ h.term = helper[d].term /\ ~h.stranger
      <3>1. ~helper[d].stranger
        BY <1>7 DEF StartHelper, NoHelper
      <3> QED BY <1>1, <3>1 DEF HelperRecords
    <2>3. Lawful(d, dir[d], h)
      BY <1>1, <1>3, <2>1, <2>2 DEF Lawful
    <2> QED BY <1>1, <1>2, <2>1, <2>2, <2>3, OneDirMoves
  <1>8. CASE RecordHelper(d)
    <2> DEFINE h == [helper[d] EXCEPT !.recorded = TRUE]
               r == [dir[d] EXCEPT !.mtime = clock]
    <2>1. /\ dir' = [dir EXCEPT ![d] = r] /\ helper' = [helper EXCEPT ![d] = h]
          /\ dir[d].owner = "alive" /\ dir[d].state = "present"
      BY <1>8 DEF RecordHelper, Owned, CleanupInv, CleanupTypes
    <2>2. /\ h \in HelperRecords /\ h.term = helper[d].term /\ h.stranger = helper[d].stranger
          /\ h.leader = helper[d].leader /\ h.kid = helper[d].kid /\ h.killed = helper[d].killed
      BY <1>1 DEF HelperRecords
    <2>3. /\ r \in DirRecords /\ r.state = dir[d].state /\ r.owner = dir[d].owner
          /\ r.file = dir[d].file /\ r.mtime = clock
      BY <1>1 DEF DirRecords
    <2>4. Lawful(d, r, h)
      BY <1>1, <1>3, <2>1, <2>2, <2>3 DEF Lawful
    <2> QED BY <1>1, <1>2, <2>1, <2>2, <2>3, <2>4, OneDirMoves
  <1>9. CASE OwnerDies(d)
    <2> DEFINE r == [dir[d] EXCEPT !.owner = "dead"]
    <2>1. dir' = [dir EXCEPT ![d] = r] /\ helper' = [helper EXCEPT ![d] = helper[d]] /\ dir[d].owner = "alive"
      BY <1>4, <1>9 DEF OwnerDies, Owned, CleanupInv, CleanupTypes
    <2>2. r \in DirRecords /\ r.owner = "dead" /\ r.mtime = dir[d].mtime
      BY <1>1 DEF DirRecords
    <2>3. Lawful(d, r, helper[d])
      BY <1>1, <1>3, <2>1, <2>2 DEF Lawful
    <2> QED BY <1>1, <1>2, <2>1, <2>2, <2>3, OneDirMoves
  <1>10. CASE HelperMoves(d)
    <2>1. PICK h \in HelperRecords :
             /\ helper' = [helper EXCEPT ![d] = h]
             /\ h.term = helper[d].term /\ h.killed = helper[d].killed
             /\ h.recorded = helper[d].recorded /\ (h.leader => helper[d].leader)
             /\ h.stranger => ~h.leader /\ ~h.kid
      <3>1. CASE helper' = [helper EXCEPT ![d].kid = TRUE] /\ helper[d].leader
        <4> DEFINE h == [helper[d] EXCEPT !.kid = TRUE]
        <4>1. helper' = [helper EXCEPT ![d] = h] /\ h \in HelperRecords
          BY <1>1, <3>1 DEF HelperRecords, CleanupInv, CleanupTypes
        <4> QED BY <1>1, <1>3, <3>1, <4>1 DEF HelperRecords
      <3>2. CASE helper' = [helper EXCEPT ![d].leader = FALSE] /\ helper[d].leader
        <4> DEFINE h == [helper[d] EXCEPT !.leader = FALSE]
        <4>1. helper' = [helper EXCEPT ![d] = h] /\ h \in HelperRecords
          BY <1>1, <3>2 DEF HelperRecords, CleanupInv, CleanupTypes
        <4> QED BY <1>1, <1>3, <3>2, <4>1 DEF HelperRecords
      <3>3. CASE helper' = [helper EXCEPT ![d].kid = FALSE] /\ helper[d].kid
        <4> DEFINE h == [helper[d] EXCEPT !.kid = FALSE]
        <4>1. helper' = [helper EXCEPT ![d] = h] /\ h \in HelperRecords
          BY <1>1, <3>3 DEF HelperRecords, CleanupInv, CleanupTypes
        <4> QED BY <1>1, <1>3, <3>3, <4>1 DEF HelperRecords
      <3>4. CASE helper' = [helper EXCEPT ![d].stranger = TRUE] /\ ~helper[d].leader /\ ~helper[d].kid
        <4> DEFINE h == [helper[d] EXCEPT !.stranger = TRUE]
        <4>1. helper' = [helper EXCEPT ![d] = h] /\ h \in HelperRecords
          BY <1>1, <3>4 DEF HelperRecords, CleanupInv, CleanupTypes
        <4> QED BY <1>1, <1>3, <3>4, <4>1 DEF HelperRecords
      <3> QED BY <1>10, <3>1, <3>2, <3>3, <3>4 DEF HelperMoves
    <2>2. dir' = [dir EXCEPT ![d] = dir[d]]
      BY <1>4, <1>10 DEF HelperMoves
    <2>3. Lawful(d, dir[d], h)
      BY <1>1, <1>3, <2>1 DEF Lawful
    <2> QED BY <1>1, <1>2, <2>1, <2>2, <2>3, OneDirMoves
  <1>11. CASE Mount(d)
    <2> DEFINE r == [dir[d] EXCEPT !.mounted = TRUE]
    <2>1. dir' = [dir EXCEPT ![d] = r] /\ helper' = [helper EXCEPT ![d] = helper[d]]
      BY <1>4, <1>11 DEF Mount, CleanupInv, CleanupTypes
    <2>2. /\ r \in DirRecords /\ r.owner = dir[d].owner /\ r.state = dir[d].state
          /\ r.mtime = dir[d].mtime /\ r.file = dir[d].file
      BY <1>1 DEF DirRecords
    <2>3. Lawful(d, r, helper[d])
      BY <1>1, <1>3, <2>1, <2>2 DEF Lawful
    <2> QED BY <1>1, <1>2, <2>1, <2>2, <2>3, OneDirMoves
  <1> QED BY <1>2, <1>5, <1>6, <1>7, <1>8, <1>9, <1>10, <1>11 DEF OwnerStep

\* Time passes only while every owner that starts up is quick.
LEMMA TickKept ==
    ASSUME CleanupInv, Tick
    PROVE  CleanupTypes' /\ DirsInv' /\ UNCHANGED <<last, attempt, call>> /\ clock' = clock + 1
  <1>1. UNCHANGED <<last, attempt, call, dir, helper, struck>> /\ clock' = clock + 1
    BY DEF Tick
  <1>2. CleanupTypes' /\ clock \in Nat /\ Grace \in Nat
    BY <1>1, CleanupAssumption DEF CleanupInv, CleanupTypes
  <1>3. \A d \in AllDirs : dir[d].mtime \in Nat
    BY DEF CleanupInv, CleanupTypes, DirRecords
  <1>4. OwnerInv'
    <2>1. ASSUME NEW d \in AllDirs, dir[d].owner = "alive", dir[d].file # "pid"
          PROVE  clock + 1 <= dir[d].mtime + Grace
      <3>1. clock < dir[d].mtime + Grace
        BY <2>1 DEF Tick, StartupIsQuick, Owned, CleanupInv, DirsInv, OwnerInv
      <3> QED BY <1>2, <1>3, <3>1
    <2>2. \A d \in AllDirs : dir[d].mtime <= clock + 1
      BY <1>2, <1>3 DEF CleanupInv, DirsInv, OwnerInv
    <2> QED BY <1>1, <2>1, <2>2 DEF CleanupInv, DirsInv, OwnerInv
  <1>5. PidInv'
    BY <1>1 DEF CleanupInv, DirsInv, PidInv
  <1>6. \A d \in AllDirs : Stable(d)
    BY <1>1, <1>3 DEF Stable
  <1>7. \A c \in Calls : ScanOf(c)'
    <2>1. clock' >= clock
      BY <1>1, <1>2
    <2> QED BY <1>1, <1>2, <1>6, <2>1, CallStays DEF CleanupInv, DirsInv, ScanInv
  <1> QED BY <1>1, <1>2, <1>4, <1>5, <1>7 DEF DirsInv, ScanInv

\* A call outside the loop over the directories changes in its claim only.
LEMMA OutsideKept ==
    ASSUME CleanupInv, NEW c \in Calls, NEW r \in CallRecords,
           call' = [call EXCEPT ![c] = r], r.now = call[c].now, r.todo = call[c].todo,
           r.limit = call[c].limit,
           r.pc = call[c].pc \/ r.pc \notin Scanning \ {"list", "next"},
           last' \in Nat, attempt' \in Nat, UNCHANGED <<clock, dir, helper, struck>>
    PROVE  CleanupTypes' /\ DirsInv' /\ (\A k \in Calls \ {c} : call'[k] = call[k]) /\ call'[c] = r
  <1>1. CleanupTypes' /\ (\A k \in Calls \ {c} : call'[k] = call[k]) /\ call'[c] = r
    BY DEF CleanupInv, CleanupTypes
  <1>2. OwnerInv' /\ PidInv'
    BY DEF CleanupInv, DirsInv, OwnerInv, PidInv
  <1>3. (\A d \in AllDirs : Stable(d)) /\ clock' >= clock
    BY QuietStep DEF CleanupInv, CleanupTypes
  <1>4. \A k \in Calls \ {c} : ScanOf(k)'
    BY <1>1, <1>3, CallStays DEF CleanupInv, DirsInv, ScanInv, CleanupTypes
  <1>5. ScanOf(c)'
    <2>1. CASE r.pc = call[c].pc
      BY <1>1, <1>3, <2>1, CallStays DEF CleanupInv, DirsInv, ScanInv
    <2>2. CASE r.pc \notin Scanning \ {"list", "next"}
      BY <1>1, <2>2 DEF CleanupInv, DirsInv, ScanInv, ScanOf, Scanning, Reaping
    <2> QED BY <2>1, <2>2
  <1> QED BY <1>1, <1>2, <1>4, <1>5 DEF DirsInv, ScanInv

-----------------------------------------------------------------------------
(* The claims.                                                             *)

Under == Scanning \cup {"release"}

\* Steps that claim nothing and give nothing back
LEMMA SameClaims ==
    ASSUME CleanupTypes, ClaimsInv, CleanupTypes', UNCHANGED <<last, attempt>>, clock' >= clock,
           \A k \in Calls :
              /\ call'[k].mine = call[k].mine /\ call'[k].start = call[k].start
              /\ call[k].pc = "failed" => call'[k].pc = "failed"
              /\ call'[k].pc = "idle" => call[k].pc = "idle"
              /\ call'[k].pc \in Under => call[k].pc \in Under
    PROVE  ClaimsInv'
  <1>1. /\ clock \in Nat /\ clock' \in Nat /\ attempt \in Nat /\ last \in Nat /\ Interval \in Nat
        /\ \A k \in Calls : call[k].mine \in Nat /\ call[k].start \in Nat
    BY CleanupAssumption DEF CleanupTypes, CallRecords
  <1>2. ClaimInv'
    <2>1. clock' >= Interval /\ \A k \in Calls : call[k].start <= clock'
      BY <1>1 DEF ClaimsInv, ClaimInv
    <2> QED BY <1>1, <2>1 DEF ClaimsInv, ClaimInv, Under
  <1>3. ScansAreSpaced'
    BY <1>1 DEF ClaimsInv, ScansAreSpaced
  <1>4. SpacingInv'
    <2>1. \A k \in Calls : clock - call[k].start >= Interval => clock' - call[k].start >= Interval
      BY <1>1
    <2> QED BY <1>1, <2>1 DEF ClaimsInv, SpacingInv
  <1> QED BY <1>2, <1>3, <1>4 DEF ClaimsInv

\* A call starts a scan only an interval after every scan that has not failed,
\* and has the highest number.
LEMMA BeginInv == ASSUME CleanupInv, NEW c \in Calls, Begin(c), MissedInv' PROVE CleanupInv'
  <1>1. /\ clock \in Nat /\ attempt \in Nat /\ last \in Nat /\ Interval \in Nat /\ Interval > 0
        /\ call[c] \in CallRecords /\ call[c].pc = "idle" /\ CleanupTypes
        /\ \A k \in Calls : call[k].mine \in Nat /\ call[k].start \in Nat
    BY CleanupAssumption DEF CleanupInv, CleanupTypes, CallRecords, Begin
  <1>2. CASE UNCHANGED <<last, attempt>> /\ \E l \in {"failed", "done"} : Goto(c, l)
    <2>1. PICK l \in {"failed", "done"} : Goto(c, l)
      BY <1>2
    <2>2. l \in Pcs /\ l \notin Scanning /\ l # "idle" /\ l \notin Under
      BY DEF Pcs, Scanning, Under
    <2>3. PICK r \in CallRecords :
             /\ r.pc = l /\ r.mine = call[c].mine /\ r.start = call[c].start
             /\ r.now = call[c].now /\ r.todo = call[c].todo /\ r.limit = call[c].limit
             /\ call' = [call EXCEPT ![c] = r]
      <3> DEFINE s == [call[c] EXCEPT !.pc = l]
      <3>1. /\ s \in CallRecords /\ s.pc = l /\ s.mine = call[c].mine /\ s.start = call[c].start
            /\ s.now = call[c].now /\ s.todo = call[c].todo /\ s.limit = call[c].limit
        BY <1>1, <2>2 DEF CallRecords
      <3>2. call' = [call EXCEPT ![c] = s]
        BY <1>1, <2>1 DEF Goto, CleanupTypes
      <3> QED BY <3>1, <3>2
    <2>5. CleanupTypes' /\ DirsInv' /\ (\A k \in Calls \ {c} : call'[k] = call[k]) /\ call'[c] = r
      <3>1. last' \in Nat /\ attempt' \in Nat /\ UNCHANGED <<clock, dir, helper, struck>>
        BY <1>1, <1>2 DEF Begin
      <3> QED BY <2>2, <2>3, <3>1, OutsideKept
    <2>6. ClaimsInv'
      <3>1. clock' >= clock
        BY <1>1 DEF Begin
      <3> QED BY <1>1, <1>2, <2>2, <2>3, <2>5, <3>1, SameClaims DEF CleanupInv
    <2> QED BY <2>5, <2>6 DEF CleanupInv
  <1>3. CASE /\ clock - last >= Interval /\ attempt' = attempt + 1 /\ last' = clock
             /\ call' = [call EXCEPT ![c].pc = "list", ![c].mine = attempt + 1, ![c].start = clock]
    <2>1. "list" \in Pcs /\ "list" \in Scanning /\ attempt + 1 \in Nat
      BY <1>1 DEF Pcs, Scanning
    <2>2. PICK r \in CallRecords :
             /\ r.pc = "list" /\ r.mine = attempt + 1 /\ r.start = clock
             /\ r.now = call[c].now /\ r.todo = call[c].todo /\ r.limit = call[c].limit
             /\ call' = [call EXCEPT ![c] = r]
      <3> DEFINE s == [call[c] EXCEPT !.pc = "list", !.mine = attempt + 1, !.start = clock]
      <3>1. /\ s \in CallRecords /\ s.pc = "list" /\ s.mine = attempt + 1 /\ s.start = clock
            /\ s.now = call[c].now /\ s.todo = call[c].todo /\ s.limit = call[c].limit
        BY <1>1, <2>1 DEF CallRecords
      <3>2. call' = [call EXCEPT ![c] = s]
        BY <1>1, <1>3 DEF CleanupTypes
      <3> QED BY <3>1, <3>2
    <2>4. clock' = clock /\ UNCHANGED <<dir, helper, struck>>
      BY DEF Begin
    <2>5. CleanupTypes' /\ DirsInv' /\ (\A k \in Calls \ {c} : call'[k] = call[k]) /\ call'[c] = r
      <3>1. last' \in Nat /\ attempt' \in Nat
        BY <1>1, <1>3
      <3> QED BY <2>2, <2>4, <3>1, OutsideKept DEF Scanning
    <2>6. /\ clock >= Interval
          /\ \A k \in Calls : call[k].mine <= attempt /\ call[k].start <= clock
          /\ \A a, b \in Calls : call[a].mine > 0 /\ call[a].mine = call[b].mine => a = b
          /\ \A k \in Calls : call[k].pc \in Under => call[k].mine > 0
          /\ \A k \in Calls : call[k].pc = "idle" => call[k].mine = 0
      BY DEF CleanupInv, ClaimsInv, ClaimInv, Under
    <2>7. \A a \in Calls \ {c} : call[a].mine > 0 /\ call[a].pc # "failed" =>
             clock - call[a].start >= Interval
      <3> SUFFICES ASSUME NEW a \in Calls \ {c}, call[a].mine > 0, call[a].pc # "failed"
                   PROVE  clock - call[a].start >= Interval
        OBVIOUS
      <3>1. CASE last = Never
        BY <3>1 DEF CleanupInv, ClaimsInv, SpacingInv
      <3>2. CASE last # Never
        <4>1. call[a].start <= last
          BY <3>2 DEF CleanupInv, ClaimsInv, SpacingInv
        <4> QED BY <1>1, <1>3, <4>1
      <3> QED BY <3>1, <3>2
    <2>8. ClaimInv'
      <3>1. \A k \in Calls \ {c} : call[k].mine <= attempt + 1 /\ call[k].mine # attempt + 1
        BY <1>1, <2>6
      <3>2. attempt + 1 > 0 /\ attempt + 1 <= attempt + 1 /\ clock <= clock
        BY <1>1
      <3>3. ASSUME NEW k \in Calls
            PROVE  /\ call'[k].mine <= attempt' /\ call'[k].start <= clock'
                   /\ call'[k].pc \in Under => call'[k].mine > 0
                   /\ call'[k].pc = "idle" => call'[k].mine = 0
        <4>1. CASE k = c
          BY <1>3, <2>2, <2>4, <2>5, <3>2, <4>1
        <4>2. CASE k # c
          BY <1>3, <2>4, <2>5, <2>6, <3>1, <4>2
        <4> QED BY <4>1, <4>2
      <3>4. ASSUME NEW a \in Calls, NEW b \in Calls, call'[a].mine > 0, call'[a].mine = call'[b].mine
            PROVE  a = b
        BY <2>2, <2>5, <2>6, <3>1, <3>4
      <3> QED BY <2>4, <2>6, <3>3, <3>4 DEF ClaimInv, Under
    <2>9. ScansAreSpaced'
      <3> SUFFICES ASSUME NEW a \in Calls, NEW b \in Calls,
                          0 < call'[a].mine, call'[a].mine < call'[b].mine,
                          call'[b].start - call'[a].start < Interval
                   PROVE  call'[a].pc = "failed"
        BY DEF ScansAreSpaced
      <3>1. a # c
        <4>1. \A k \in Calls \ {c} : ~(attempt + 1 < call[k].mine)
          BY <1>1, <2>6
        <4>2. a = c => attempt + 1 < call'[b].mine
          BY <2>2, <2>5
        <4>3. call'[c].mine = attempt + 1 /\ \A k \in Calls \ {c} : call'[k].mine = call[k].mine
          BY <2>2, <2>5
        <4>4. ~(attempt + 1 < attempt + 1)
          BY <1>1
        <4> QED BY <4>1, <4>2, <4>3, <4>4
      <3>2. CASE b = c
        <4>1. clock - call[a].start < Interval
          BY <2>2, <2>5, <3>1, <3>2
        <4>2. 0 < call[a].mine /\ call'[a].pc = call[a].pc
          BY <2>5, <3>1
        <4> QED BY <1>1, <2>7, <3>1, <4>1, <4>2
      <3>3. CASE b # c
        BY <2>5, <3>1, <3>3 DEF CleanupInv, ClaimsInv, ScansAreSpaced
      <3> QED BY <3>2, <3>3
    <2>10. SpacingInv'
      <3>1. clock # Never
        BY <1>1, <2>6 DEF Never
      <3>2. last' = clock /\ \A k \in Calls : call'[k].start <= clock
        <4>1. clock <= clock
          BY <1>1
        <4> QED BY <1>3, <2>2, <2>5, <2>6, <4>1
      <3> QED BY <3>1, <3>2 DEF SpacingInv, Never
    <2> QED BY <2>5, <2>8, <2>9, <2>10 DEF CleanupInv, ClaimsInv
  <1> QED BY <1>2, <1>3 DEF Begin

\* A failed scan gives back its own claim only: those before it are spaced from
\* it, and one after it has the claim.
LEMMA ReleaseInv == ASSUME CleanupInv, NEW c \in Calls, Release(c), MissedInv' PROVE CleanupInv'
  <1>1. /\ clock \in Nat /\ attempt \in Nat /\ last \in Nat /\ Interval \in Nat
        /\ call[c] \in CallRecords /\ call[c].pc = "release" /\ CleanupTypes
        /\ \A k \in Calls : call[k].mine \in Nat /\ call[k].start \in Nat
    BY CleanupAssumption DEF CleanupInv, CleanupTypes, CallRecords, Release
  <1>2. UNCHANGED <<clock, attempt, dir, helper, struck>>
        /\ last' = IF attempt = call[c].mine THEN Never ELSE last
    BY DEF Release
  <1>3. PICK r \in CallRecords :
           /\ r.pc = "failed" /\ r.mine = call[c].mine /\ r.start = call[c].start
           /\ r.now = call[c].now /\ r.todo = call[c].todo /\ r.limit = call[c].limit
           /\ call' = [call EXCEPT ![c] = r]
    <2> DEFINE s == [call[c] EXCEPT !.pc = "failed"]
    <2>1. "failed" \in Pcs
      BY DEF Pcs
    <2>2. /\ s \in CallRecords /\ s.pc = "failed" /\ s.mine = call[c].mine /\ s.start = call[c].start
          /\ s.now = call[c].now /\ s.todo = call[c].todo /\ s.limit = call[c].limit
      BY <1>1, <2>1 DEF CallRecords
    <2>3. call' = [call EXCEPT ![c] = s]
      BY <1>1 DEF Release, Goto, CleanupTypes
    <2> QED BY <2>2, <2>3
  <1>5. CleanupTypes' /\ DirsInv' /\ (\A k \in Calls \ {c} : call'[k] = call[k]) /\ call'[c] = r
    <2>1. last' \in Nat /\ attempt' \in Nat /\ "failed" \notin Scanning
      BY <1>1, <1>2 DEF Never, Scanning
    <2> QED BY <1>2, <1>3, <2>1, OutsideKept
  <1>6. \A k \in Calls : call'[k].mine = call[k].mine /\ call'[k].start = call[k].start
                         /\ (k # c => call'[k].pc = call[k].pc)
    BY <1>3, <1>5
  <1>7. ClaimInv'
    BY <1>2, <1>3, <1>5, <1>6 DEF CleanupInv, ClaimsInv, ClaimInv, Scanning
  <1>8. ScansAreSpaced'
    BY <1>3, <1>5, <1>6 DEF CleanupInv, ClaimsInv, ScansAreSpaced
  <1>9. SpacingInv'
    <2> SUFFICES ASSUME NEW a \in Calls, call'[a].mine > 0, call'[a].pc # "failed"
                 PROVE  IF last' = Never THEN clock - call[a].start >= Interval
                        ELSE call[a].start <= last'
      BY <1>2, <1>6 DEF SpacingInv
    <2>1. a # c /\ call[a].mine > 0 /\ call[a].pc # "failed"
      BY <1>3, <1>5, <1>6
    <2>2. CASE attempt = call[c].mine
      <3>1. call[a].mine < call[c].mine
        <4>1. call[a].mine <= attempt /\ call[a].mine # call[c].mine
          BY <2>1 DEF CleanupInv, ClaimsInv, ClaimInv
        <4> QED BY <1>1, <2>2, <4>1
      <3>2. ~(call[c].start - call[a].start < Interval)
        BY <2>1, <3>1, <1>1 DEF CleanupInv, ClaimsInv, ScansAreSpaced
      <3>3. call[c].start <= clock
        BY DEF CleanupInv, ClaimsInv, ClaimInv
      <3> QED BY <1>1, <1>2, <2>2, <3>2, <3>3
    <2>3. CASE attempt # call[c].mine
      BY <1>2, <2>1, <2>3 DEF CleanupInv, ClaimsInv, SpacingInv
    <2> QED BY <2>2, <2>3
  <1> QED BY <1>5, <1>7, <1>8, <1>9 DEF CleanupInv, ClaimsInv

\* The caller gives up: the scan learns of it later.
LEMMA CancelInv == ASSUME CleanupInv, NEW c \in Calls, Cancel(c), MissedInv' PROVE CleanupInv'
  <1> DEFINE r == [call[c] EXCEPT !.cancelled = TRUE]
  <1>1. call[c] \in CallRecords /\ CleanupTypes /\ clock \in Nat /\ last \in Nat /\ attempt \in Nat
    BY DEF CleanupInv, CleanupTypes
  <1>2. UNCHANGED <<clock, last, attempt, dir, helper, struck>>
    BY DEF Cancel
  <1>3. /\ r \in CallRecords /\ r.pc = call[c].pc /\ r.mine = call[c].mine /\ r.start = call[c].start
        /\ r.now = call[c].now /\ r.todo = call[c].todo /\ r.limit = call[c].limit
    BY <1>1 DEF CallRecords
  <1>4. call' = [call EXCEPT ![c] = r]
    BY <1>1 DEF Cancel, CleanupTypes
  <1>5. CleanupTypes' /\ DirsInv' /\ (\A k \in Calls \ {c} : call'[k] = call[k]) /\ call'[c] = r
    BY <1>1, <1>2, <1>3, <1>4, OutsideKept
  <1>6. ClaimsInv'
    <2>1. clock' >= clock
      BY <1>1, <1>2
    <2> QED BY <1>1, <1>2, <1>3, <1>5, <2>1, SameClaims DEF CleanupInv
  <1> QED BY <1>5, <1>6 DEF CleanupInv

-----------------------------------------------------------------------------
(* The theorems.                                                           *)

\* Every step keeps the invariant.
LEMMA ScanInvKept ==
    ASSUME CleanupInv, NEW c \in Calls, Kept(c), MissedInv' PROVE CleanupInv'
  <1>1. CleanupTypes /\ ClaimsInv /\ CleanupTypes' /\ UNCHANGED <<last, attempt>> /\ clock' >= clock
    BY DEF CleanupInv, Kept, CleanupTypes
  <1>2. ASSUME NEW k \in Calls
        PROVE  /\ call'[k].mine = call[k].mine /\ call'[k].start = call[k].start
               /\ call[k].pc = "failed" => call'[k].pc = "failed"
               /\ call'[k].pc = "idle" => call[k].pc = "idle"
               /\ call'[k].pc \in Under => call[k].pc \in Under
    <2>1. CASE k = c
      BY <2>1 DEF Kept, Moved, Scanning, Under
    <2>2. CASE k # c
      BY <2>2 DEF Kept, Moved
    <2> QED BY <2>1, <2>2
  <1>3. ClaimsInv'
    BY <1>1, <1>2, SameClaims
  <1> QED BY <1>3 DEF CleanupInv, Kept

\* A mount is seen by the last look at mountinfo or comes after it.
LEMMA MissedKept == ASSUME CleanupInv, [CleanupNext]_cleanupVars PROVE MissedInv'
  <1>1. /\ dir \in [AllDirs -> DirRecords] /\ call \in [Calls -> CallRecords]
        /\ \A k \in Calls : call[k].pc = "remove" => Here(k) \in AllDirs
    BY PastTheHelper DEF CleanupInv, CleanupTypes
  <1>2. ASSUME UNCHANGED call, missed \subseteq missed',
               \A d \in AllDirs : dir'[d].mounted => dir[d].mounted
        PROVE  MissedInv'
    BY <1>1, <1>2 DEF MissedInv, Here, CleanupInv
  <1>3. ASSUME NEW c \in Calls, \A k \in Calls \ {c} : call'[k] = call[k], UNCHANGED missed,
               \A d \in AllDirs : dir'[d].mounted => dir[d].mounted,
               call'[c].pc = "remove" =>
                  \/ call[c].pc = "remove" /\ call'[c].todo = call[c].todo
                  \/ ~dir'[Here(c)'].mounted
        PROVE  MissedInv'
    BY <1>1, <1>3 DEF MissedInv, Here, CleanupInv
  <1>4. CASE UNCHANGED cleanupVars \/ Tick
    BY <1>2, <1>4 DEF cleanupVars, Tick
  <1>5. ASSUME NEW e \in AllDirs, OwnerStep(e), ~Mount(e) PROVE MissedInv'
    <2>1. UNCHANGED <<call, missed>>
      BY <1>5 DEF OwnerStep, Create, WriteOwner, StartHelper, RecordHelper, OwnerDies, HelperMoves
    <2>2. \A d \in AllDirs : dir'[d].mounted => dir[d].mounted
      BY <1>1, <1>5 DEF OwnerStep, Create, WriteOwner, StartHelper, RecordHelper, OwnerDies, HelperMoves,
                        DirRecords
    <2> QED BY <1>2, <2>1, <2>2
  <1>6. ASSUME NEW e \in AllDirs, Mount(e) PROVE MissedInv'
    <2>1. UNCHANGED call /\ missed' = missed \cup {<<c, e>> : c \in AboutToRemove(e)}
      BY <1>6 DEF Mount
    <2>2. \A d \in AllDirs \ {e} : dir'[d] = dir[d]
      BY <1>1, <1>6 DEF Mount
    <2> QED BY <1>1, <2>1, <2>2 DEF MissedInv, Here, AboutToRemove, CleanupInv
  <1>7. ASSUME NEW c \in Calls, Cancel(c) \/ CallStep(c) PROVE MissedInv'
    <2>1. (\A k \in Calls \ {c} : call'[k] = call[k]) /\ UNCHANGED missed
      BY <1>1, <1>7 DEF CallStep, Cancel, Begin, List, Look, Stat, Terminate, WaitTurn, Escalate, GiveUp,
         ReadMounts, Unmount, Verify, RemoveDir, RemoveAll, ScanEnds, Release, Stops, Goto, Skipped
    <2>2. CASE Unmount(c)
      <3>1. call'[c].pc # "remove"
        BY <1>1, <2>2 DEF Unmount, Stops, Goto, CallRecords
      <3>2. \A d \in AllDirs : dir'[d].mounted => dir[d].mounted
        BY <1>1, <2>2 DEF Unmount, Stops, DirRecords
      <3> QED BY <1>3, <2>1, <3>1, <3>2
    <2>3. CASE RemoveDir(c)
      <3>1. call'[c].pc # "remove"
        BY <1>1, <2>3 DEF RemoveDir, RemoveAll, Stops, Goto, Skipped, CallRecords
      <3>2. \A d \in AllDirs : dir'[d].mounted => dir[d].mounted
        BY <1>1, <2>3 DEF RemoveDir, RemoveAll, Stops, DirRecords
      <3> QED BY <1>3, <2>1, <3>1, <3>2
    <2>4. CASE ReadMounts(c) \/ Verify(c)
      <3>1. UNCHANGED dir
        BY <2>4 DEF ReadMounts, Verify, Stops
      <3>2. call'[c].pc = "remove" => ~dir[Here(c)].mounted /\ call'[c].todo = call[c].todo
        BY <1>1, <2>4 DEF ReadMounts, Verify, Stops, Goto, CallRecords
      <3> QED BY <1>3, <2>1, <3>1, <3>2 DEF Here
    <2>5. CASE \/ Cancel(c)
               \/ CallStep(c) /\ ~(Unmount(c) \/ RemoveDir(c) \/ ReadMounts(c) \/ Verify(c))
      <3>1. UNCHANGED dir
        BY <2>5 DEF CallStep, Cancel, Begin, List, Look, Stat, Terminate, WaitTurn, Escalate, GiveUp,
           ScanEnds, Release, Stops, Strike
      <3>2. call'[c].pc = "remove" => call[c].pc = "remove" /\ call'[c].todo = call[c].todo
        <4>1. CASE Cancel(c)
          BY <1>1, <4>1 DEF Cancel, CallRecords
        <4>2. CASE Look(c) \/ Stat(c)
          BY <1>1, <4>2 DEF Look, Stat, Stops, Goto, Skipped, CallRecords
        <4>5. CASE List(c)
          <5>1. CASE Stops(c)
            BY <1>1, <5>1 DEF Stops, Goto, CallRecords
          <5>2. CASE \E n \in 0..Len(Dirs) : \E found \in [1..n -> Present] :
                        call' = [call EXCEPT ![c].pc = "next", ![c].now = clock, ![c].todo = found,
                                             ![c].dead = {d \in Present : dir[d].file = "pid"
                                                                          /\ dir[d].owner = "dead"}]
            BY <1>1, <5>2 DEF CallRecords
          <5> QED BY <4>5, <5>1, <5>2 DEF List
        <4>3. CASE Begin(c) \/ ScanEnds(c) \/ Release(c)
          BY <1>1, <4>3 DEF Begin, ScanEnds, Release, Goto, CallRecords
        <4>4. CASE Terminate(c) \/ WaitTurn(c) \/ Escalate(c) \/ GiveUp(c)
          BY <1>1, <4>4 DEF Terminate, WaitTurn, Escalate, GiveUp, Stops, Goto, CallRecords
        <4> QED BY <2>5, <4>1, <4>2, <4>3, <4>4, <4>5 DEF CallStep
      <3> QED BY <1>3, <2>1, <3>1, <3>2
    <2> QED BY <1>7, <2>2, <2>3, <2>4, <2>5 DEF CallStep
  <1> QED BY <1>4, <1>5, <1>6, <1>7 DEF CleanupNext

LEMMA NextInv == ASSUME CleanupInv, [CleanupNext]_cleanupVars PROVE CleanupInv'
  <1>0. MissedInv'
    BY MissedKept
  <1>1. CASE UNCHANGED cleanupVars
    BY <1>1 DEF cleanupVars, CleanupInv, CleanupTypes, ClaimsInv, ClaimInv, ScansAreSpaced, SpacingInv, DirsInv,
       OwnerInv, PidInv, ScanInv, ScanOf, Doomed, Here, Reaping, Scanning, MissedInv
  <1>2. CASE Tick
    <2>1. CleanupTypes' /\ DirsInv' /\ UNCHANGED <<last, attempt, call>> /\ clock' = clock + 1 /\ clock \in Nat
      BY <1>2, TickKept DEF CleanupInv, CleanupTypes
    <2>2. clock' >= clock
      BY <2>1
    <2> QED BY <1>0, <2>1, <2>2, SameClaims DEF CleanupInv
  <1>3. CASE \E d \in AllDirs : OwnerStep(d)
    <2>1. CleanupTypes' /\ DirsInv' /\ UNCHANGED <<clock, last, attempt, call>> /\ clock \in Nat
      BY <1>3, OwnerKept DEF CleanupInv, CleanupTypes
    <2>2. clock' >= clock
      BY <2>1
    <2> QED BY <1>0, <2>1, <2>2, SameClaims DEF CleanupInv
  <1>4. CASE \E c \in Calls : Cancel(c) \/ CallStep(c)
    BY <1>0, <1>4, CancelInv, BeginInv, ReleaseInv, ScanInvKept, ListKept, LookKept, StatKept,
       TerminateKept, WaitTurnKept, EscalateKept, GiveUpKept, ReadMountsKept, UnmountKept,
       VerifyKept, RemoveKept, ScanEndsKept DEF CallStep
  <1> QED BY <1>1, <1>2, <1>3, <1>4 DEF CleanupNext

LEMMA InvHolds == CleanupSpec => []CleanupInv
  <1>1. CleanupInit => CleanupInv
    BY InitInv
  <1>2. CleanupInv /\ [CleanupNext]_cleanupVars => CleanupInv'
    BY NextInv
  <1> QED BY <1>1, <1>2, PTL DEF CleanupSpec

\* Two scans of a process start within the interval only when the earlier one
\* has failed, however many callers contend and in whatever order they give
\* their claims back (cleanupAttempt, lastCleanupTime).
THEOREM Spacing == CleanupSpec => []ScansAreSpaced
  <1>1. CleanupInv => ScansAreSpaced
    BY DEF CleanupInv, ClaimsInv
  <1> QED BY <1>1, InvHolds, PTL

\* No scan removes the directory of a living owner or signals its helper, and
\* none signals a process that has taken over a helper's pid, whatever the
\* owners, their helpers and other scans do between the look and the act
\* (reapSessionDirIfStale, stopRecordedProcess).
THEOREM Spared == CleanupSpec => []BystandersAreSpared
  <1>1. CleanupInv => BystandersAreSpared
    BY DEF CleanupInv, DirsInv, OwnerInv, PidInv, BystandersAreSpared, LiveSessionsAreSpared,
       StrangersAreSpared
  <1> QED BY <1>1, InvHolds, PTL

\* RemoveAll descends only into what was mounted after the last look of its scan
\* at mountinfo, for any directories, calls and processes that mount, whatever
\* fusermount answers (unmountSubdirsWith, reapSessionDir).
THEOREM MountsSpared == CleanupSpec => SeenMountsAreSpared
  <1>1. CleanupInv => \A c \in Calls : SparesMounts(c)
    BY DEF CleanupInv, MissedInv, SparesMounts, RemoveAll
  <1>2. CleanupInv => [\A c \in Calls : SparesMounts(c)]_cleanupVars
    BY <1>1
  <1> QED BY <1>2, InvHolds, PTL DEF CleanupSpec, SeenMountsAreSpared
=============================================================================
