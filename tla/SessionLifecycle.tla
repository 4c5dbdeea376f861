-------------------------- MODULE SessionLifecycle --------------------------
(***************************************************************************)
(* The life of a Session (session.go, session_app.go, session_process.go): *)
(* Open resolves the runtime and opens the requested capabilities, Launch  *)
(* starts applications, their owners may Stop them, and Close tears        *)
(* everything down, applications first and managed infrastructure last.    *)
(*                                                                         *)
(* A member of Apps is one call of Launch and the application it starts,   *)
(* and at most one call of Stop on it; a member of CloseCallers is one call *)
(* of Close.  Open closes the session itself when it fails, as the closer  *)
(* Opener.  Deadlines may pass at any time while something is awaited.     *)
(***************************************************************************)
EXTENDS ProcessGroup, Naturals, Sequences, SequencesExt, FiniteSets

CONSTANTS
    Capabilities,   \* the requested ones, in the order of allCapabilities
    Required,       \* those that Open must not do without
    Managed,        \* whether the target has infrastructure of its own
    Apps,           \* calls of Launch
    CloseCallers,   \* calls of Close
    Opener          \* the call of Close that a failing Open makes

ASSUME RequiredAreRequested == Required \subseteq ToSet(Capabilities)
ASSUME ManagedIsBoolean == Managed \in BOOLEAN
ASSUME FreeIsNoApp == "free" \notin Apps
ASSUME OpenerIsNoCaller == Opener \notin CloseCallers

CloseCalls == CloseCallers \cup {Opener}

VARIABLES
    openPc,                        \* where Open is
    nextCap,                       \* Open: index of the capability it is at
    openCtx,                       \* Open: whether its context is done
    backends,                      \* capabilities whose backend is installed and open
    everOpen,                      \* history: capabilities whose backend was installed
    infra,                         \* "none", "running", "stopped"
    mu,                            \* lifecycleMu: who holds it, or "free"
    sClosed,                       \* s.closed
    sCancelled,                    \* whether s.ctx is done
    apps,                          \* s.apps
    launchPc, launchCtx, stopPc,   \* each application's calls
    appGroup,                      \* each application's process group and its managedProc
    done,                          \* applications whose a.done is closed
    settled,                       \* history: applications that some stop has seen end
    appStruck,                     \* history: a stranger was signalled after that
    closeOnce,                     \* s.closeOnce: "no", "running", "done"
    closerPc,                      \* where each Close call is
    closeAt,                       \* where close() is
    todo,                          \* close(): the applications it still has to stop
    errs                           \* close(): where its errors come from

openVars == <<openPc, nextCap, openCtx>>
resources == <<backends, everOpen, infra>>
lifecycle == <<mu, sClosed, sCancelled, apps>>
appCalls == <<launchPc, launchCtx, stopPc>>
processes == <<appGroup, done, settled, appStruck>>
closeVars == <<closeOnce, closerPc, closeAt, todo, errs>>
lifecycleVars == <<openVars, resources, lifecycle, appCalls, processes, closeVars>>

LifecycleInit ==
    /\ openPc = "runtime" /\ nextCap = 1 /\ openCtx = FALSE
    /\ backends = {} /\ everOpen = {} /\ infra = "none"
    /\ mu = "free" /\ sClosed = FALSE /\ sCancelled = FALSE /\ apps = <<>>
    /\ launchPc = [a \in Apps |-> "idle"]
    /\ launchCtx = [a \in Apps |-> FALSE]
    /\ stopPc = [a \in Apps |-> "idle"]
    /\ appGroup = [a \in Apps |-> NotStarted]
    /\ done = {} /\ settled = {} /\ appStruck = {}
    /\ closeOnce = "no" /\ closerPc = [c \in CloseCalls |-> "idle"]
    /\ closeAt = "mark" /\ todo = <<>> /\ errs = {}

-----------------------------------------------------------------------------
(* Open.                                                                   *)

\* The caller's context is cancelled while Open runs.
OpenCancelled ==
    /\ openPc \in {"runtime", "check", "open", "recheck", "final"}
    /\ ~openCtx /\ openCtx' = TRUE
    /\ UNCHANGED <<openPc, nextCap, resources, lifecycle, appCalls, processes,
                   closeVars>>

\* resolveRuntime succeeds; a managed target has its infrastructure running.
ResolveRuntime ==
    /\ openPc = "runtime"
    /\ infra' = IF Managed THEN "running" ELSE "none"
    /\ openPc' = "check"
    /\ UNCHANGED <<nextCap, openCtx, backends, everOpen, lifecycle, appCalls,
                   processes, closeVars>>

\* resolveRuntime fails and has cleaned up after itself (startSession).
RuntimeFails ==
    /\ openPc = "runtime"
    /\ openPc' = "failed"
    /\ sCancelled' = TRUE
    /\ UNCHANGED <<nextCap, openCtx, resources, mu, sClosed, apps, appCalls,
                   processes, closeVars>>

\* Mutant of AfterFailure: Open returns the error and leaves the rest.
AfterFailureReturn == "failed"

\* What Open does with an error: it closes the session.
AfterFailure == "closing"

\* if err := ctx.Err(), before a capability and after the last one.
CheckOpenContext ==
    /\ openPc = "check"
    /\ openPc' = CASE openCtx -> AfterFailure
                   [] ~openCtx /\ nextCap <= Len(Capabilities) -> "open"
                   [] OTHER -> "opened"
    /\ UNCHANGED <<nextCap, openCtx, resources, lifecycle, appCalls, processes,
                   closeVars>>

\* openCapabilityContext installs the backend.
OpenCapability ==
    /\ openPc = "open"
    /\ backends' = backends \cup {Capabilities[nextCap]}
    /\ everOpen' = everOpen \cup {Capabilities[nextCap]}
    /\ openPc' = "recheck"
    /\ UNCHANGED <<nextCap, openCtx, infra, lifecycle, appCalls, processes,
                   closeVars>>

\* openCapabilityContext fails; closeFailedBackend has closed what it got.
CapabilityFails ==
    /\ openPc = "open"
    /\ IF openCtx \/ Capabilities[nextCap] \in Required
       THEN openPc' = AfterFailure /\ UNCHANGED nextCap
       ELSE openPc' = "check" /\ nextCap' = nextCap + 1
    /\ UNCHANGED <<openCtx, resources, lifecycle, appCalls, processes, closeVars>>

\* if ctxErr := ctx.Err(), after a capability has been opened.
RecheckOpenContext ==
    /\ openPc = "recheck"
    /\ IF openCtx
       THEN openPc' = AfterFailure /\ UNCHANGED nextCap
       ELSE openPc' = "check" /\ nextCap' = nextCap + 1
    /\ UNCHANGED <<openCtx, resources, lifecycle, appCalls, processes, closeVars>>

\* The Close call of a failing Open has returned, and Open returns.
OpenFails ==
    /\ openPc = "closing"
    /\ closerPc[Opener] = "returned"
    /\ openPc' = "failed"
    /\ UNCHANGED <<nextCap, openCtx, resources, lifecycle, appCalls, processes,
                   closeVars>>

-----------------------------------------------------------------------------
(* Launch.                                                                 *)

LaunchCancelled(a) ==
    /\ launchPc[a] \in {"idle", "lock", "check", "start"}
    /\ ~launchCtx[a] /\ launchCtx' = [launchCtx EXCEPT ![a] = TRUE]
    /\ UNCHANGED <<openVars, resources, lifecycle, launchPc, stopPc, processes,
                   closeVars>>

\* The checks before the lock.
LaunchCalled(a) ==
    /\ openPc = "opened"
    /\ launchPc[a] = "idle"
    /\ launchPc' = [launchPc EXCEPT ![a] = IF launchCtx[a] THEN "refused" ELSE "lock"]
    /\ UNCHANGED <<openVars, resources, lifecycle, launchCtx, stopPc, processes,
                   closeVars>>

\* lifecycleMu can be taken.
MuFree == mu = "free"

LaunchLocks(a) ==
    /\ launchPc[a] = "lock"
    /\ MuFree
    /\ mu' = a
    /\ launchPc' = [launchPc EXCEPT ![a] = "check"]
    /\ UNCHANGED <<openVars, resources, sClosed, sCancelled, apps, launchCtx,
                   stopPc, processes, closeVars>>

\* if s.closed, and if err := ctx.Err(), under the lock.
LaunchChecks(a) ==
    /\ launchPc[a] = "check"
    /\ IF sClosed \/ launchCtx[a]
       THEN launchPc' = [launchPc EXCEPT ![a] = "refused"] /\ mu' = "free"
       ELSE launchPc' = [launchPc EXCEPT ![a] = "start"] /\ UNCHANGED mu
    /\ UNCHANGED <<openVars, resources, sClosed, sCancelled, apps, launchCtx,
                   stopPc, processes, closeVars>>

\* Start succeeds; the application joins s.apps and its reaper starts.
LaunchStarts(a) ==
    /\ launchPc[a] = "start"
    /\ appGroup' = [appGroup EXCEPT ![a] = Started]
    /\ apps' = Append(apps, a)
    /\ mu' = "free"
    /\ launchPc' = [launchPc EXCEPT ![a] = "launched"]
    /\ UNCHANGED <<openVars, resources, sClosed, sCancelled, launchCtx, stopPc,
                   done, settled, appStruck, closeVars>>

\* Start fails.
LaunchFails(a) ==
    /\ launchPc[a] = "start"
    /\ mu' = "free"
    /\ launchPc' = [launchPc EXCEPT ![a] = "refused"]
    /\ UNCHANGED <<openVars, resources, sClosed, sCancelled, apps, launchCtx,
                   stopPc, processes, closeVars>>

-----------------------------------------------------------------------------
(* Processes.                                                              *)

AppMoves(a) ==
    /\ \E g \in Successors(appGroup[a]) : appGroup' = [appGroup EXCEPT ![a] = g]
    /\ UNCHANGED <<openVars, resources, lifecycle, appCalls, done, settled,
                   appStruck, closeVars>>

\* Application.reap: cmd.Wait returns ...
ReapApp(a) ==
    /\ appGroup[a].leader = "zombie"
    /\ appGroup' = [appGroup EXCEPT ![a].leader = "reaped"]
    /\ UNCHANGED <<openVars, resources, lifecycle, appCalls, done, settled,
                   appStruck, closeVars>>

\* ... and a.done is closed.
PublishExit(a) ==
    /\ appGroup[a].leader = "reaped" /\ a \notin done
    /\ done' = done \cup {a}
    /\ UNCHANGED <<openVars, resources, lifecycle, appCalls, appGroup, settled,
                   appStruck, closeVars>>

\* A signal that reaches a stranger although the application was settled.
Strikes(a) == IF Reaches(appGroup[a]) /\ appGroup[a].stranger /\ a \in settled
              THEN {a} ELSE {}

-----------------------------------------------------------------------------
(* Application.Stop, called by the application's owner.                    *)

StopSignals(a) ==
    /\ launchPc[a] = "launched" /\ stopPc[a] = "idle"
    /\ appGroup' = [appGroup EXCEPT ![a] = Terminated(@)]
    /\ appStruck' = appStruck \cup Strikes(a)
    /\ stopPc' = [stopPc EXCEPT ![a] = "wait"]
    /\ UNCHANGED <<openVars, resources, lifecycle, launchPc, launchCtx, done,
                   settled, closeVars>>

\* One look of waitGroup.
StopLooks(a) ==
    /\ stopPc[a] = "wait"
    /\ appGroup' = [appGroup EXCEPT ![a] = Observed(@)]
    /\ IF GroupAlive(appGroup[a])
       THEN UNCHANGED <<stopPc, settled>>
       ELSE /\ stopPc' = [stopPc EXCEPT ![a] = "stopped"]
            /\ settled' = settled \cup {a}
    /\ UNCHANGED <<openVars, resources, lifecycle, launchPc, launchCtx, done,
                   appStruck, closeVars>>

\* The caller's context ends the call, or the signal is refused.
StopGivesUp(a) ==
    /\ launchPc[a] = "launched" /\ stopPc[a] \in {"idle", "wait"}
    /\ stopPc' = [stopPc EXCEPT ![a] = "gaveUp"]
    /\ UNCHANGED <<openVars, resources, lifecycle, launchPc, launchCtx,
                   processes, closeVars>>

-----------------------------------------------------------------------------
(* Close.                                                                  *)

\* Close is called, by the user of an open session or by a failing Open.
CloseCalled(c) ==
    /\ closerPc[c] = "idle"
    /\ openPc = IF c = Opener THEN "closing" ELSE "opened"
    /\ IF closeOnce = "no"
       THEN /\ closeOnce' = "running"
            /\ closerPc' = [closerPc EXCEPT ![c] = "body"]
       ELSE /\ closerPc' = [closerPc EXCEPT ![c] = "join"]
            /\ UNCHANGED closeOnce
    /\ UNCHANGED <<openVars, resources, lifecycle, appCalls, processes, closeAt,
                   todo, errs>>

\* Mutant of Joinable: a later Close does not wait for the first.
JoinableAtOnce == closeOnce # "no"

\* closeOnce.Do returns to the others, and closeDone is closed.
Joinable == closeOnce = "done"

\* <-s.closeDone.
CloseReturns(c) ==
    /\ closerPc[c] = "join"
    /\ Joinable
    /\ closerPc' = [closerPc EXCEPT ![c] = "returned"]
    /\ UNCHANGED <<openVars, resources, lifecycle, appCalls, processes, closeOnce,
                   closeAt, todo, errs>>

\* The part of close() that runs now.
InClose(l) == closeOnce = "running" /\ closeAt = l

\* s.closed is set and s.apps copied, under the lock.
MarkClosed ==
    /\ InClose("mark")
    /\ MuFree
    /\ sClosed' = TRUE
    /\ todo' = apps
    /\ closeAt' = "cancel"
    /\ UNCHANGED <<openVars, resources, mu, sCancelled, apps, appCalls, processes,
                   closeOnce, closerPc, errs>>

CancelSession ==
    /\ InClose("cancel")
    /\ sCancelled' = TRUE
    /\ closeAt' = "apps"
    /\ UNCHANGED <<openVars, resources, mu, sClosed, apps, appCalls, processes,
                   closeOnce, closerPc, todo, errs>>

\* The loop over the applications, the last one first.
NextApp ==
    /\ InClose("apps")
    /\ closeAt' = IF todo = <<>> THEN "backends" ELSE "term"
    /\ UNCHANGED <<openVars, resources, lifecycle, appCalls, processes, closeOnce,
                   closerPc, todo, errs>>

\* stopApplication is over, with an error or without.
AppEnds(failed) ==
    /\ todo' = Front(todo)
    /\ errs' = IF failed THEN errs \cup {Last(todo)} ELSE errs
    /\ settled' = IF failed THEN settled ELSE settled \cup {Last(todo)}
    /\ closeAt' = "apps"

\* app.Stop signals the group.
TermApp ==
    /\ InClose("term")
    /\ appGroup' = [appGroup EXCEPT ![Last(todo)] = Terminated(@)]
    /\ appStruck' = appStruck \cup Strikes(Last(todo))
    /\ closeAt' = "waitTerm"
    /\ UNCHANGED <<openVars, resources, lifecycle, appCalls, done, settled,
                   closeOnce, closerPc, todo, errs>>

\* kill(2) refuses the signal, which ends stopApplication.
SignalFails ==
    /\ closeAt \in {"term", "kill"} /\ InClose(closeAt)
    /\ Reaches(appGroup[Last(todo)])
    /\ AppEnds(TRUE)
    /\ UNCHANGED <<openVars, resources, lifecycle, appCalls, appGroup, done, appStruck,
                   closeOnce, closerPc>>

\* One look of waitGroup.
LookAtApp ==
    /\ closeAt \in {"waitTerm", "waitKill"} /\ InClose(closeAt)
    /\ appGroup' = [appGroup EXCEPT ![Last(todo)] = Observed(@)]
    /\ CASE GroupAlive(appGroup[Last(todo)]) ->
               UNCHANGED <<closeAt, todo, errs, settled>>
         [] ~GroupAlive(appGroup[Last(todo)]) /\ closeAt = "waitTerm" -> AppEnds(FALSE)
         [] OTHER -> closeAt' = "waitExit" /\ UNCHANGED <<todo, errs, settled>>
    /\ UNCHANGED <<openVars, resources, lifecycle, appCalls, done, appStruck, closeOnce,
                   closerPc>>

\* What follows the first deadline: SIGKILL.
AfterGrace == closeAt' = "kill" /\ UNCHANGED <<settled, todo, errs>>

\* Mutant of GraceEnds: the wait after SIGTERM has no deadline.
GraceEndsWithGroup ==
    /\ InClose("waitTerm")
    /\ ~KernelSees(appGroup[Last(todo)])
    /\ AfterGrace
    /\ UNCHANGED <<openVars, resources, lifecycle, appCalls, appGroup, done, appStruck,
                   closeOnce, closerPc>>

\* The grace period ends before the group does.
GraceEnds ==
    /\ InClose("waitTerm")
    /\ AfterGrace
    /\ UNCHANGED <<openVars, resources, lifecycle, appCalls, appGroup, done, appStruck,
                   closeOnce, closerPc>>

KillApp ==
    /\ InClose("kill")
    /\ appGroup' = [appGroup EXCEPT ![Last(todo)] = Killed(@)]
    /\ appStruck' = appStruck \cup Strikes(Last(todo))
    /\ closeAt' = "waitKill"
    /\ UNCHANGED <<openVars, resources, lifecycle, appCalls, done, settled,
                   closeOnce, closerPc, todo, errs>>

\* app.Wait(killCtx) returns the exit status.
AppExited ==
    /\ InClose("waitExit")
    /\ Last(todo) \in done
    /\ AppEnds(FALSE)
    /\ UNCHANGED <<openVars, resources, lifecycle, appCalls, appGroup, done, appStruck,
                   closeOnce, closerPc>>

\* killCtx ends first.
KillDeadline ==
    /\ closeAt \in {"waitKill", "waitExit"} /\ InClose(closeAt)
    /\ AppEnds(TRUE)
    /\ UNCHANGED <<openVars, resources, lifecycle, appCalls, appGroup, done, appStruck,
                   closeOnce, closerPc>>

\* The bundles' close, in the order of allCapabilities; each may fail.
CloseBackend ==
    /\ InClose("backends")
    /\ backends # {}
    /\ LET i == CHOOSE i \in DOMAIN Capabilities :
                   /\ Capabilities[i] \in backends
                   /\ \A j \in 1..i - 1 : Capabilities[j] \notin backends
       IN  backends' = backends \ {Capabilities[i]}
    /\ \E failed \in BOOLEAN :
          errs' = IF failed THEN errs \cup {"backend"} ELSE errs
    /\ UNCHANGED <<openVars, everOpen, infra, lifecycle, appCalls, processes,
                   closeOnce, closerPc, closeAt, todo>>

\* s.infra.stop(), if there is one, and close() returns.
StopInfra ==
    /\ InClose("backends")
    /\ backends = {}
    /\ infra' = IF infra = "running" THEN "stopped" ELSE infra
    /\ \E failed \in {f \in BOOLEAN : f => infra = "running"} :
          errs' = IF failed THEN errs \cup {"infra"} ELSE errs
    /\ closeAt' = "publish"
    /\ UNCHANGED <<openVars, backends, everOpen, lifecycle, appCalls, processes,
                   closeOnce, closerPc, todo>>

\* s.closeErr is set, closeDone closed, and the first Close returns.
PublishClose(c) ==
    /\ closerPc[c] = "body"
    /\ InClose("publish")
    /\ closeOnce' = "done"
    /\ closerPc' = [closerPc EXCEPT ![c] = "returned"]
    /\ UNCHANGED <<openVars, resources, lifecycle, appCalls, processes, closeAt,
                   todo, errs>>

-----------------------------------------------------------------------------

CloseBody ==
    \/ MarkClosed \/ CancelSession \/ NextApp \/ TermApp \/ SignalFails
    \/ LookAtApp \/ GraceEnds \/ KillApp \/ AppExited \/ KillDeadline
    \/ CloseBackend \/ StopInfra
    \/ \E c \in CloseCalls : PublishClose(c)

OpenStep ==
    \/ ResolveRuntime \/ RuntimeFails \/ CheckOpenContext \/ OpenCapability
    \/ CapabilityFails \/ RecheckOpenContext \/ OpenFails

LaunchStep(a) ==
    LaunchLocks(a) \/ LaunchChecks(a) \/ LaunchStarts(a) \/ LaunchFails(a)

LifecycleNext ==
    \/ OpenStep \/ OpenCancelled \/ CloseBody
    \/ \E a \in Apps :
          \/ LaunchCancelled(a) \/ LaunchCalled(a) \/ LaunchStep(a)
          \/ AppMoves(a) \/ ReapApp(a) \/ PublishExit(a)
          \/ StopSignals(a) \/ StopLooks(a) \/ StopGivesUp(a)
    \/ \E c \in CloseCalls : CloseCalled(c) \/ CloseReturns(c)

LifecycleSpec == LifecycleInit /\ [][LifecycleNext]_lifecycleVars

\* Goroutines that can run do, deadlines pass, a failing Open calls Close, and
\* a reaper notices its child.  Nothing is assumed of the applications.
LifecycleFairness ==
    /\ WF_lifecycleVars(OpenStep) /\ WF_lifecycleVars(CloseCalled(Opener))
    /\ WF_lifecycleVars(CloseBody)
    /\ WF_lifecycleVars(GraceEnds \/ KillDeadline)
    /\ \A c \in CloseCalls : WF_lifecycleVars(CloseReturns(c))
    /\ \A a \in Apps : WF_lifecycleVars(LaunchStep(a)) /\ WF_lifecycleVars(ReapApp(a) \/ PublishExit(a))

-----------------------------------------------------------------------------
(* Properties.                                                             *)

\* Once Close has stopped the desktop, and once any Close has returned, no
\* backend is open and no process that the session started is left, unless
\* the error speaks of that application (the order of close(), and
\* stopApplication against Launch, Stop and exits).
NothingOutlivesClose ==
    infra = "stopped" \/ (\E c \in CloseCalls : closerPc[c] = "returned") =>
        /\ backends = {}
        /\ \A a \in Apps : Ours(appGroup[a]) => a \in errs

\* An Open that failed leaves nothing behind: every backend it had opened is
\* closed, its infrastructure stopped and the session's context cancelled
\* (the error paths of Open).
FailedOpenLeavesNothing ==
    openPc = "failed" => backends = {} /\ infra # "running" /\ sCancelled

\* Once a stop has seen an application's group end, nobody signals its pid
\* again: the pid may belong to a stranger by then (managedProc.groupGone,
\* "Repeated stops must not send signals to a recycled process identity").
SettledAreSpared == appStruck = {}

\* The teardown: no backend and no application outlives Close or the desktop
\* unreported, a failed Open leaves nothing, and no stop signals a stranger.
TeardownIsExact == NothingOutlivesClose /\ FailedOpenLeavesNothing /\ SettledAreSpared

\* No call is under way that has to return: Close, whatever the applications
\* do, a call of Launch, and Open, which hands out a session or fails.
LifecycleQuiet ==
    /\ \A c \in CloseCalls : closerPc[c] \in {"idle", "returned"}
    /\ openPc \in {"opened", "failed"}
    /\ \A a \in Apps : launchPc[a] # "lock"
=============================================================================
