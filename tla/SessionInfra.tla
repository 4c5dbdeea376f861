---------------------------- MODULE SessionInfra ----------------------------
(***************************************************************************)
(* The infrastructure of a managed target (session_infra.go): startSession *)
(* creates a runtime directory and starts the helpers one by one, a        *)
(* handler goroutine waits for signals, and stop, which the failing        *)
(* startup, the handler and Session.Close all call, ends the helpers and   *)
(* removes the directory (session_process.go, session_cleanup.go).         *)
(*                                                                         *)
(* A helper is a process group (ProcessGroup).  A step is one system call, *)
(* one channel operation or one access to a field of sessionInfra; the     *)
(* fields of the helpers are read and written without a lock.              *)
(***************************************************************************)
EXTENDS ProcessGroup, Naturals, Sequences, SequencesExt, FiniteSets

CONSTANTS
    Helpers,     \* the helpers in the order in which they are started
    Essential,   \* the helpers without which startup fails
    Stoppers     \* calls of stop by Session.Close

ASSUME HelpersAreASequence == Helpers \in Seq(ToSet(Helpers)) /\ Helpers # <<>>
ASSUME EssentialAreHelpers == Essential \subseteq ToSet(Helpers)

Procs == ToSet(Helpers)
StopCalls == Stoppers \cup {"startup", "handler"}

VARIABLES
    startPc,       \* where startSession is
    helperAt,      \* startSession: index of the helper it is at
    startCtx,      \* whether the caller's or the startup context is done
    runtimeDir,    \* the runtime directory: "none", "present", "removed"
    mounted,       \* whether something is mounted below it
    lost,          \* history: the directory was removed with a mount below
    field,         \* helpers whose managedSessionProcess is stored in infra
    helperGroup,   \* the helpers' process groups
    infraCtx,      \* whether infra.ctx is done
    handler,       \* CleanupOnSignal: "off", "watching", "ended"
    stopCh,        \* whether its stopCh is closed
    early,         \* history: a signal has arrived before startup was over
    stopOnce,      \* stopOnce: "no", "running", "done"
    stopperPc,     \* where each call of stop is
    stopAt,        \* where the body of stop is
    turn,          \* the helpers the body has still to stop, last one first
    failure        \* infra.failure is set

startVars == <<startPc, helperAt, startCtx>>
fileVars == <<runtimeDir, mounted, lost>>
handlerVars == <<handler, stopCh, early>>
stopVars == <<stopOnce, stopperPc, stopAt, turn, failure>>
infraVars == <<startVars, fileVars, field, helperGroup, infraCtx, handlerVars, stopVars>>

InfraInit ==
    /\ startPc = "dirs" /\ helperAt = 1 /\ startCtx = FALSE
    /\ runtimeDir = "none" /\ mounted = FALSE /\ lost = FALSE
    /\ field = {} /\ helperGroup = [p \in Procs |-> NotStarted]
    /\ infraCtx = FALSE
    /\ handler = "off" /\ stopCh = FALSE /\ early = FALSE
    /\ stopOnce = "no" /\ stopperPc = [c \in StopCalls |-> "idle"]
    /\ stopAt = "unregister" /\ turn = Helpers /\ failure = FALSE

-----------------------------------------------------------------------------
(* startSession.                                                           *)

Starting == startPc \notin {"started", "failed"}

\* The startup context is cancelled or its deadline passes.
StartupCancelled ==
    /\ Starting /\ ~startCtx
    /\ startCtx' = TRUE
    /\ UNCHANGED <<startPc, helperAt, fileVars, field, helperGroup, infraCtx, handlerVars,
                   stopVars>>

\* prepareSessionRuntimeDirs; if it fails, the deferred function removes what
\* there is, for there is no infra yet.
PrepareDirs ==
    /\ startPc = "dirs"
    /\ \/ startPc' = "pidfile" /\ runtimeDir' = "present" /\ UNCHANGED failure
       \/ startPc' = "failed" /\ runtimeDir' \in {"none", "removed"} /\ UNCHANGED failure
       \/ startPc' = "failed" /\ runtimeDir' = "present" /\ failure' = TRUE
    /\ UNCHANGED <<helperAt, startCtx, mounted, lost, field, helperGroup, infraCtx,
                   handlerVars, stopOnce, stopperPc, stopAt, turn>>

\* The owner's pidfile is written and CleanupOnSignal starts its goroutine.
Register ==
    /\ startPc = "pidfile"
    /\ startPc' = "spawn"
    /\ handler' = "watching"
    /\ UNCHANGED <<helperAt, startCtx, fileVars, field, helperGroup, infraCtx, stopCh,
                   early, stopVars>>

PidfileFails ==
    /\ startPc = "pidfile"
    /\ startPc' = "cleanup"
    /\ UNCHANGED <<helperAt, startCtx, fileVars, field, helperGroup, infraCtx, handlerVars,
                   stopVars>>

\* startSession goes on to the next helper or returns.
Proceed ==
    /\ helperAt' = helperAt + 1
    /\ startPc' = IF helperAt = Len(Helpers) THEN "started" ELSE "spawn"

\* A helper did not come up.
HelperFails ==
    IF Helpers[helperAt] \in Essential
    THEN startPc' = "cleanup" /\ UNCHANGED helperAt
    ELSE Proceed

\* cmd.Start looks at infra.ctx first.
CheckSpawn ==
    /\ startPc = "spawn"
    /\ ~infraCtx
    /\ startPc' = "fork"
    /\ UNCHANGED <<helperAt, startCtx, fileVars, field, helperGroup, infraCtx, handlerVars,
                   stopVars>>

\* cmd.Start fails, always when infra.ctx is done.
SpawnFails ==
    /\ startPc \in {"spawn", "fork"}
    /\ HelperFails
    /\ UNCHANGED <<startCtx, fileVars, field, helperGroup, infraCtx, handlerVars, stopVars>>

\* The process starts.
Fork ==
    /\ startPc = "fork"
    /\ helperGroup' = [helperGroup EXCEPT ![Helpers[helperAt]] = Started]
    /\ startPc' = "assign"
    /\ UNCHANGED <<helperAt, startCtx, fileVars, field, infraCtx, handlerVars, stopVars>>

\* Mutant of Assign: a helper that startup can do without is not kept.
AssignEssential ==
    /\ startPc = "assign"
    /\ field' = field \cup ({Helpers[helperAt]} \cap Essential)
    /\ startPc' = "ready"
    /\ UNCHANGED <<helperAt, startCtx, fileVars, helperGroup, infraCtx, handlerVars, stopVars>>

\* newManagedSessionProcess: the field is set and the reaper starts.
Assign ==
    /\ startPc = "assign"
    /\ field' = field \cup {Helpers[helperAt]}
    /\ startPc' = "ready"
    /\ UNCHANGED <<helperAt, startCtx, fileVars, helperGroup, infraCtx, handlerVars, stopVars>>

\* The helper's sockets or its address appear; after the last essential one
\* startSession looks at the caller's context.
Ready ==
    /\ startPc = "ready"
    /\ runtimeDir = "present"
    /\ IF startCtx /\ Helpers[helperAt] \in Essential
       THEN startPc' = "cleanup" /\ UNCHANGED helperAt
       ELSE Proceed
    /\ UNCHANGED <<startCtx, fileVars, field, helperGroup, infraCtx, handlerVars, stopVars>>

\* They do not appear in time.
NotReady ==
    /\ startPc = "ready"
    /\ HelperFails
    /\ UNCHANGED <<startCtx, fileVars, field, helperGroup, infraCtx, handlerVars, stopVars>>

\* The deferred cleanup has called stop, which has returned.
StartupFails ==
    /\ startPc = "cleanup"
    /\ stopperPc["startup"] = "returned"
    /\ startPc' = "failed"
    /\ UNCHANGED <<helperAt, startCtx, fileVars, field, helperGroup, infraCtx, handlerVars,
                   stopVars>>

-----------------------------------------------------------------------------
(* Processes.                                                              *)

HelperMovesOn(p) ==
    /\ \E g \in Successors(helperGroup[p]) : helperGroup' = [helperGroup EXCEPT ![p] = g]
    /\ UNCHANGED <<startVars, fileVars, field, infraCtx, handlerVars, stopVars>>

\* exec.CommandContext kills the leader when infra.ctx is done.
ContextKills(p) ==
    /\ infraCtx
    /\ helperGroup[p].leader = "running"
    /\ helperGroup' = [helperGroup EXCEPT ![p].leader = "zombie"]
    /\ UNCHANGED <<startVars, fileVars, field, infraCtx, handlerVars, stopVars>>

\* managedSessionProcess.reap.
ReapHelper(p) ==
    /\ p \in field
    /\ helperGroup[p].leader = "zombie"
    /\ helperGroup' = [helperGroup EXCEPT ![p].leader = "reaped"]
    /\ UNCHANGED <<startVars, fileVars, field, infraCtx, handlerVars, stopVars>>

\* A process of a helper mounts a filesystem in the runtime directory.
HelperMounts(p) ==
    /\ helperGroup[p].leader = "running" \/ helperGroup[p].kids
    /\ ~helperGroup[p].killed
    /\ runtimeDir = "present" /\ ~mounted
    /\ mounted' = TRUE
    /\ UNCHANGED <<startVars, runtimeDir, lost, field, helperGroup, infraCtx, handlerVars, stopVars>>

-----------------------------------------------------------------------------
(* stop.                                                                   *)

MayCallStop(c) ==
    CASE c = "startup" -> startPc = "cleanup"
      [] c = "handler" -> handler = "watching"
      [] OTHER -> startPc = "started"

\* A call of stop enters stopOnce.Do, or waits for the call that has.
EnterStop(c) ==
    /\ stopperPc[c] = "idle"
    /\ IF stopOnce = "no"
       THEN stopOnce' = "running" /\ stopperPc' = [stopperPc EXCEPT ![c] = "body"]
       ELSE UNCHANGED stopOnce /\ stopperPc' = [stopperPc EXCEPT ![c] = "join"]
    /\ UNCHANGED <<startVars, fileVars, field, helperGroup, infraCtx, handler, stopCh,
                   stopAt, turn, failure>>

CallStop(c) ==
    /\ c # "handler"
    /\ MayCallStop(c)
    /\ EnterStop(c)
    /\ UNCHANGED early

\* The handler's goroutine: a signal, or infra.ctx is done.
HandlerWakes ==
    /\ MayCallStop("handler")
    /\ EnterStop("handler")
    /\ early' = (early \/ (Starting /\ ~infraCtx))

\* The handler's goroutine: stopCh is closed.
HandlerEnds ==
    /\ handler = "watching"
    /\ stopperPc["handler"] = "idle" /\ stopCh
    /\ handler' = "ended"
    /\ UNCHANGED <<startVars, fileVars, field, helperGroup, infraCtx, stopCh, early, stopVars>>

\* Mutant of Join: only the call that runs the teardown is released.
JoinNever(c) ==
    /\ stopperPc[c] = "join"
    /\ stopOnce = "no"
    /\ stopperPc' = [stopperPc EXCEPT ![c] = "returned"]
    /\ UNCHANGED <<startVars, fileVars, field, helperGroup, infraCtx, handlerVars, stopOnce, stopAt,
                   turn, failure>>

\* <-i.stopDone.
JoinStop(c) ==
    /\ stopperPc[c] = "join"
    /\ stopOnce = "done"
    /\ stopperPc' = [stopperPc EXCEPT ![c] = "returned"]
    /\ UNCHANGED <<startVars, fileVars, field, helperGroup, infraCtx, handlerVars, stopOnce, stopAt,
                   turn, failure>>

InStop(l) == stopOnce = "running" /\ stopAt = l

\* unregister(), if CleanupOnSignal has stored it.
Unregister ==
    /\ InStop("unregister")
    /\ stopCh' = (handler # "off")
    /\ stopAt' = "cancel"
    /\ UNCHANGED <<startVars, fileVars, field, helperGroup, infraCtx, handler, early, stopOnce,
                   stopperPc, turn, failure>>

CancelInfra ==
    /\ InStop("cancel")
    /\ infraCtx' = TRUE
    /\ stopAt' = "look"
    /\ UNCHANGED <<startVars, fileVars, field, helperGroup, handlerVars, stopOnce, stopperPc, turn,
                   failure>>

\* stopManagedProcess(nil).
NotTracked(p) == p \notin field

\* The next helper's field is read, the one started last first.
LookAtHelper ==
    /\ InStop("look")
    /\ CASE turn = <<>> -> stopAt' = "unmount" /\ UNCHANGED turn
         [] turn # <<>> /\ NotTracked(Last(turn)) -> turn' = Front(turn) /\ UNCHANGED stopAt
         [] OTHER -> stopAt' = "term" /\ UNCHANGED turn
    /\ UNCHANGED <<startVars, fileVars, field, helperGroup, infraCtx, handlerVars, stopOnce, stopperPc,
                   failure>>

TermHelper ==
    /\ InStop("term")
    /\ helperGroup' = [helperGroup EXCEPT ![Last(turn)] = Terminated(@)]
    /\ stopAt' = "waitLeader"
    /\ UNCHANGED <<startVars, fileVars, field, infraCtx, handlerVars, stopOnce, stopperPc, turn,
                   failure>>

\* waitTimeout: waitDone is closed.
LeaderReaped ==
    /\ InStop("waitLeader")
    /\ helperGroup[Last(turn)].leader = "reaped"
    /\ stopAt' = "waitGroup"
    /\ UNCHANGED <<startVars, fileVars, field, helperGroup, infraCtx, handlerVars, stopOnce, stopperPc,
                   turn, failure>>

HelperDone == turn' = Front(turn) /\ stopAt' = "look"

\* waitGroupTimeout: one look at the group.
LookAtGroup ==
    /\ stopAt \in {"waitGroup", "waitKilled"} /\ InStop(stopAt)
    /\ helperGroup' = [helperGroup EXCEPT ![Last(turn)] = Observed(@)]
    /\ IF GroupAlive(helperGroup[Last(turn)]) THEN UNCHANGED <<turn, stopAt>> ELSE HelperDone
    /\ UNCHANGED <<startVars, fileVars, field, infraCtx, handlerVars, stopOnce, stopperPc, failure>>

\* The first wait has timed out: SIGKILL.
AfterTimeout == stopAt' = "kill" /\ UNCHANGED turn

TermTimesOut ==
    /\ stopAt \in {"waitLeader", "waitGroup"} /\ InStop(stopAt)
    /\ AfterTimeout
    /\ UNCHANGED <<startVars, fileVars, field, helperGroup, infraCtx, handlerVars, stopOnce, stopperPc,
                   failure>>

KillHelper ==
    /\ InStop("kill")
    /\ helperGroup' = [helperGroup EXCEPT ![Last(turn)] = Killed(@)]
    /\ stopAt' = "waitKilled"
    /\ UNCHANGED <<startVars, fileVars, field, infraCtx, handlerVars, stopOnce, stopperPc, turn,
                   failure>>

\* The waits after SIGKILL time out.
KillTimesOut ==
    /\ InStop("waitKilled")
    /\ HelperDone
    /\ UNCHANGED <<startVars, fileVars, field, helperGroup, infraCtx, handlerVars, stopOnce, stopperPc,
                   failure>>

\* Mutant of MayRemove: a failed unmount is only logged.
MayRemoveAnyway == TRUE

\* unmountSubdirsContext has proved that nothing is mounted any more.
MayRemove == ~mounted

\* unmountSubdirsContext: fusermount unmounts what it can.
UnmountSubdirs ==
    /\ InStop("unmount")
    /\ mounted' \in {FALSE, mounted}
    /\ stopAt' = "verify"
    /\ UNCHANGED <<startVars, runtimeDir, lost, field, helperGroup, infraCtx, handlerVars, stopOnce,
                   stopperPc, turn, failure>>

\* It reads the mounts again, and the directory is kept if any remain.
VerifyUnmounted ==
    /\ InStop("verify")
    /\ IF MayRemove THEN stopAt' = "remove" /\ UNCHANGED failure
                    ELSE stopAt' = "publish" /\ failure' = TRUE
    /\ UNCHANGED <<startVars, fileVars, field, helperGroup, infraCtx, handlerVars, stopOnce, stopperPc,
                   turn>>

\* os.RemoveAll.
RemoveRuntime ==
    /\ InStop("remove")
    /\ \/ runtimeDir' = "removed" /\ lost' = mounted /\ UNCHANGED failure
       \/ failure' = TRUE /\ UNCHANGED <<runtimeDir, lost>>
    /\ stopAt' = "publish"
    /\ UNCHANGED <<startVars, mounted, field, helperGroup, infraCtx, handlerVars, stopOnce, stopperPc,
                   turn>>

\* close(i.stopDone).
PublishStop(c) ==
    /\ stopperPc[c] = "body"
    /\ InStop("publish")
    /\ stopOnce' = "done"
    /\ stopperPc' = [stopperPc EXCEPT ![c] = "returned"]
    /\ UNCHANGED <<startVars, fileVars, field, helperGroup, infraCtx, handlerVars, stopAt, turn,
                   failure>>

-----------------------------------------------------------------------------

StartStep ==
    \/ PrepareDirs \/ Register \/ PidfileFails \/ CheckSpawn \/ SpawnFails
    \/ Fork \/ Assign \/ Ready \/ NotReady \/ StartupFails

StopBody ==
    \/ Unregister \/ CancelInfra \/ LookAtHelper \/ TermHelper \/ LeaderReaped
    \/ LookAtGroup \/ TermTimesOut \/ KillHelper \/ KillTimesOut
    \/ UnmountSubdirs \/ VerifyUnmounted \/ RemoveRuntime
    \/ \E c \in StopCalls : PublishStop(c)

InfraNext ==
    \/ StartStep \/ StartupCancelled \/ StopBody \/ HandlerWakes \/ HandlerEnds
    \/ \E p \in Procs : HelperMovesOn(p) \/ ContextKills(p) \/ ReapHelper(p) \/ HelperMounts(p)
    \/ \E c \in StopCalls : CallStop(c) \/ JoinStop(c)

InfraSpec == InfraInit /\ [][InfraNext]_infraVars

\* Goroutines that can run do and deadlines pass; nothing is assumed of the
\* helpers except that the kernel ends a leader that was killed.
InfraFairness ==
    /\ WF_infraVars(StartStep) /\ WF_infraVars(CallStop("startup"))
    /\ WF_infraVars(StopBody) /\ WF_infraVars(TermTimesOut \/ KillTimesOut)
    /\ WF_infraVars(HandlerEnds \/ (infraCtx /\ HandlerWakes))
    /\ \A c \in StopCalls : WF_infraVars(JoinStop(c))
    /\ \A p \in Procs : WF_infraVars(ContextKills(p)) /\ WF_infraVars(ReapHelper(p))

-----------------------------------------------------------------------------
(* Properties.                                                             *)

\* Once startup is over and stop has returned to anyone, every process that
\* startup has started has ended or has been killed (stopManagedProcess),
\* unless a signal began the teardown while startup was still going on.
StopReachesAll ==
    ~early /\ (\E c \in StopCalls : stopperPc[c] = "returned") /\ ~Starting =>
        \A p \in Procs : Ours(helperGroup[p]) => helperGroup[p].killed

\* The runtime directory is removed only after the helpers that infra knows
\* have ended or been killed, and never with a filesystem mounted below it,
\* with the same exception (stop, unmountSubdirsWith); and a startup that
\* fails does remove it, unless it reports why not (the deferred cleanup of
\* startSession).
DirectoryGoesLast ==
    /\ ~early /\ runtimeDir = "removed" /\ field # {} =>
          /\ ~lost
          /\ \A p \in field : Ours(helperGroup[p]) => helperGroup[p].killed
    /\ startPc = "failed" => runtimeDir # "present" \/ failure

\* Once startup is over and a stop has returned, every helper has ended or has
\* been killed (stopManagedProcess); the runtime directory is removed after the
\* helpers and the mounts, and a failed startup removes it or says why not
\* (managedSession.stop).
RuntimeGoesLast == StopReachesAll /\ DirectoryGoesLast

\* No call is under way that has to return: startup, a call of stop, and the
\* handler's goroutine once stop was called (CleanupOnSignal, stop).
InfraQuiet ==
    /\ ~Starting
    /\ \A c \in StopCalls : stopperPc[c] \in {"idle", "returned"}
    /\ stopOnce # "no" => handler # "watching" \/ stopperPc["handler"] = "returned"
=============================================================================
