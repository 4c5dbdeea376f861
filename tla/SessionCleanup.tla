--------------------------- MODULE SessionCleanup ---------------------------
(***************************************************************************)
(* CleanupStaleSessionsContext (session_cleanup.go): the rate limit that   *)
(* the calls of one process share, and the scan that reaps the runtime     *)
(* directories whose owner has died, against owners that start and crash   *)
(* and against the helpers they leave behind.                              *)
(*                                                                         *)
(* A directory has one helper: the loop over the four pid files treats     *)
(* each like the others.  A look at /proc and the signal that follows it   *)
(* are one step, the kernel does not hand out a pid again in between.      *)
(***************************************************************************)
EXTENDS Naturals, Sequences, SequencesExt

CONSTANTS
    Dirs,       \* runtime directories, in the order in which Glob lists them
    Foreign,    \* those of another user
    Calls,      \* calls of CleanupStaleSessionsContext
    Scenes,     \* which of the directories and of the calls come together
    Interval,   \* cleanupStaleMinInterval
    Grace,      \* noPIDFileReapGrace
    MaxAge,     \* the caller's maxAge
    MaxTime,    \* bound on the clock
    MayFail     \* whether reading mountinfo may fail

AllDirs == ToSet(Dirs)

\* The times are numbers of ticks, and a scene is made of what there is.
ASSUME CleanupAssumption ==
    /\ {Interval, Grace, MaxAge, MaxTime} \subseteq Nat /\ Interval > 0
    /\ MayFail \in BOOLEAN
    /\ Dirs \in Seq(AllDirs)
    /\ \A s \in Scenes : s.dirs \subseteq AllDirs /\ s.calls \subseteq Calls

VARIABLES
    clock,
    last,       \* lastCleanupTime
    attempt,    \* cleanupAttempt
    call,       \* what each call keeps
    dir,        \* the directories
    helper,     \* the process group of each directory's helper
    struck,     \* history: directories whose helper's pid was a stranger's
                \* when it was signalled
    missed      \* history: calls that were about to remove a directory when
                \* something was mounted there, each with that directory

cleanupVars == <<clock, last, attempt, call, dir, helper, struck, missed>>

Never == 0      \* time.Time{}

Idle == [pc |-> "idle", mine |-> 0, start |-> 0, now |-> 0, todo |-> <<>>,
         limit |-> 0, tracked |-> FALSE, dead |-> {}, cancelled |-> FALSE]

Absent == [state |-> "absent", file |-> "none", owner |-> "none",
           mtime |-> 0, mounted |-> FALSE]

\* A directory that nobody ever creates, and a call that nobody makes.
NeverThere == [Absent EXCEPT !.owner = "nobody"]
NotMade == [Idle EXCEPT !.pc = "done"]

NoHelper == [leader |-> FALSE, kid |-> FALSE, stranger |-> FALSE,
             recorded |-> FALSE, term |-> FALSE, killed |-> FALSE]

CleanupInit ==
    /\ clock = Interval /\ last = Never /\ attempt = 0
    /\ \E s \in Scenes :
          /\ call = [c \in Calls |-> IF c \in s.calls THEN Idle ELSE NotMade]
          /\ dir = [d \in AllDirs |-> IF d \in s.dirs THEN Absent ELSE NeverThere]
    /\ helper = [d \in AllDirs |-> NoHelper]
    /\ struck = {} /\ missed = {}

-----------------------------------------------------------------------------
(* The owners of the directories, each a process of its own.               *)

Owned(d) == dir[d].state = "present" /\ dir[d].owner = "alive"

\* createManagedSessionRuntimeDir
Create(d) ==
    /\ dir[d] = Absent
    /\ dir' = [dir EXCEPT ![d].state = "present", ![d].owner = "alive",
                          ![d].mtime = clock]
    /\ UNCHANGED <<clock, last, attempt, call, helper, struck, missed>>

\* os.WriteFile creates the owner's pid file and then fills it.
WriteOwner(d) ==
    /\ Owned(d)
    /\ \/ /\ dir[d].file = "none"
          /\ dir' = [dir EXCEPT ![d].file = "empty", ![d].mtime = clock]
       \/ /\ dir[d].file = "empty"
          /\ dir' = [dir EXCEPT ![d].file = "pid"]
    /\ UNCHANGED <<clock, last, attempt, call, helper, struck, missed>>

StartHelper(d) ==
    /\ Owned(d) /\ dir[d].file = "pid" /\ helper[d] = NoHelper
    /\ helper' = [helper EXCEPT ![d].leader = TRUE]
    /\ UNCHANGED <<clock, last, attempt, call, dir, struck, missed>>

\* writeChildPID
RecordHelper(d) ==
    /\ Owned(d) /\ helper[d].leader /\ ~helper[d].recorded
    /\ helper' = [helper EXCEPT ![d].recorded = TRUE]
    /\ dir' = [dir EXCEPT ![d].mtime = clock]
    /\ UNCHANGED <<clock, last, attempt, call, struck, missed>>

OwnerDies(d) ==
    /\ Owned(d)
    /\ dir' = [dir EXCEPT ![d].owner = "dead"]
    /\ UNCHANGED <<clock, last, attempt, call, helper, struck, missed>>

-----------------------------------------------------------------------------
(* The processes of the sessions and the kernel.                           *)

\* The calls that have looked at mountinfo for the last time.
AboutToRemove(d) ==
    {c \in Calls : call[c].pc = "remove" /\ Head(call[c].todo) = d}

HelperMoves(d) ==
    LET h == helper[d] IN
    /\ \/ /\ h.leader /\ ~h.kid /\ ~h.killed
          /\ helper' = [helper EXCEPT ![d].kid = TRUE]
       \/ /\ h.leader
          /\ helper' = [helper EXCEPT ![d].leader = FALSE]
       \/ /\ h.kid
          /\ helper' = [helper EXCEPT ![d].kid = FALSE]
       \/ /\ h.recorded /\ ~h.leader /\ ~h.kid /\ ~h.stranger
          /\ helper' = [helper EXCEPT ![d].stranger = TRUE]
    /\ UNCHANGED <<clock, last, attempt, call, dir, struck, missed>>

\* A process of the session mounts a file system below its directory: one in a
\* helper's group, or one that no pid file names (D-Bus starts services of its
\* own), which no scan looks for and which outlives the owner and the helpers.
Mount(d) ==
    /\ dir[d].state = "present" /\ dir[d].file \in {"pid", "removed"}
    /\ ~dir[d].mounted
    /\ dir' = [dir EXCEPT ![d].mounted = TRUE]
    /\ missed' = missed \cup {<<c, d>> : c \in AboutToRemove(d)}
    /\ UNCHANGED <<clock, last, attempt, call, helper, struck>>

\* An owner that lives fills its pid file within the grace.
StartupIsQuick ==
    \A d \in AllDirs :
        Owned(d) /\ dir[d].file # "pid" => clock < dir[d].mtime + Grace

Tick ==
    /\ clock < MaxTime /\ StartupIsQuick
    /\ clock' = clock + 1
    /\ UNCHANGED <<last, attempt, call, dir, helper, struck, missed>>

\* The caller gives up while the call is under way.
Cancel(c) ==
    /\ ~call[c].cancelled /\ call[c].pc \notin {"done", "failed"}
    /\ call' = [call EXCEPT ![c].cancelled = TRUE]
    /\ UNCHANGED <<clock, last, attempt, dir, helper, struck, missed>>

-----------------------------------------------------------------------------
(* The claim.                                                              *)

Goto(c, pc) == call' = [call EXCEPT ![c].pc = pc]

\* Mutant of Release: the claim is given back whoever has claimed since.
ReleaseAnyway(c) ==
    /\ call[c].pc = "release"
    /\ last' = Never
    /\ Goto(c, "failed")
    /\ UNCHANGED <<clock, attempt, dir, helper, struck, missed>>

\* A cancelled call returns at once; one within the interval finds nothing to do.
Begin(c) ==
    /\ call[c].pc = "idle"
    /\ \/ /\ call[c].cancelled \/ clock - last < Interval
          /\ Goto(c, IF call[c].cancelled THEN "failed" ELSE "done")
          /\ UNCHANGED <<last, attempt>>
       \/ /\ ~call[c].cancelled /\ clock - last >= Interval
          /\ attempt' = attempt + 1 /\ last' = clock
          /\ call' = [call EXCEPT ![c].pc = "list", ![c].mine = attempt + 1,
                                  ![c].start = clock]
    /\ UNCHANGED <<clock, dir, helper, struck, missed>>

\* A failed scan gives its claim back unless a later scan has claimed since.
Release(c) ==
    /\ call[c].pc = "release"
    /\ last' = IF attempt = call[c].mine THEN Never ELSE last
    /\ Goto(c, "failed")
    /\ UNCHANGED <<clock, attempt, dir, helper, struck, missed>>

-----------------------------------------------------------------------------
(* The scan.                                                               *)

Here(c) == Head(call[c].todo)

\* The directory is dealt with.
Skipped(c) == call' = [call EXCEPT ![c].pc = "next", ![c].todo = Tail(@),
                                   ![c].limit = 0, ![c].tracked = FALSE]

\* ctx.Err() at the head of a step: the scan fails.
Stops(c) == call[c].cancelled /\ Goto(c, "release") /\ UNCHANGED <<dir, helper>>

\* Glob: found are the directories there are, in their order.
Present == {d \in AllDirs : dir[d].state = "present"}
Listing(found) ==
    /\ ToSet(found) = Present
    /\ \A i, j \in DOMAIN found : i < j =>
          \E k, l \in DOMAIN Dirs : k < l /\ Dirs[k] = found[i] /\ Dirs[l] = found[j]

\* staleSessionDirectories, and the time all ages are measured against.
List(c) ==
    /\ call[c].pc = "list"
    /\ \/ Stops(c)
       \/ /\ ~call[c].cancelled
          /\ \E n \in 0..Len(Dirs) : \E found \in [1..n -> Present] :
                /\ Listing(found)
                /\ call' = [call EXCEPT ![c].pc = "next", ![c].now = clock,
                       ![c].todo = found,
                       ![c].dead = {d \in Present : dir[d].file = "pid"
                                                    /\ dir[d].owner = "dead"}]
          /\ UNCHANGED <<dir, helper>>
    /\ UNCHANGED <<clock, last, attempt, struck, missed>>

\* scanStaleSessions is over.
ScanEnds(c) ==
    /\ call[c].pc = "next" /\ call[c].todo = <<>>
    /\ Goto(c, IF call[c].cancelled THEN "release" ELSE "done")
    /\ UNCHANGED <<clock, last, attempt, dir, helper, struck, missed>>

\* What reapSessionDirIfStale reads in the owner's pid file.
OwnerFile(d) ==
    IF dir[d].state = "absent" \/ dir[d].file = "removed" \/ d \in Foreign
    THEN "none" ELSE dir[d].file

\* Mutant of Threshold: the caller's age is taken as it is.
ThresholdAsGiven(file) == IF file = "none" THEN Grace ELSE MaxAge

\* The age from which a directory without a valid owner is stale.
Threshold(file) ==
    IF file = "none" \/ MaxAge < Grace THEN Grace ELSE MaxAge

\* reapSessionDirIfStale
Look(c) ==
    /\ call[c].pc = "next" /\ call[c].todo # <<>>
    /\ LET file == OwnerFile(Here(c)) IN
       \/ Stops(c)
       \/ /\ ~call[c].cancelled /\ UNCHANGED <<dir, helper>>
          /\ \/ /\ file # "pid"
                /\ call' = [call EXCEPT ![c].pc = "stat",
                                        ![c].limit = Threshold(file)]
             \/ /\ file = "pid" /\ dir[Here(c)].owner = "dead"
                /\ Goto(c, "child")
             \/ /\ file = "pid" /\ dir[Here(c)].owner = "alive"
                /\ Skipped(c)
    /\ UNCHANGED <<clock, last, attempt, struck, missed>>

\* reapSessionDirWhenOlderThan
Stat(c) ==
    /\ call[c].pc = "stat"
    /\ LET d == Here(c)
           old == dir[d].state = "present"
                  /\ call[c].now > dir[d].mtime + call[c].limit
       IN \/ Stops(c)
          \/ /\ ~call[c].cancelled /\ UNCHANGED <<dir, helper>>
             /\ \/ old /\ Goto(c, "child")
                \/ ~old /\ Skipped(c)
    /\ UNCHANGED <<clock, last, attempt, struck, missed>>

-----------------------------------------------------------------------------
(* stopRecordedProcess.                                                    *)

\* processGroupAlive
HelperAlive(h) == h.leader \/ h.kid \/ h.stranger

\* Mutant of Refresh: whoever has the pid is taken for the helper.
RefreshByPid(c) == LET h == helper[Here(c)] IN h.leader \/ h.kid \/ h.stranger

\* processGroupOwner.refresh: the leader is there, or a member that was seen
\* while it was.
Refresh(c) == LET h == helper[Here(c)] IN h.leader \/ (h.kid /\ call[c].tracked)

\* Members that are there while the leader is become tracked.
Tracked(c) == call[c].tracked \/ (helper[Here(c)].leader /\ helper[Here(c)].kid)

\* The pid file is read and names a process with the directory's environment
\* that leads its group (newProcessGroupOwner).
Identified(d) == /\ dir[d].state = "present" /\ dir[d].file # "removed"
                 /\ d \notin Foreign
                 /\ helper[d].recorded /\ helper[d].leader

Strike(d, field) ==
    /\ helper' = [helper EXCEPT ![d] =
           IF field = "term" THEN [@ EXCEPT !.term = TRUE]
                             ELSE [@ EXCEPT !.term = TRUE, !.killed = TRUE]]
    /\ struck' = IF helper[d].stranger THEN struck \cup {d} ELSE struck

Terminate(c) ==
    /\ call[c].pc = "child"
    /\ LET d == Here(c) IN
       \/ Stops(c) /\ UNCHANGED struck
       \/ /\ ~call[c].cancelled /\ ~Identified(d)
          /\ Goto(c, "mounts") /\ UNCHANGED <<helper, struck, dir>>
       \/ /\ ~call[c].cancelled /\ Identified(d)
          /\ call' = [call EXCEPT ![c].pc = "grace", ![c].tracked = Tracked(c)]
          /\ Strike(d, "term") /\ UNCHANGED dir
    /\ UNCHANGED <<clock, last, attempt, missed>>

\* A turn of waitForOwnedProcessGroup.
WaitTurn(c) ==
    /\ call[c].pc \in {"grace", "postkill"}
    /\ \/ Stops(c)
       \/ /\ ~call[c].cancelled
          /\ UNCHANGED <<dir, helper>>
          /\ IF HelperAlive(helper[Here(c)]) /\ Refresh(c)
             THEN call' = [call EXCEPT ![c].tracked = Tracked(c)]
             ELSE Goto(c, "mounts")
    /\ UNCHANGED <<clock, last, attempt, struck, missed>>

\* The grace is over: another look, and SIGKILL if the group is still ours.
Escalate(c) ==
    /\ call[c].pc = "grace"
    /\ LET d == Here(c) IN
       \/ Stops(c) /\ UNCHANGED struck
       \/ /\ ~call[c].cancelled
          /\ ~(HelperAlive(helper[d]) /\ Refresh(c))
          /\ Goto(c, "mounts") /\ UNCHANGED <<helper, struck, dir>>
       \/ /\ ~call[c].cancelled
          /\ HelperAlive(helper[d]) /\ Refresh(c)
          /\ call' = [call EXCEPT ![c].pc = "postkill", ![c].tracked = Tracked(c)]
          /\ Strike(d, "kill") /\ UNCHANGED dir
    /\ UNCHANGED <<clock, last, attempt, missed>>

\* The second wait ends without the group; it is not waited for any longer.
GiveUp(c) ==
    /\ call[c].pc = "postkill"
    /\ \/ Stops(c)
       \/ ~call[c].cancelled /\ Goto(c, "mounts") /\ UNCHANGED <<dir, helper>>
    /\ UNCHANGED <<clock, last, attempt, struck, missed>>

-----------------------------------------------------------------------------
(* unmountSubdirsWith and RemoveAll.                                       *)

\* The first look at mountinfo, which may fail.
ReadMounts(c) ==
    /\ call[c].pc = "mounts"
    /\ \/ Stops(c)
       \/ /\ UNCHANGED <<dir, helper>>
          /\ \/ MayFail /\ Goto(c, "release")
             \/ /\ ~call[c].cancelled
                /\ Goto(c, IF dir[Here(c)].mounted THEN "unmount" ELSE "remove")
    /\ UNCHANGED <<clock, last, attempt, struck, missed>>

\* fusermount -u, whose failure is only logged.
Unmount(c) ==
    /\ call[c].pc = "unmount"
    /\ \/ Stops(c)
       \/ /\ ~call[c].cancelled
          /\ \/ UNCHANGED dir
             \/ Here(c) \notin Foreign /\ dir' = [dir EXCEPT ![Here(c)].mounted = FALSE]
          /\ Goto(c, "verify") /\ UNCHANGED helper
    /\ UNCHANGED <<clock, last, attempt, struck, missed>>

\* Mutant of Verify: fusermount is trusted.
VerifyNothing(c) ==
    /\ call[c].pc = "verify" /\ Goto(c, "remove")
    /\ UNCHANGED <<dir, helper, clock, last, attempt, struck, missed>>

\* The second look, which refuses removal while anything is mounted.
Verify(c) ==
    /\ call[c].pc = "verify"
    /\ \/ Stops(c)
       \/ /\ UNCHANGED <<dir, helper>>
          /\ \/ (MayFail \/ dir[Here(c)].mounted) /\ Goto(c, "release")
             \/ /\ ~call[c].cancelled /\ ~dir[Here(c)].mounted
                /\ Goto(c, "remove")
    /\ UNCHANGED <<clock, last, attempt, struck, missed>>

\* os.RemoveAll.  It descends into what is mounted and deletes the files there
\* and beside it, then fails: a mount point is busy.
RemoveAll(c) ==
    LET d == Here(c) IN
    /\ call[c].pc = "remove" /\ ~call[c].cancelled /\ d \notin Foreign
    /\ \/ /\ dir[d].mounted
          /\ dir' = [dir EXCEPT ![d].file = "removed", ![d].mtime = clock]
          /\ Goto(c, "release")
       \/ /\ ~dir[d].mounted
          /\ dir' = [dir EXCEPT ![d].state = "absent"]
          /\ Skipped(c)
    /\ UNCHANGED helper

\* The end of reapSessionDir.  Somebody else's directory cannot be removed.
RemoveDir(c) ==
    /\ call[c].pc = "remove"
    /\ \/ Stops(c)
       \/ /\ ~call[c].cancelled /\ Here(c) \in Foreign
          /\ IF dir[Here(c)].state = "present" THEN Goto(c, "release") ELSE Skipped(c)
          /\ UNCHANGED <<dir, helper>>
       \/ RemoveAll(c)
    /\ UNCHANGED <<clock, last, attempt, struck, missed>>

-----------------------------------------------------------------------------
OwnerStep(d) == Create(d) \/ WriteOwner(d) \/ StartHelper(d) \/ RecordHelper(d)
                \/ OwnerDies(d) \/ HelperMoves(d) \/ Mount(d)

CallStep(c) ==
    \/ Begin(c) \/ List(c) \/ Look(c) \/ Stat(c) \/ Terminate(c) \/ WaitTurn(c)
    \/ Escalate(c) \/ GiveUp(c) \/ ReadMounts(c) \/ Unmount(c) \/ Verify(c)
    \/ RemoveDir(c) \/ ScanEnds(c) \/ Release(c)

CleanupNext == Tick \/ (\E d \in AllDirs : OwnerStep(d))
        \/ \E c \in Calls : Cancel(c) \/ CallStep(c)

CleanupSpec == CleanupInit /\ [][CleanupNext]_cleanupVars
-----------------------------------------------------------------------------
(* Properties.                                                             *)

\* "Live owner processes are retained": whatever a scan reads while an owner
\* starts up, and however old what it has read is when it acts, it neither
\* removes the directory of a living owner or what is in it nor signals its
\* helper.
LiveSessionsAreSpared ==
    \A d \in AllDirs : dir[d].owner = "alive" =>
        dir[d].state = "present" /\ dir[d].file # "removed" /\ ~helper[d].term

\* stopRecordedProcess signals no process that has taken over the pid of a
\* helper, also not after the grace in which the helper may have died.
StrangersAreSpared == struck = {}

\* No scan harms a bystander: the session of a living owner, or a process that
\* has taken over a pid (reapSessionDirIfStale, stopRecordedProcess).
BystandersAreSpared == LiveSessionsAreSpared /\ StrangersAreSpared

\* unmountSubdirsContext "must prove all mounts under a managed runtime have
\* disappeared" because "RemoveAll could descend into a still-mounted filesystem
\* and delete unrelated data" (session_cleanup.go:204).  What it can prove is
\* about its last look: RemoveAll descends only into what was mounted since,
\* whatever fusermount answers and whatever other scans do in between.
SparesMounts(c) ==
    RemoveAll(c) /\ dir[Here(c)].mounted => <<c, Here(c)>> \in missed
SeenMountsAreSpared == [][\A c \in Calls : SparesMounts(c)]_cleanupVars

\* "A canceled newest attempt releases its claim without clearing a newer
\* scan's rate limit": two scans start within the interval only when the
\* earlier one has failed by then.
ScansAreSpaced ==
    \A a, b \in Calls :
        0 < call[a].mine /\ call[a].mine < call[b].mine
        /\ call[b].start - call[a].start < Interval => call[a].pc = "failed"

\* CleanupStaleSessions "removes perfuncted session directories immediately
\* when their recorded parent PID is no longer running": a scan that nobody
\* cancels leaves no such directory of its own user unless something is
\* mounted there.
DeadAreReaped ==
    \A c \in Calls : call[c].pc \in {"done", "failed"} /\ ~call[c].cancelled =>
        \A d \in call[c].dead \ Foreign :
            dir[d].state = "absent" \/ dir[d].mounted
=============================================================================
