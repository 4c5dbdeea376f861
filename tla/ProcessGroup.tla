---------------------------- MODULE ProcessGroup ----------------------------
(***************************************************************************)
(* A process group that the session has started, and the managedProc of    *)
(* session_process.go that signals it and watches it.  Groups are addressed *)
(* by the leader's pid, which the kernel may give to a stranger's group     *)
(* once the leader is reaped and no descendant is left.                     *)
(***************************************************************************)

\* A group is a record: leader is "none", "running", "zombie" or "reaped"; kids
\* says that descendants in the group are alive, stranger that the pid belongs
\* to somebody else's group, gone is managedProc.groupGone, term and killed that
\* SIGTERM and SIGKILL have been delivered.

NotStarted == [leader |-> "none", kids |-> FALSE, stranger |-> FALSE,
               gone |-> FALSE, term |-> FALSE, killed |-> FALSE]

Started == [NotStarted EXCEPT !.leader = "running"]

\* Members of the group we started that still run; a zombie holds the pid.
Ours(g) == g.leader \in {"running", "zombie"} \/ g.kids

\* processGroupAlive: kill(-pid, 0) finds a group, whoever it belongs to.
KernelSees(g) == Ours(g) \/ g.stranger

\* groupAlive: what the caller is told, and what managedProc remembers.
GroupAlive(g) == ~g.gone /\ KernelSees(g)
Observed(g) == [g EXCEPT !.gone = ~GroupAlive(g)]

\* Mutant of Reaches: a group that was seen gone is looked up again.
ReachesAgain(g) == KernelSees(g)

\* signal: whether the signal is sent at all.
Reaches(g) == GroupAlive(g)

\* signal(SIGTERM) and signal(SIGKILL).
Terminated(g) == IF Reaches(g) THEN [g EXCEPT !.term = TRUE]
                               ELSE [g EXCEPT !.gone = TRUE]
Killed(g) == IF Reaches(g) THEN [g EXCEPT !.killed = TRUE]
                           ELSE [g EXCEPT !.gone = TRUE]

-----------------------------------------------------------------------------
(* What processes do by themselves: the states a group may go to next.     *)

\* A process of the group starts a descendant.
Forked(g) == {[y EXCEPT !.kids = TRUE] : y \in
                 {y \in {g} : y.leader = "running" /\ ~y.kids /\ ~y.killed}}

\* The leader exits, of its own accord or because of a signal.
LeaderExited(g) == {[y EXCEPT !.leader = "zombie"] : y \in
                       {y \in {g} : y.leader = "running"}}

\* The last descendant exits.
KidsExited(g) == {[y EXCEPT !.kids = FALSE] : y \in {y \in {g} : y.kids}}

\* The pid is used again, by a process that has nothing to do with us.
PidReused(g) == {[y EXCEPT !.stranger = TRUE] : y \in
                    {y \in {g} : y.leader = "reaped" /\ ~y.kids}}

Successors(g) ==
    Forked(g) \cup LeaderExited(g) \cup KidsExited(g) \cup PidReused(g)
=============================================================================
