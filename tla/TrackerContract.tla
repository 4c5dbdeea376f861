--------------------------- MODULE TrackerContract ---------------------------
(***************************************************************************)
(* What internal/operation/tracker.go promises its users, without the     *)
(* mutex, the channels or the cancel functions: work is admitted until     *)
(* shutdown begins, the resources are released once and with no work under *)
(* way, and every call of Close is told what that one release returned.    *)
(***************************************************************************)
CONSTANTS
    Ops,        \* pieces of work
    Closers,    \* calls of Close
    Errs,       \* errors a release may end with
    NoErr       \* Go's nil error

VARIABLES
    phase,      \* "open", "closing", "released" or "settled"
    working,    \* admitted work that has not been finished
    outcome,    \* what the release ended with, once settled
    told        \* per call of Close the answers it has given: none, or one

contractVars == <<phase, working, outcome, told>>

ContractInit ==
    /\ phase = "open"
    /\ working = {}
    /\ outcome = NoErr
    /\ told = [c \in Closers |-> {}]

\* Begin admits work, until shutdown begins.
Admit(o) ==
    /\ phase = "open"
    /\ o \notin working
    /\ working' = working \cup {o}
    /\ UNCHANGED <<phase, outcome, told>>

\* finish ends admitted work, during the shutdown as well.
Leave(o) ==
    /\ o \in working
    /\ working' = working \ {o}
    /\ UNCHANGED <<phase, outcome, told>>

\* The first Close begins the shutdown.
Shut ==
    /\ phase = "open"
    /\ phase' = "closing"
    /\ UNCHANGED <<working, outcome, told>>

\* The release starts, once, with no work left.
Release ==
    /\ phase = "closing"
    /\ working = {}
    /\ phase' = "released"
    /\ UNCHANGED <<working, outcome, told>>

\* The call that ran the release is the first to return.
Settle(c, e) ==
    /\ phase = "released"
    /\ told[c] = {}
    /\ phase' = "settled"
    /\ outcome' = e
    /\ told' = [told EXCEPT ![c] = {e}]
    /\ UNCHANGED working

\* Every other call returns the same.
Report(c) ==
    /\ phase = "settled"
    /\ told[c] = {}
    /\ told' = [told EXCEPT ![c] = {outcome}]
    /\ UNCHANGED <<phase, working, outcome>>

ContractNext ==
    \/ \E o \in Ops : Admit(o) \/ Leave(o)
    \/ Shut \/ Release
    \/ \E c \in Closers : Report(c) \/ \E e \in Errs \cup {NoErr} : Settle(c, e)

ContractSpec == ContractInit /\ [][ContractNext]_contractVars
=============================================================================
