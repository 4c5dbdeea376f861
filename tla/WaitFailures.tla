---------------------------- MODULE WaitFailures ----------------------------
(***************************************************************************)
(* waitEvaluateFailures of session_wait.go: how long Session.Wait tolerates *)
(* a condition that cannot be evaluated.  Time is a natural number.        *)
(***************************************************************************)
EXTENDS Naturals

CONSTANTS
    FailureLimit,   \* waitEvaluateFailureLimit
    TotalLimit,     \* waitEvaluateTotalLimit
    StreakBudget    \* waitEvaluateStreakBudget

ASSUME LimitsArePositive ==
    /\ FailureLimit \in Nat \ {0}
    /\ TotalLimit \in Nat \ {0}
    /\ StreakBudget \in Nat \ {0}

NoFailures == [consecutive |-> 0, total |-> 0, since |-> 0]

\* record(): the tally after one more failed evaluation.
Recorded(f, now) ==
    [consecutive |-> f.consecutive + 1, total |-> f.total + 1,
     since |-> IF f.consecutive = 0 THEN now ELSE f.since]

\* record(): whether the updated tally exhausts the wait's patience.
Exhausted(f, now) ==
    \/ f.consecutive >= FailureLimit
    \/ f.total >= TotalLimit
    \/ now - f.since >= StreakBudget

\* Mutant of Reset: one successful reading forgives all failures.
ResetAll(f) == NoFailures

\* reset(): the streak ends, the total of the wait stays.
Reset(f) == [f EXCEPT !.consecutive = 0, !.since = 0]
=============================================================================
