--------------------------- MODULE WaitFailureLog ---------------------------
(***************************************************************************)
(* One wait's sequence of evaluations, as far as evaluateWaitCondition of  *)
(* session_wait.go judges it by its failures, beside a log of every        *)
(* evaluation from which the same judgement can be made by looking back.   *)
(***************************************************************************)
EXTENDS WaitFailures, Sequences, SequencesExt, FiniteSets

CONSTANTS
    LogTime,         \* bound on the clock
    MaxEvaluations   \* bound on the length of the log

VARIABLES
    logNow,       \* f.clock()
    logFailures,  \* the waitEvaluateFailures of the wait
    log,          \* history: the evaluations, [failed, at]
    verdict       \* "waiting" or "exhausted"

logVars == <<logNow, logFailures, log, verdict>>

LogInit ==
    /\ logNow = 0
    /\ logFailures = NoFailures
    /\ log = <<>>
    /\ verdict = "waiting"

LogTimePasses ==
    /\ verdict = "waiting"
    /\ logNow < LogTime
    /\ logNow' = logNow + 1
    /\ UNCHANGED <<logFailures, log, verdict>>

\* The condition was evaluated without an error.
EvaluationSucceeds ==
    /\ verdict = "waiting"
    /\ Len(log) < MaxEvaluations
    /\ logFailures' = Reset(logFailures)
    /\ log' = Append(log, [failed |-> FALSE, at |-> logNow])
    /\ UNCHANGED <<logNow, verdict>>

\* The evaluation failed with an error that is not permanent.
EvaluationFails ==
    /\ verdict = "waiting"
    /\ Len(log) < MaxEvaluations
    /\ logFailures' = Recorded(logFailures, logNow)
    /\ log' = Append(log, [failed |-> TRUE, at |-> logNow])
    /\ verdict' = IF Exhausted(logFailures', logNow) THEN "exhausted" ELSE "waiting"
    /\ UNCHANGED logNow

LogNext == LogTimePasses \/ EvaluationSucceeds \/ EvaluationFails

LogSpec == LogInit /\ [][LogNext]_logVars

-----------------------------------------------------------------------------

\* The longest run of failures that ends a log: its first position.
StreakStart(l) == CHOOSE i \in 1..Len(l) + 1 :
    /\ \A j \in i..Len(l) : l[j].failed
    /\ i = 1 \/ ~l[i - 1].failed

FailuresIn(l) == {i \in DOMAIN l : l[i].failed}

\* What the comments on the three limits ask for, looking back over a log.
TooMany(l) ==
    /\ l # <<>> /\ Last(l).failed
    /\ \/ Len(l) + 1 - StreakStart(l) >= FailureLimit
       \/ Cardinality(FailuresIn(l)) >= TotalLimit
       \/ Last(l).at - l[StreakStart(l)].at >= StreakBudget

\* The wait gives up after an evaluation if and only if the evaluations so
\* far exceed one of the three limits: a run of failures too long or lasting
\* too long, or too many failures in all however they are spread (the tally
\* of record and reset against the whole history).
GivesUpExactly ==
    /\ verdict = "exhausted" <=> TooMany(log)
    /\ \A n \in 0..Len(log) - 1 : ~TooMany(SubSeq(log, 1, n))
=============================================================================
