------------------------ MODULE MCAccessibilityOwner ------------------------
(* Instances of AccessibilityOwner for TLC.                                *)
EXTENDS AccessibilityOwner

CONSTANTS q1, t1, i1, r1, r2, c1, c2, s1

\* A query that meets a reopen and Close; a stream that meets a reopen and two
\* calls of Close; handles issued around Invalidate and a reopen; two reopens and
\* Close; a subscription and a reopen.
SafetyCasts == {{q1, r1, c1}, {t1, r1, c1, c2}, {q1, i1, r1}, {r1, r2, c1},
                {s1, r1}}
=============================================================================
