----------------------------- MODULE KeySequence ------------------------------
(***************************************************************************)
(* What the validations of the input backends work out by simulating a     *)
(* batch: which keys are held before each of its actions.  An action has a *)
(* kind, "down" and "up" among them, and a key.                            *)
(***************************************************************************)
EXTENDS Naturals, Sequences

\* The actions of b before the i-th that press or release k.
Changes(b, i, k) == {j \in 1..(i - 1) : b[j].kind \in {"down", "up"} /\ b[j].key = k}

\* Whether k is held when the i-th action of b begins, of holds h; its last change
\* decides.
HeldBefore(h, b, i, k) ==
    LET changes == Changes(b, i, k)
    IN  \/ changes = {} /\ k \in h
        \/ \E j \in changes : b[j].kind = "down" /\ \A l \in changes : l <= j
=============================================================================
