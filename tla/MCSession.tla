------------------------------ MODULE MCSession ------------------------------
(* Instances of OperationTracker, SessionLifecycle, SessionInfra and        *)
(* SessionCleanup for TLC, one at a time.  The parts that do not move keep  *)
(* their first state.                                                       *)
EXTENDS OperationTracker, SessionLifecycle, SessionInfra, SessionCleanup, TLC

CONSTANTS d1, d2, k1, k2, k3

VARIABLE part    \* "tracker", "lifecycle", "infra" or "cleanup"

TwoCapabilities == <<"screen", "input">>

\* An essential helper and an optional one, as the first two of startSession.
DbusAtspi == <<"dbus", "atspi">>

TwoDirs == <<d1, d2>>

\* Two scans of a session, one scan of another user's session, and three
\* scans that contend for the claim.
AllScenes == {[dirs |-> {d2}, calls |-> {k1, k2}],
              [dirs |-> {d1}, calls |-> {k1}],
              [dirs |-> {}, calls |-> {k1, k2, k3}]}

\* One scan of another user's session and, after it, of one of its own user.
OneScan == {[dirs |-> {d1, d2}, calls |-> {k1}]}

\* The calls of a scene are alike: k1 is the one that moves first, k2 the next.
InOrder ==
    /\ call[k1] = Idle => UNCHANGED <<call[k2], call[k3]>>
    /\ call[k2] = Idle => UNCHANGED call[k3]

\* Bound: of the calls of a scene the caller of one gives up.
OneGivesUp == \A k, m \in Calls : call'[k].cancelled /\ call'[m].cancelled => k = m

PartsInit == Init /\ LifecycleInit /\ InfraInit /\ CleanupInit

PartInit ==
    /\ PartsInit
    /\ part \in {"tracker", "lifecycle", "infra", "cleanup"}
    /\ part # "cleanup" => call[k2] = NotMade

TrackerPart ==
    /\ part = "tracker" /\ Next
    /\ UNCHANGED <<part, lifecycleVars, infraVars, cleanupVars>>

LifecyclePart ==
    /\ part = "lifecycle" /\ LifecycleNext
    /\ UNCHANGED <<part, vars, infraVars, cleanupVars>>

InfraPart ==
    /\ part = "infra" /\ InfraNext
    /\ UNCHANGED <<part, vars, lifecycleVars, cleanupVars>>

CleanupPart ==
    /\ part = "cleanup" /\ CleanupNext /\ InOrder /\ OneGivesUp
    /\ UNCHANGED <<part, vars, lifecycleVars, infraVars>>

PartSpec ==
    PartInit /\ [][TrackerPart \/ LifecyclePart \/ InfraPart \/ CleanupPart]_
                     <<part, vars, lifecycleVars, infraVars, cleanupVars>>
=============================================================================
