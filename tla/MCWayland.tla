------------------------------ MODULE MCWayland ------------------------------
(* Instances of WaylandSession and WaylandContext for TLC, one at a time:   *)
(* the cache of connections in one half of the behaviours, the users of one *)
(* connection in the other.                                                 *)
EXTENDS WaylandSession, WaylandContext

CONSTANTS s1, s2, c1, c2, c3, c4

VARIABLE part   \* "cache" or "connection"

\* Three calls for one socket and one for another.
ThreeAndOne == c1 :> s1 @@ c2 :> s1 @@ c3 :> s1 @@ c4 :> s2

PartInit == part \in {"cache", "connection"} /\ Init /\ ContextInit

CachePart == part = "cache" /\ Next /\ UNCHANGED <<part, contextVars>>

ConnectionPart == part = "connection" /\ ContextNext /\ UNCHANGED <<part, vars>>

PartSpec == PartInit /\ [][CachePart \/ ConnectionPart]_<<part, vars, contextVars>>

FairPartSpec == PartSpec /\ (part = "connection" => ContextFairness)
=============================================================================
