------------------------------ MODULE MCAtspi ------------------------------
(* AtspiBackend and AtspiEvents for TLC, one at a time: what the backend  *)
(* has observed, and the streams of its events.                            *)
EXTENDS AtspiBackend, AtspiEvents, TLC

CONSTANT Parts
VARIABLE part    \* "observations" or "events"

\* One application with a window, another application, and a group that may
\* appear in the window or in the first application.
MCBus == "desk" :> "registry" @@ "a" :> "A" @@ "w" :> "A" @@ "g" :> "A" @@ "b" :> "B"
Start == {<<"a", "desk">>, <<"w", "a">>}
AllSignals == {"add", "garbledAdd", "changed", "create", "remove", "garbledRemove",
               "childRemove", "destroy"}

\* Snapshots of the application, while two changes happen below it.
AppWorld == [edges |-> Start \cup {<<"g", "w">>, <<"g", "a">>}, start |-> Start,
             held |-> {"a"}, roots |-> {"a"}, kinds |-> {"snapshot"},
             signals |-> {"add", "remove", "changed", "childRemove"},
             calls |-> 2, changes |-> 2, history |-> 2, faults |-> FALSE]

\* The same with every signal, one change and the faults.
FaultWorld == [AppWorld EXCEPT !.signals = AllSignals, !.roots = {"a", "w"},
                               !.changes = 1, !.faults = TRUE]

\* Calls about the desktop, with a history that is too short for two changes.
DeskWorld == [edges |-> Start \cup {<<"b", "desk">>}, start |-> Start,
              held |-> {}, roots |-> {}, kinds |-> {"snapshot", "application", "window"},
              signals |-> {"add", "garbledAdd", "changed", "create", "childRemove", "remove"},
              calls |-> 1, changes |-> 2, history |-> 1,
              faults |-> FALSE]

AllWorlds == {AppWorld, DeskWorld, FaultWorld}

\* The application starts without its window.
EarlyWorld == [AppWorld EXCEPT !.start = {<<"a", "desk">>}]
JustEarly == {EarlyWorld}

OneFamily == <<"f">>

\* Three callers; two callers and the ends of the backend; signals.
Company == [callers |-> {"c1", "c2", "c3"}, ends |-> {}, signals |-> 0]
AllScenes == {Company,
              [callers |-> {"c1", "c2"}, ends |-> {"lose", "close", "watch", "retire", "timeout"},
               signals |-> 0],
              [callers |-> {"c2", "c3"}, ends |-> {}, signals |-> 3]}
JustCompany == {Company}

AtspiInit ==
    /\ part \in Parts /\ Init /\ EventsInit
    /\ part = "events" => world = CHOOSE w \in Worlds : TRUE
    /\ part = "observations" => scene = CHOOSE s \in Scenes : TRUE

ObservationsPart ==
    part = "observations" /\ Next /\ UNCHANGED <<part, evars>>

EventsPart == part = "events" /\ EventsNext /\ UNCHANGED <<part, vars>>

AtspiSpec == AtspiInit /\ [][ObservationsPart \/ EventsPart]_<<part, vars, evars>>

\* With the fairness of AtspiEvents.
FairAtspiSpec ==
    /\ AtspiSpec
    /\ \A c \in Callers : WF_evars(part = "events" /\ Step(c))
    /\ \A r \in 1..6 : WF_evars(part = "events" /\ r \in DOMAIN runs /\ RunStep(r))
    /\ WF_evars(part = "events" /\ StopperStep)

\* A complete snapshot is the tree as it is, once every signal since its start
\* has been dispatched: a fresh one whatever changed between its reads
\* (observationChangeError, PublishSnapshot), one answered from the caches unless
\* a signal was lost, GetItems failed or its reply overtook signals (loadCache).
SnapshotsAreCurrent == FreshIsCurrent /\ CachedIsCurrent
=============================================================================
