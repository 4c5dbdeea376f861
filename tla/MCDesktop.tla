----------------------------- MODULE MCDesktop ------------------------------
(* What a session asks of the desktop, for TLC, one component at a time:      *)
(* the waits of SessionWait and their failures, and the captures, searches,  *)
(* screen waits, semantic snapshots and locators of the bundles.              *)
EXTENDS SessionWait, WaitFailureLog, ScreenWait, ScreenCapture, ScreenSearch, Locator

CONSTANTS
    Questions, Slack, IdBytes, Frame     \* of SemanticSnapshot

ASSUME IntervalAssumption == Base \in Nat \ {0} /\ Cap \in Nat \ {0}

VARIABLES
    part,      \* the component of this behaviour
    question, answer

semanticVars == <<question, answer>>

Semantic == INSTANCE SemanticSnapshot

-----------------------------------------------------------------------------
(* Waits.                                                                   *)

w1 == "w1"
w2 == "w2"
Both == {w1, w2}
Buffers == "window" :> 1 @@ "accessibility" :> 1

\* A waiter on a source whose channel overflows and on a Predicate.
StreamScene ==
    [facts |-> {"accessibility", "caller"},
     conditions |-> w1 :> [mode |-> "any", kids |-> <<"accessibility", "caller">>],
     cancelling |-> {w1}, changes |-> 2, faults |-> 0]

\* Two waiters that share the hub.
HubScene ==
    [facts |-> {"accessibility", "application"},
     conditions |->
         w1 :> [mode |-> "all", kids |-> <<"application">>]
         @@ w2 :> [mode |-> "all", kids |-> <<"accessibility">>],
     cancelling |-> {}, changes |-> 1, faults |-> 0]

\* Alternatives that can fail, and a negation.
AnyScene ==
    [facts |-> {"window", "caller"},
     conditions |-> w1 :> [mode |-> "any", kids |-> <<"window", "caller">>],
     cancelling |-> {}, changes |-> 1, faults |-> 2]

NotScene ==
    [facts |-> {"window"},
     conditions |-> w1 :> [mode |-> "not", kids |-> <<"window">>],
     cancelling |-> {w1}, changes |-> 2, faults |-> 2]

SafetyScenes == {StreamScene, HubScene, AnyScene, NotScene}

-----------------------------------------------------------------------------
(* Searches, of images of up to six pixels.                                 *)

Wide == Rect(0, 0, 3, 2)
Shades == {<<0, 0>>, <<0, 1>>, <<1, 0>>}
LocateQueries ==
    UNION {[kind : {"locate"}, area : {Rect(2, 1, 5, 3)},
            src : {Image(Wide, px) : px \in [Points(Wide) -> Shades]},
            ref : {Image(r, px) : px \in [Points(r) -> Shades]}] :
               r \in {Rect(0, 0, w, h) : w, h \in 1..2}}

Raw == {<<0, 1, 0>>, <<2, 0, 0>>}
Frames(b) == {Image(b, px) : px \in [Points(b) -> Raw]}
Inside(b) == {r \in {Rect(x, y, x2, y2) : x, x2 \in b.x0..b.x1, y, y2 \in b.y0..b.y1} :
                  r.x0 < r.x1 /\ r.y0 < r.y1}
ColorQueries ==
    [kind : {"color"}, frame : Frames(Wide), scale : {1}, style : {"crop", "decode"},
     rect : Inside(Wide), target : {<<0, 2, 0>>, <<1, 1, 0>>}, tolerance : {0, 1}]
HashQueries ==
    [kind : {"hash"}, frame : Frames(Wide), scale : {1, 2}, rect : Inside(Rect(-1, 0, 3, 2))]

\* Two rectangles are scanned for what they show in another frame.
Pairs == {<<Rect(0, 0, 1, 1), Rect(2, 1, 3, 2)>>, <<Rect(1, 0, 3, 1), Rect(1, 1, 3, 2)>>,
          <<Rect(0, 1, 1, 2), Rect(1, 1, 3, 2)>>, <<Rect(1, 1, 2, 2), Rect(1, 0, 2, 1)>>}
Diagonals == {Image(Wide, [p \in Points(Wide) |-> IF p[1] + p[2] > k THEN <<0, 1, 0>> ELSE <<2, 0, 0>>]) :
                  k \in 0..2}
ScanQueries ==
    [kind : {"scan"}, frame : Frames(Wide), rects : Pairs, style : {"crop", "decode"},
     seen : Diagonals]
PointsQueries ==
    [kind : {"points"}, frame : Frames(Rect(0, 0, 4, 2)), scale : {2},
     points : SUBSET Points(Rect(0, 0, 2, 1)) \ {{}}]
    \cup [kind : {"points"}, frame : Frames(Wide), scale : {1},
          points : {{p, q} : p, q \in Points(Rect(-1, 0, 4, 3))}]
AllQueries == LocateQueries \cup ColorQueries \cup HashQueries \cup ScanQueries \cup PointsQueries

-----------------------------------------------------------------------------
(* Snapshots of three nodes.                                                *)

NodeOf(id, own, text, attributes, name, children, by) ==
    [id |-> id, own |-> own, text |-> text, cut |-> FALSE, children |-> children,
     plain |-> [attributes |-> attributes, name |-> name], relations |-> [for |-> <<>>, by |-> by]]
Responses ==
    {[nodes |-> ns, root |-> ns[1], base |-> 3, truncated |-> FALSE, warnings |-> w] :
        w \in {0, 6},
        ns \in {<<NodeOf(1, 0, t, 0, 1, <<2, 3>>, <<>>), NodeOf(2, 1, u, a, 0, k, <<3>>),
                  NodeOf(3, 0, 2, 0, 2, <<>>, b)>> :
                    t \in {0, 20}, u \in {0, 7, 12}, a \in {0, 5}, k \in {<<>>, <<4>>},
                    b \in {<<>>, <<1, 2>>, <<2, 9>>}}}
Bounds == [kind : {"bound"}, snapshot : Responses, max : 8..110]

\* A chain and a fork; and what a malformed provider may say
Parents == {<<None, 1, 2>>, <<None, 1, 1>>}
Cycles == {<<3, 1, 2>>, <<None, 2, 2>>, <<2, 1, 1>>, <<7, 1, 2>>}
TreesOf(parents, texts, focus) ==
    {[n \in 1..3 |->
        [parent |-> par[n], name |-> <<{"a"}, {n2}, {n3}>>[n], role |-> IF n = 3 THEN {"a"} ELSE {"b"},
         text |-> <<(<<>>), <<"a">>, text>>[n], states |-> IF n = foc THEN {"focused"} ELSE {},
         attributes |-> IF n = 2 THEN {} ELSE {"k"}, by |-> IF n = 2 THEN by ELSE {},
         for |-> for[n]]] :
            par \in parents, n2, n3 \in {"a", "b"}, text \in texts, foc \in focus,
            by \in {{}, {2, 3}}, for \in {<<{}, {}, {}>>, <<{2}, {}, {3}>>}}
Texts == {<<>>, <<"b">>, <<"a", "b">>, <<"w", "a">>, <<"b", "b", "a">>}

AnySelector == [name |-> None, role |-> None, text |-> None, label |-> None,
                states |-> {}, attributes |-> {}, ancestors |-> <<>>]
Ancestor(name, role) == [name |-> name, role |-> role]
Selectors ==
    {[AnySelector EXCEPT !.name = "b"], [AnySelector EXCEPT !.text = "a"],
     [AnySelector EXCEPT !.label = "a"], [AnySelector EXCEPT !.label = "b", !.role = "b"],
     [AnySelector EXCEPT !.ancestors = <<Ancestor("a", None), Ancestor(None, "b")>>],
     [AnySelector EXCEPT !.ancestors = <<Ancestor(None, "b"), Ancestor("a", None)>>, !.attributes = {"k"}],
     [AnySelector EXCEPT !.states = {"focused"}]}
Reads == {"Name", "GetRole", "GetState", "ChildCount", "GetInterfaces", "GetAttributes",
          "GetRelationSet", "Text", "Optional"}
Whole == [n \in 1..3 |-> {}]
Failures ==
    {Whole, [n \in 1..3 |-> IF n = 3 THEN {"GetInterfaces", "GetRelationSet"} ELSE {"Optional"}]}
    \cup {[Whole EXCEPT ![n] = {r}] : n \in 1..3, r \in Reads}
Selections ==
    [kind : {"select"}, tree : TreesOf(Parents, Texts, {3}), failed : Failures, lost : {{}}, max : {2},
     selector : Selectors]
    \cup [kind : {"select"}, tree : TreesOf(Parents, Texts, {3}), failed : {Whole}, lost : {{3}},
          max : {1, 2}, selector : Selectors]
Filters == [kind : {"filter"}, tree : TreesOf(Parents \cup Cycles, {<<"b">>}, {3}), selector : Selectors]
Foci == [kind : {"focused"}, tree : TreesOf(Parents, {<<>>}, 0..3), failed : Failures,
         lost : {{}, {3}}, max : {2}]
AllQuestions == Bounds \cup Selections \cup Filters \cup Foci

-----------------------------------------------------------------------------
(* Screen waits and calls of locators.                                      *)

Blank == [hash |-> 0, corner |-> 1]
Shown == {Blank, [hash |-> 1, corner |-> 1], [hash |-> 2, corner |-> 2]}
AnyWait == [kind |-> "for", want |-> 1, initial |-> 0, stable |-> 0, fast |-> TRUE]
AllWaits == [kind : {"for", "change", "stable", "settle", "holds"}, want : {1}, initial : {0, 1},
             stable : {0, 2, 3}, fast : BOOLEAN]

Least == -3
Encoded(b) == [shape |-> "text", encoded |-> b]
Clicking == [kind |-> "action", args |-> Encoded(TRUE)]
AllTasks ==
    {[kind |-> kind, args |-> Encoded(TRUE)] : kind \in {"action", "fill"}}
    \cup {[kind |-> "mutation", args |-> a] :
            a \in {Encoded(TRUE), Encoded(FALSE)}
                  \cup [shape : {"point"}, type : {0, 3}, x : {-3, 2}, y : {-3, 3}]
                  \cup [shape : {"size", "range", "index"}, x : {-1, 1}, y : {0, 1}]}

-----------------------------------------------------------------------------

Parts == {"waits", "log", "find", "semantic", "screen", "capture", "locator"}

\* A component that is not this behaviour's has no state.
FindInit ==
    \/ part = "find" /\ SearchInit
    \/ /\ part # "find"
       /\ query = Nil /\ found = Unanswered

SemanticInit ==
    \/ part = "semantic" /\ Semantic!Init
    \/ /\ part # "semantic"
       /\ question = Nil /\ answer = Nil

DesktopInit ==
    /\ part \in Parts /\ (part # "waits" => scene = NotScene) /\ Init
    /\ (part # "locator" => task = Clicking) /\ LocatorInit
    /\ (part # "screen" => wait = AnyWait /\ screen = Blank) /\ ScreenInit
    /\ LogInit /\ FindInit /\ SemanticInit /\ CaptureInit

WaitPart == part = "waits" /\ Next
            /\ UNCHANGED <<part, logVars, searchVars, semanticVars, screenVars, cvars, lvars>>
LogPart == part = "log" /\ LogNext
           /\ UNCHANGED <<part, scene, vars, searchVars, semanticVars, screenVars, cvars, lvars>>
FindPart == part = "find" /\ SearchNext
            /\ UNCHANGED <<part, scene, vars, logVars, semanticVars, screenVars, cvars, lvars>>
SemanticPart == part = "semantic" /\ Semantic!Next
            /\ UNCHANGED <<part, scene, vars, logVars, searchVars, screenVars, cvars, lvars>>
ScreenPart == part = "screen" /\ ScreenNext
            /\ UNCHANGED <<part, scene, vars, logVars, searchVars, semanticVars, cvars, lvars>>
CapturePart == part = "capture" /\ CaptureNext
            /\ UNCHANGED <<part, scene, vars, logVars, searchVars, semanticVars, screenVars, lvars>>
LocatorPart == part = "locator" /\ LocatorNext
            /\ UNCHANGED <<part, scene, vars, logVars, searchVars, semanticVars, screenVars, cvars>>

DesktopNext == WaitPart \/ LogPart \/ FindPart \/ SemanticPart \/ ScreenPart \/ CapturePart \/ LocatorPart

DesktopSpec ==
    DesktopInit /\ [][DesktopNext]_<<part, scene, vars, logVars, searchVars, semanticVars, screenVars,
                                     cvars, lvars>>

\* The behaviours of the captures alone
CapturesSpec ==
    (DesktopInit /\ part = "capture") /\ [][CapturePart]_<<part, scene, vars, logVars, searchVars, semanticVars,
                                                         screenVars, cvars, lvars>>

-----------------------------------------------------------------------------
\* A response within its budget keeps all that can fit (boundSnapshotResponse), and
\* an accepted observation selects what the tree selects (FilterSnapshotSelector).
\* The polling interval grows from its base to its cap (AdaptivePoll).
AnswersAreExact ==
    /\ part = "semantic" => Semantic!BudgetIsMet /\ Semantic!SelectionIsExact
    /\ part = "screen" => IntervalsGrow
=============================================================================
