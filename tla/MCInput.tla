------------------------------- MODULE MCInput -------------------------------
(* Instances of the input backends for TLC, one at a time: a session has    *)
(* one backend for input.                                                   *)
EXTENDS UinputBackend, WlKeyboard, EisSetup, PortalSetup, RemoteDesktop, XTestBackend

ASSUME PointerIsAnInterface == Pointer \in Interfaces

VARIABLE backend   \* "uinput", "keyboard", "portal", "eis", "token" or "xtest"

ShiftCtrl == <<"shift", "ctrl">>
JustCtrl == <<"ctrl">>
TwoChars == <<"a", "e">>
OneStable == <<"a">>
Enter == <<"enter">>
OneWord == {<<"a", "e">>}

\* Two callers; one caller and Close; one caller, Close and a stalled peer.
Press(key) == [kind |-> "down", key |-> key, mods |-> {}]
Lift(key) == [kind |-> "up", key |-> key, mods |-> {}]
TapWithCtrl == [kind |-> "tap", key |-> "a", mods |-> {"ctrl"}]
Pointing == {<<[kind |-> kind, key |-> Nothing, mods |-> {}]>> : kind \in {"literal", "move", "scroll"}}
Some == {<<Press("ctrl")>>, <<TapWithCtrl>>, <<[kind |-> "click", key |-> "b", mods |-> {}]>>,
         <<Press("ctrl"), TapWithCtrl, Lift("ctrl")>>}
Others == {<<[Press("ctrl") EXCEPT !.mods = {"ctrl"}], Lift("ctrl")>>,
           <<[Press("a") EXCEPT !.mods = {"ctrl"}]>>, <<Press("a")>>, <<Lift("ctrl")>>}
PortalScenes ==
    {[ops |-> [c1 |-> Some, c2 |-> Others], stalls |-> FALSE, closes |-> FALSE],
     [ops |-> [c1 |-> Some \cup Pointing, c2 |-> {}], stalls |-> FALSE, closes |-> TRUE],
     [ops |-> [c1 |-> {<<Press("a")>>}, c2 |-> {}], stalls |-> TRUE, closes |-> TRUE]}

\* A layout without AltGr, one with it, and one with two groups.
Plain == <<<<"a", "A">>, <<"ctrl">>, <<"shift">>>>
German == <<<<"a", "A", "E">>, <<"ctrl">>, <<"shift">>, <<"iso_level3_shift">>>>
Groups == <<<<"x", "X", "y", "Y", "a">>, <<"a", "A", NoSymbol, "E">>, <<"shift">>,
            <<"mode_switch">>, <<"ctrl">>>>
AllLayouts == {Plain, German, Groups}

Act(kind, key, with) == [kind |-> kind, key |-> key, mods |-> with]
XTestBatches ==
    {<<Act(kind, key, {})>> : kind \in {"down", "up"}, key \in {"ctrl", "shift", "a"}}
    \cup {<<Act("text", "A", {}), Act("text", "E", {})>>, <<Act("text", "a", {})>>,
          <<Act("tap", "a", {"shift", "ctrl"})>>,
          <<Act("down", "ctrl", {}), Act("tap", "a", {"ctrl"}), Act("up", "ctrl", {})>>,
          <<Act("tap", "ctrl", {}), Act("down", "a", {"shift"}), Act("up", "shift", {})>>}

InputInit ==
    /\ backend \in {"uinput", "keyboard", "portal", "eis", "token", "xtest"}
    /\ Init /\ KeyboardInit /\ PortalInit /\ EisInit /\ TokenInit /\ XTestInit
    /\ backend # "portal" => ~scene.closes
    /\ backend # "xtest" => layout = Plain

UinputPart == backend = "uinput" /\ Next /\ UNCHANGED <<backend, keyboardVars, portalVars, evars, pvars, xVars>>

KeyboardPart ==
    backend = "keyboard" /\ KeyboardNext /\ UNCHANGED <<backend, vars, portalVars, evars, pvars, xVars>>

PortalPart ==
    backend = "portal" /\ PortalNext /\ UNCHANGED <<backend, vars, keyboardVars, evars, pvars, xVars>>

EisPart == backend = "eis" /\ EisNext /\ UNCHANGED <<backend, vars, keyboardVars, portalVars, pvars, xVars>>

TokenPart == backend = "token" /\ TokenNext /\ UNCHANGED <<backend, vars, keyboardVars, portalVars, evars, xVars>>

XTestPart ==
    backend = "xtest" /\ XTestNext /\ UNCHANGED <<backend, vars, keyboardVars, portalVars, evars, pvars>>

InputSpec ==
    InputInit
    /\ [][UinputPart \/ KeyboardPart \/ PortalPart \/ EisPart \/ TokenPart
          \/ XTestPart]_<<backend, vars, keyboardVars, portalVars, evars, pvars, xVars>>
=============================================================================
