--------------------------- MODULE XTestBackend -----------------------------
(***************************************************************************)
(* Input through the XTEST extension (input/xtest.go).  The layout of the  *)
(* X server decides which keycode and which modifiers produce a character. *)
(* A batch is validated as a whole and then sent event by event; the       *)
(* server may refuse an event and the context may end between two actions  *)
(* or while a key is held for the delay of a tap.  Only modifiers are      *)
(* recorded as held.  Calls are serialised by the operation gate; a keymap *)
(* that cannot be read fails the call before its first event and is read   *)
(* again by the next one, so it is not part of the state.                  *)
(***************************************************************************)
EXTENDS KeySequence, Naturals, Sequences, SequencesExt, FiniteSets

CONSTANTS
    Symbols,        \* keysyms of characters and named keys
    ModifierNames,  \* the modifiers, in the order they are pressed
    Layouts,        \* layouts: of each keycode the keysyms of its levels
    TypedBatches,   \* what callers send: sequences of parsed actions
    MaxRefusals,    \* bound on the releases that the server refuses
    NoSymbol        \* a level without a keysym that a caller can name

ShiftKey == "shift"
Level3 == <<"iso_level3_shift", "mode_switch">>
NamedMods == ToSet(ModifierNames)
Special == NamedMods \cup ToSet(Level3)

\* Buttons have codes of their own, apart from the keycodes.
Button == 1001
Wheel == 1004

\* Parsed actions: parseCombo lets no modifier that XTEST knows end a
\* combination, and no name means a keysym that switches to the third level.
TypedActions ==
    [kind : {"tap", "down", "up"}, key : Symbols, mods : SUBSET NamedMods]
    \cup [kind : {"tap", "down", "up"}, key : NamedMods, mods : {{}}]
    \cup [kind : {"text"}, key : Symbols, mods : {{}}]

ASSUME NamesAreNames ==
    /\ ModifierNames \in Seq(NamedMods) /\ ShiftKey \in NamedMods
    /\ NamedMods \cap ToSet(Level3) = {}
    /\ Symbols \cap Special = {} /\ NoSymbol \notin Symbols \cup Special
ASSUME TypedAreActions == TypedBatches \subseteq Seq(TypedActions)

\* Keycodes are bytes, and the key of a modifier has nothing else on it that a
\* caller can name.
ASSUME LayoutsAreKeyboards ==
    \A L \in Layouts :
        /\ DOMAIN L \subseteq 0..255
        /\ \A k \in DOMAIN L :
              /\ DOMAIN L[k] \subseteq Nat \ {0}
              /\ \A i, j \in DOMAIN L[k] :
                    L[k][i] \in Special => L[k][j] \in {L[k][i], NoSymbol}

VARIABLES
    layout,    \* the layout of the server
    xDown,     \* keycodes and buttons that are down at the server
    xHeld,     \* heldMods
    xBatch,    \* actions still to be done, the current one first
    xPc,       \* where the call is
    xTemps,    \* modifiers of the action still to be pressed
    xPressed,  \* keycodes of those that have been pressed, the last one first
    xDone,     \* whether the call's context is done
    xStuck,    \* history: keycodes and buttons whose release was refused
    owned      \* history: keycodes and buttons the caller pressed explicitly

xCall == <<xBatch, xTemps, xPressed>>
xVars == <<layout, xDown, xHeld, xCall, xPc, xDone, xStuck, owned>>

-----------------------------------------------------------------------------
(* The keymap.                                                             *)

MaxTypableLevel == 3

Places(sym) ==
    UNION {{[keycode |-> k, level |-> l - 1] : l \in {i \in DOMAIN layout[k] : layout[k][i] = sym}} :
             k \in DOMAIN layout}

Mapped(sym) == Places(sym) # {}

Typable(p) == p.level <= MaxTypableLevel

\* The order in which the reply lists the keysyms.
Before(p, q) == p.keycode < q.keycode \/ (p.keycode = q.keycode /\ p.level < q.level)

\* preferKeycodeLevel
Preferred(p, q) == IF Typable(p) # Typable(q) THEN Typable(p) ELSE p.level < q.level

\* ensureKeymap: the first of the best places of a keysym that is mapped.
Placement(sym) ==
    CHOOSE p \in Places(sym) : \A q \in Places(sym) \ {p} :
        ~Preferred(q, p) /\ (Preferred(p, q) \/ Before(p, q))

Keycode(sym) == Placement(sym).keycode

\* altGrKeycode: the first of the two keysyms that the layout maps.
AltGr == IF Mapped(Level3[1]) THEN Level3[1] ELSE Level3[2]

\* Mutant of LevelModifiers: every level above the first is reached with Shift.
LevelIsShifted(level) == IF level > 0 THEN {ShiftKey} ELSE {}

\* levelModifiers, for the levels it can express.
LevelModifiers(level) ==
    (IF level % 2 = 1 THEN {ShiftKey} ELSE {}) \cup (IF level >= 2 THEN {AltGr} ELSE {})

\* modifierCodeSet
ModCodes == {Keycode(m) : m \in {n \in NamedMods \cup {AltGr} : Mapped(n)}}

-----------------------------------------------------------------------------
(* Validation of a batch (typeContext, validateTextKeysyms,                *)
(* temporaryModifierKeycodes, validateHeldModifierSequence).               *)

\* What an action presses around its key: the modifiers of a character's level
\* or of a combination.
Wanted(a) == IF a.kind = "text" THEN LevelModifiers(Placement(a.key).level) ELSE a.mods

Known(a) ==
    /\ Mapped(a.key)
    /\ a.kind = "text" => Placement(a.key).level <= MaxTypableLevel
    /\ \A m \in Wanted(a) : Mapped(m)

\* The actions by keycode.
Coded(b) == [i \in DOMAIN b |-> [kind |-> b[i].kind, key |-> Keycode(b[i].key)]]

\* A held modifier is released, a free one pressed or tapped; other keys are
\* not looked at.
HoldsFit(b) ==
    \A i \in DOMAIN b :
        b[i].kind # "text" /\ Keycode(b[i].key) \in ModCodes
        => (b[i].kind = "up" <=> HeldBefore(xHeld, Coded(b), i, Keycode(b[i].key)))

Typed(b) == (\A i \in DOMAIN b : Known(b[i])) /\ HoldsFit(b)

-----------------------------------------------------------------------------
(* Type, TypeLiteral, KeyDown and KeyUp.                                   *)

Acting == Head(xBatch)
Code == Keycode(Acting.key)
IsText == Acting.kind = "text"

EndCallNow == xPc' = "idle" /\ xBatch' = <<>> /\ xTemps' = {} /\ xPressed' = <<>>

FailAction == xPc' = "fail" /\ UNCHANGED xCall

XTestInit ==
    /\ layout \in Layouts /\ xDown = {} /\ xHeld = {} /\ xBatch = <<>> /\ xPc = "idle"
    /\ xTemps = {} /\ xPressed = <<>> /\ xDone = FALSE /\ xStuck = {} /\ owned = {}

\* A call whose batch is valid; one that is not sends nothing.
TypeContext(b) ==
    /\ xPc = "idle" /\ Typed(b)
    /\ xBatch' = b /\ xPc' = "next" /\ xDone' = FALSE
    /\ UNCHANGED <<layout, xDown, xHeld, xTemps, xPressed, xStuck, owned>>

CancelType ==
    /\ xPc # "idle" /\ ~xDone
    /\ xDone' = TRUE
    /\ UNCHANGED <<layout, xDown, xHeld, xCall, xPc, xStuck, owned>>

\* Mutant of Required: the modifiers the caller holds are pressed too.
RequiredAll == Wanted(Acting)

\* What the action wants, less what the caller holds (typeTextRune,
\* temporaryModifiers).
Required == {m \in Wanted(Acting) : Keycode(m) \notin xHeld}

TypeAction ==
    /\ xPc = "next"
    /\ IF xBatch = <<>> \/ xDone
       THEN EndCallNow
       ELSE xTemps' = Required /\ xPressed' = <<>> /\ xPc' = "mods" /\ UNCHANGED xBatch
    /\ UNCHANGED <<layout, xDown, xHeld, xDone, xStuck, owned>>

\* The modifiers in their order, AltGr after Shift.
Leads(m, set) ==
    LET order == ModifierNames \o Level3
    IN  \E i \in DOMAIN order :
            order[i] = m /\ m \in set /\ \A j \in 1..(i - 1) : order[j] \notin set

\* The context is not looked at between the events of an action.
ApplyModifier ==
    /\ xPc = "mods" /\ xTemps # {}
    /\ \/ \E m \in xTemps :
             /\ Leads(m, xTemps)
             /\ xDown' = xDown \cup {Keycode(m)}
             /\ xTemps' = xTemps \ {m} /\ xPressed' = <<Keycode(m)>> \o xPressed
             /\ UNCHANGED <<xPc, xBatch>>
       \/ FailAction /\ UNCHANGED xDown
    /\ UNCHANGED <<layout, xHeld, xDone, xStuck, owned>>

\* The key goes down, or up for an explicit release.
SendCode ==
    /\ xPc = "mods" /\ xTemps = {}
    /\ CASE Acting.kind = "up" ->
              /\ xDown' = xDown \ {Code} /\ xHeld' = xHeld \ {Code}
              /\ owned' = owned \ {Code} /\ xPc' = "release"
         [] Acting.kind = "down" ->
              /\ xDown' = xDown \cup {Code} /\ xHeld' = xHeld \cup ({Code} \cap ModCodes)
              /\ owned' = owned \cup {Code} /\ xPc' = "release"
         [] OTHER ->
              xDown' = xDown \cup {Code} /\ xPc' = "tap" /\ UNCHANGED <<xHeld, owned>>
    /\ UNCHANGED <<layout, xCall, xDone, xStuck>>

SendCodeFails ==
    /\ xPc = "mods" /\ xTemps = {}
    /\ FailAction
    /\ UNCHANGED <<layout, xDown, xHeld, xDone, xStuck, owned>>

Refuse(k) == Cardinality(xStuck) < MaxRefusals /\ xStuck' = xStuck \cup {k}

\* The delay is over, or the context ended it, and the key goes up.
EndTap ==
    /\ xPc = "tap"
    /\ \/ /\ xDown' = xDown \ {Code} /\ UNCHANGED xStuck
          /\ xPc' \in IF xDone THEN {"release", "fail"} ELSE {"release"}
       \/ Refuse(Code) /\ xPc' = "fail" /\ UNCHANGED xDown
    /\ UNCHANGED <<layout, xHeld, xCall, xDone, owned>>

\* A modifier of the action is released.  A refused release fails the call and
\* the rest is still released; that of a combination is tried again by the
\* deferred clean-up.
ReleaseApplied ==
    /\ xPc \in {"release", "fail"} /\ xPressed # <<>>
    /\ \/ /\ xDown' = xDown \ {Head(xPressed)} /\ xPressed' = Tail(xPressed)
          /\ UNCHANGED <<xStuck, xPc>>
       \/ /\ xPc = "release" /\ ~IsText
          /\ xPc' = "fail" /\ UNCHANGED <<xPressed, xDown, xStuck>>
       \/ /\ xPc = "fail" \/ IsText
          /\ Refuse(Head(xPressed)) /\ xPressed' = Tail(xPressed) /\ xPc' = "fail"
          /\ UNCHANGED xDown
    /\ UNCHANGED <<layout, xHeld, xBatch, xTemps, xDone, owned>>

ActionEnds ==
    /\ xPc = "release" /\ xPressed = <<>>
    /\ xPc' = "next" /\ xBatch' = Tail(xBatch)
    /\ UNCHANGED <<layout, xDown, xHeld, xTemps, xPressed, xDone, xStuck, owned>>

TypeFails ==
    /\ xPc = "fail" /\ xPressed = <<>>
    /\ EndCallNow
    /\ UNCHANGED <<layout, xDown, xHeld, xDone, xStuck, owned>>

-----------------------------------------------------------------------------
(* The pointer: MouseDown, MouseUp, MouseClick and the scrolls.            *)

ButtonDown ==
    /\ xPc = "idle"
    /\ xDown' = xDown \cup {Button} /\ owned' = owned \cup {Button}
    /\ UNCHANGED <<layout, xHeld, xCall, xPc, xDone, xStuck>>

ButtonUp ==
    /\ xPc = "idle"
    /\ xDown' = xDown \ {Button} /\ owned' = owned \ {Button}
    /\ UNCHANGED <<layout, xHeld, xCall, xPc, xDone, xStuck>>

\* The button of a click or a notch of the wheel goes down.
PressButton(b) ==
    /\ xPc = "idle"
    /\ xDown' = xDown \cup {b} /\ xDone' = FALSE
    /\ xPc' = IF b = Button THEN "click" ELSE "scroll"
    /\ UNCHANGED <<layout, xHeld, xCall, xStuck, owned>>

\* The button of a click goes up whether or not the context is done.
ReleaseClick ==
    /\ xPc = "click"
    /\ \/ xDown' = xDown \ {Button} /\ UNCHANGED xStuck
       \/ Refuse(Button) /\ UNCHANGED xDown
    /\ xPc' = "idle"
    /\ UNCHANGED <<layout, xHeld, xCall, xDone, owned>>

\* The release of a notch looks at the context, and is tried once more without
\* it when it fails.
ReleaseWheel ==
    /\ xPc = "scroll"
    /\ \/ ~xDone /\ xDown' = xDown \ {Wheel} /\ xPc' = "idle"
       \/ xPc' = "retry" /\ UNCHANGED xDown
    /\ UNCHANGED <<layout, xHeld, xCall, xDone, xStuck, owned>>

RetryWheel ==
    /\ xPc = "retry"
    /\ \/ xDown' = xDown \ {Wheel} /\ UNCHANGED xStuck
       \/ Refuse(Wheel) /\ UNCHANGED xDown
    /\ xPc' = "idle"
    /\ UNCHANGED <<layout, xHeld, xCall, xDone, owned>>

-----------------------------------------------------------------------------

XTestNext ==
    \/ \E b \in TypedBatches : TypeContext(b)
    \/ CancelType \/ TypeAction \/ ApplyModifier \/ SendCode \/ SendCodeFails \/ EndTap
    \/ ReleaseApplied \/ ActionEnds \/ TypeFails
    \/ ButtonDown \/ ButtonUp \/ ReleaseClick \/ ReleaseWheel \/ RetryWheel
    \/ \E b \in {Button, Wheel} : PressButton(b)

XTestSpec == XTestInit /\ [][XTestNext]_xVars

-----------------------------------------------------------------------------
(* Properties.                                                             *)

\* Between two calls the modifiers the backend records as held are down, and
\* what else is down was pressed by the caller or could not be released
\* (typeAction, releaseApplied, mouseClick, scroll).
HoldsAreExact ==
    xPc = "idle" => /\ xHeld \subseteq xDown
                    /\ \A k \in xDown \ xHeld : k \in xStuck \/ k \in owned \ ModCodes

\* The keycodes that choose levels.
Carrying(syms) == {k \in DOMAIN layout : \E i \in DOMAIN layout[k] : layout[k][i] \in syms}
Shifts == Carrying({ShiftKey})
Switches == Carrying(ToSet(Level3))

\* The level that the server reads off the keys that are down.
LevelNow == (IF Shifts \cap xDown # {} THEN 1 ELSE 0) + (IF Switches \cap xDown # {} THEN 2 ELSE 0)

\* While the key of a character is down the server produces that character,
\* unless a modifier that chooses levels is held by the caller or stuck
\* (levelModifiers, ensureKeymap).
TextIsExact ==
    xPc = "tap" /\ IsText /\ (Shifts \cup Switches) \cap (xHeld \cup xStuck) = {}
    => layout[Code][LevelNow + 1] = Acting.key

\* Both: XTEST leaves down what it records and what the caller pressed, and
\* types what was meant.
XTestIsExact == HoldsAreExact /\ TextIsExact

=============================================================================
