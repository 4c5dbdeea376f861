--------------------------- MODULE UinputBackend ----------------------------
(***************************************************************************)
(* Key and button injection through uinput (input/uinput.go) with the      *)
(* syntax of Type (input/keysend.go).  A call is a batch of actions that   *)
(* is validated as a whole and then written to the devices event by event; *)
(* a write may fail and the context may end between two of them.  Calls    *)
(* are serialised by the operation gate (OperationTracker), so one call is *)
(* in progress at a time.                                                  *)
(*                                                                         *)
(* down is what the kernel sees; held is what the backend believes the     *)
(* caller holds.                                                           *)
(***************************************************************************)
EXTENDS KeySequence, Naturals, Sequences, SequencesExt, FiniteSets

CONSTANTS
    Keys,        \* ordinary keys
    ModOrder,    \* the modifiers, in the order in which they are pressed
    Loose,       \* modifiers with a name that a combination may end with
    MaxActions,  \* bound on the actions of a batch
    MaxStuck     \* bound on the releases that the device refuses

ASSUME ModifiersAreOrdered == ModOrder \in Seq(ToSet(ModOrder)) /\ ModOrder # <<>>
ASSUME LooseAreModifiers == Loose \subseteq ToSet(ModOrder)
ASSUME BoundsAreNat == MaxActions \in Nat /\ MaxStuck \in Nat

Mods == ToSet(ModOrder)
Shift == ModOrder[1]

\* Parsed actions: a key or a combination to tap, press or release (parseCombo
\* refuses most names of modifiers as the last key), or a character of a text.
Actions ==
    [kind : {"tap", "down", "up"}, key : Keys \cup Loose, mods : SUBSET Mods]
    \cup [kind : {"tap", "down", "up"}, key : Mods, mods : {{}}]
    \cup [kind : {"text"}, key : Keys, mods : {{}, {Shift}}]

Batches == UNION {[1..n -> Actions] : n \in 1..MaxActions}

VARIABLES
    down,      \* keys that are down at the device
    held,      \* heldMods and heldKeys
    batch,     \* actions of the call still to be done, the current one first
    pc,        \* where the call is
    temps,     \* the temporary modifiers of the action still to be pressed
    pressed,   \* those that have been pressed, the last one first
    ctxDone,   \* whether the call's context is done
    stuck,     \* history: keys and buttons whose release has failed
    aliased,   \* history: held keys that were pressed as part of a combination
               \* with themselves
    buttons,   \* buttons that are down at the device
    caller     \* buttons the caller has pressed and not released

keyboard == <<down, held, batch, temps, pressed>>
mouse == <<buttons, caller>>
history == <<stuck, aliased>>
vars == <<keyboard, pc, ctxDone, history, mouse>>

Buttons == {"button"}

Init ==
    /\ down = {} /\ held = {} /\ batch = <<>> /\ pc = "idle"
    /\ temps = {} /\ pressed = <<>> /\ ctxDone = FALSE /\ stuck = {}
    /\ aliased = {} /\ buttons = {} /\ caller = {}

-----------------------------------------------------------------------------
(* Validation.                                                             *)

\* Only a held key is released, and only a free one pressed or tapped
\* (validateHeldModifierSequence).
Valid(b) ==
    \A i \in DOMAIN b : b[i].kind = "up" <=> HeldBefore(held, b, i, b[i].key)

-----------------------------------------------------------------------------
(* Type, TypeLiteral, KeyDown and KeyUp.                                   *)

\* A call whose batch is valid; one that is not changes nothing.
Begin(b) ==
    /\ pc = "idle"
    /\ Valid(b)
    /\ batch' = b /\ pc' = "next" /\ ctxDone' = FALSE
    /\ UNCHANGED <<down, held, temps, pressed, history, mouse>>

Cancel ==
    /\ pc # "idle" /\ ~ctxDone
    /\ ctxDone' = TRUE
    /\ UNCHANGED <<keyboard, pc, history, mouse>>

Current == Head(batch)

Return ==
    /\ pc' = "idle" /\ batch' = <<>> /\ temps' = {} /\ pressed' = <<>>

\* Mutant of Temporary: every modifier of the combination is pressed.
TemporaryAll(a) == a.mods

\* temporaryModifiers: those the caller does not hold.
Temporary(a) == a.mods \ held

\* The next action begins, unless the batch or the context is over.
NextAction ==
    /\ pc = "next"
    /\ IF batch = <<>> \/ ctxDone
       THEN Return
       ELSE /\ temps' = Temporary(Current) /\ pressed' = <<>>
            /\ pc' = "mods" /\ UNCHANGED batch
    /\ UNCHANGED <<down, held, ctxDone, history, mouse>>

\* Mutant of Fail: the call returns at once.
FailAtOnce == Return

\* The deferred clean-up of what has been pressed.
Fail == pc' = "fail" /\ UNCHANGED <<batch, temps, pressed>>

\* The context is looked at before every write but within a character.
Interrupted == ctxDone /\ Current.kind # "text"

\* The modifiers are pressed in their order.
IsFirst(m, set) ==
    \E i \in DOMAIN ModOrder :
        ModOrder[i] = m /\ m \in set /\ \A j \in 1..(i - 1) : ModOrder[j] \notin set

PressModifier ==
    /\ pc = "mods" /\ temps # {} /\ ~Interrupted
    /\ \/ \E m \in temps :
             /\ IsFirst(m, temps)
             /\ down' = down \cup {m}
             /\ temps' = temps \ {m} /\ pressed' = <<m>> \o pressed
             /\ UNCHANGED <<pc, batch>>
       \/ Fail /\ UNCHANGED down
    /\ UNCHANGED <<held, ctxDone, history, mouse>>

Interrupt ==
    /\ pc = "mods" /\ Interrupted
    /\ Fail
    /\ UNCHANGED <<down, held, ctxDone, history, mouse>>

\* The key itself, and the bookkeeping of an explicit press or release.
SendKey ==
    /\ pc = "mods" /\ temps = {} /\ ~Interrupted
    /\ LET k == Current.key IN
       CASE Current.kind = "down" -> down' = down \cup {k} /\ held' = held \cup {k}
         [] Current.kind = "up" -> down' = down \ {k} /\ held' = held \ {k}
         [] OTHER -> down' = down \ {k} /\ UNCHANGED held
    /\ aliased' = IF Current.kind = "down" /\ Current.key \in Current.mods
                  THEN aliased \cup {Current.key} ELSE aliased \cap held'
    /\ pc' = "release"
    /\ UNCHANGED <<batch, temps, pressed, ctxDone, stuck, mouse>>

\* The device refuses to release k.
Refused(k) == Cardinality(stuck) < MaxStuck /\ stuck' = stuck \cup {k}

\* The write fails; of a tap, the release may be what fails.
SendKeyFails ==
    /\ pc = "mods" /\ temps = {} /\ ~Interrupted
    /\ Fail
    /\ \/ UNCHANGED <<down, stuck>>
       \/ /\ Current.kind \in {"tap", "text"}
          /\ down' = down \cup {Current.key} /\ Refused(Current.key)
    /\ UNCHANGED <<held, ctxDone, aliased, mouse>>

\* A temporary modifier is released; a failure is reported and the others are
\* still released.
ReleaseModifier ==
    /\ pc \in {"release", "fail"} /\ pressed # <<>>
    /\ pressed' = Tail(pressed)
    /\ \/ down' = down \ {Head(pressed)} /\ UNCHANGED <<stuck, pc>>
       \/ Refused(Head(pressed)) /\ pc' = "fail" /\ UNCHANGED down
    /\ UNCHANGED <<held, batch, temps, ctxDone, aliased, mouse>>

ActionDone ==
    /\ pc = "release" /\ pressed = <<>>
    /\ pc' = "next" /\ batch' = Tail(batch)
    /\ UNCHANGED <<down, held, temps, pressed, ctxDone, history, mouse>>

CallFails ==
    /\ pc = "fail" /\ pressed = <<>>
    /\ Return
    /\ UNCHANGED <<down, held, ctxDone, history, mouse>>

-----------------------------------------------------------------------------
(* MouseDown, MouseUp and MouseClick.                                      *)

MouseDown(b) ==
    /\ pc = "idle"
    /\ buttons' = buttons \cup {b} /\ caller' = caller \cup {b}
    /\ UNCHANGED <<keyboard, pc, ctxDone, history>>

MouseUp(b) ==
    /\ pc = "idle"
    /\ buttons' = buttons \ {b} /\ caller' = caller \ {b}
    /\ UNCHANGED <<keyboard, pc, ctxDone, history>>

\* The pointer has moved and the button goes down.
ClickPresses(b) ==
    /\ pc = "idle"
    /\ buttons' = buttons \cup {b}
    /\ pc' = "click" /\ ctxDone' = FALSE
    /\ UNCHANGED <<keyboard, history, caller>>

\* The hold time or the context ends, and the button goes up without regard to
\* the context.
ClickReleases(b) ==
    /\ pc = "click"
    /\ \/ buttons' = buttons \ {b} /\ UNCHANGED stuck
       \/ Refused(b) /\ UNCHANGED buttons
    /\ pc' = "idle"
    /\ UNCHANGED <<keyboard, ctxDone, aliased, caller>>

-----------------------------------------------------------------------------

Next ==
    \/ \E b \in Batches : Begin(b)
    \/ Cancel \/ NextAction \/ PressModifier \/ Interrupt \/ SendKey
    \/ SendKeyFails \/ ReleaseModifier \/ ActionDone \/ CallFails
    \/ \E b \in Buttons : MouseDown(b) \/ MouseUp(b) \/ ClickPresses(b)
                          \/ ClickReleases(b)

Spec == Init /\ [][Next]_vars

-----------------------------------------------------------------------------
(* Properties.                                                             *)

\* Between two calls the keys that the caller holds are down, but one that was
\* pressed in a combination with itself, which only the names that parseCombo
\* lets end a combination allow; and no other key is, unless the device refused
\* its release and the call said so (typeKeyWithMods).  A click leaves no button
\* down, however it ends (MouseClick).
DownIsHeld ==
    pc = "idle" => /\ held \ aliased \subseteq down
                   /\ down \ held \subseteq stuck
                   /\ buttons \subseteq caller \cup stuck

\* No call lets go of a key that the caller holds except by an explicit release
\* of that key ("a modifier the caller already holds must not be released, or
\* the caller's gesture ends partway through", heldMods), with the same
\* exception.
HoldsSurvive ==
    [][\A k \in held \ aliased : k \in down /\ k \notin down' =>
          Current.kind = "up" /\ Current.key = k]_vars

=============================================================================
