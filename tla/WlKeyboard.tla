----------------------------- MODULE WlKeyboard -----------------------------
(***************************************************************************)
(* The virtual keyboard of input/wl_keyboard.go.  A call computes a keymap *)
(* that gives every key it needs a slot, uploads it, which makes the       *)
(* compositor forget the modifiers, declares the held modifiers again and  *)
(* then sends its actions.  Calls are serialised by the operation gate.    *)
(*                                                                         *)
(* An action either happens as a whole or leaves nothing behind: when the  *)
(* context ends inside of it, cleanupSendKey, cleanupModifierKey and       *)
(* clearTempModsBestEffort undo it with contexts of their own.             *)
(***************************************************************************)
EXTENDS KeySequence, SequencesExt, Functions, FiniteSets

CONSTANTS
    CharOrder,        \* the characters, in the order of their names
    Stable,           \* the accelerator characters among them
    NamedOrder,       \* the named keys
    KeyboardMods,     \* the modifiers
    Words,            \* names in braces that are neither: sequences of characters
    DynSlots,         \* number of dynamic slots
    MaxSends          \* bound on the actions of a call

Chars == ToSet(CharOrder)
NamedKeys == ToSet(NamedOrder)
ModKeys == ToSet(KeyboardMods)

ASSUME OrdersAreSequences ==
    /\ CharOrder \in Seq(Chars) /\ Stable \in Seq(Chars)
    /\ NamedOrder \in Seq(NamedKeys) /\ KeyboardMods \in Seq(ModKeys)
    /\ Words \subseteq Seq(Chars) \ {<<>>}
ASSUME KeysAreDistinct ==
    /\ Chars \cap NamedKeys = {} /\ Chars \cap ModKeys = {} /\ NamedKeys \cap ModKeys = {}
    /\ {"word", "text"} \cap (Chars \cup NamedKeys \cup ModKeys) = {}
ASSUME KeyboardBoundsAreNat == DynSlots \in Nat /\ MaxSends \in Nat

\* Parsed actions, with the characters they need slots for.  A combination may end in
\* a modifier, for isModifierName does not know control_l, alt_l, shift_l and super_l.
SendKinds == {"tap", "down", "up"}
Letters == {<<c>> : c \in Chars}
KeySends ==
    {a \in [kind : SendKinds, key : Chars, chars : Letters, mods : SUBSET ModKeys] :
          a.chars = <<a.key>>}
    \cup [kind : SendKinds, key : NamedKeys \cup ModKeys, chars : {<<>>}, mods : SUBSET ModKeys]
    \cup [kind : {"text"}, key : {"text"}, chars : Letters, mods : {{}}]
    \cup [kind : {"tap"}, key : {"word"}, chars : Words, mods : SUBSET ModKeys]
KeyCalls == UNION {[1..n -> KeySends] : n \in 1..MaxSends}

VARIABLES
    keymap,     \* the compositor's keymap and lastKeymap: the slot of each key
    declared,   \* the modifiers that the compositor believes are depressed
    downSlots,  \* slots that are down at the compositor
    heldMods,   \* wlKeyboard.mods
    heldSlots,  \* wlKeyboard.held
    stage,      \* where the call is
    todo,       \* its actions still to be sent
    expired,    \* whether its context is done
    loosed,     \* history: held keys that a word has released
    stranded,   \* history: modifiers down that were pressed with themselves
    lapsed      \* history: a call ended between its upload and the declaration

compositor == <<keymap, declared, downSlots>>
holds == <<heldMods, heldSlots>>
keyHistory == <<loosed, stranded, lapsed>>
keyboardVars == <<compositor, holds, stage, todo, expired, keyHistory>>

NoKeys == [k \in {} |-> 0]

\* newWlKeyboard has uploaded the keymap of the modifiers and tapped Shift.
KeyboardInit ==
    /\ keymap = NoKeys /\ declared = {} /\ downSlots = {} /\ heldMods = {}
    /\ heldSlots = NoKeys /\ stage = "idle" /\ todo = <<>>
    /\ expired = FALSE /\ loosed = {} /\ stranded = {} /\ lapsed = FALSE

Holding == DOMAIN heldSlots

-----------------------------------------------------------------------------
(* sendkeys: slots for everything the call needs and for what is held.     *)

FirstIndex(s, x) == CHOOSE i \in DOMAIN s : s[i] = x /\ \A j \in 1..(i - 1) : s[j] # x

\* namedKey: modifiers and named keys have codes of their own, below the slots.
Fixed(key) == IF key \in ModKeys THEN FirstIndex(KeyboardMods, key)
                                 ELSE Len(KeyboardMods) + FirstIndex(NamedOrder, key)
DynBase == Len(KeyboardMods) + Len(NamedOrder) + 1
DynMax == Len(KeyboardMods) + Len(NamedOrder) + DynSlots

\* The actions that need a slot for c.
Needing(b, c) == {i \in DOMAIN b : c \in ToSet(b[i].chars)}
Naming(b, key) == {i \in DOMAIN b : b[i].key = key}

RunesOf(b) == {c \in Chars : Needing(b, c) # {}} \cup (Holding \cap Chars)
NamedOf(b) == {k \in NamedKeys : Naming(b, k) # {} \/ k \in Holding}

\* The accelerators keep their slots while there is room for them.
Accelerated(b) ==
    Cardinality(ToSet(Stable) \cup RunesOf(b)) + Cardinality(NamedOf(b)) <= DynSlots
AllRunes(b) == IF Accelerated(b) THEN ToSet(Stable) \cup RunesOf(b) ELSE RunesOf(b)

KeysOf(b) == AllRunes(b) \cup NamedOf(b)

\* Mutant of Reserved: a held key does not reserve its slot.
ReservedNone == {}

\* heldSlots: takeSlot passes over them.
Reserved == Range(heldSlots)

Free == (DynBase..DynMax) \ Reserved
Fresh(b) == KeysOf(b) \ Holding

Fits(b) == Cardinality(AllRunes(b)) <= DynSlots /\ Cardinality(Fresh(b)) <= Cardinality(Free)

\* Where the call comes across a key: among the accelerators, in an action, or
\* among what is held.
LeastOf(T) == CHOOSE x \in T : \A y \in T : x <= y
Place(b, key) ==
    IF key \in ToSet(Stable) /\ Accelerated(b) THEN <<1, FirstIndex(Stable, key), 0>>
    ELSE IF Needing(b, key) # {}
         THEN LET i == LeastOf(Needing(b, key)) IN <<2, i, FirstIndex(b[i].chars, key)>>
    ELSE IF key \in Chars THEN <<3, FirstIndex(CharOrder, key), 0>>
    ELSE IF Naming(b, key) # {} THEN <<4, LeastOf(Naming(b, key)), 0>>
    ELSE <<5, FirstIndex(NamedOrder, key), 0>>

Precedes(p, q) ==
    \/ p[1] < q[1]
    \/ p[1] = q[1] /\ p[2] < q[2]
    \/ p[1] = q[1] /\ p[2] = q[2] /\ p[3] < q[3]

\* takeSlot: the free slots go to the keys that hold none, in that order.
SlotFor(b, key) ==
    IF key \in Holding THEN heldSlots[key]
    ELSE LET earlier == {k \in Fresh(b) : Precedes(Place(b, k), Place(b, key))}
         IN  CHOOSE s \in Free : Cardinality({t \in Free : t < s}) = Cardinality(earlier)

KeymapFor(b) == [key \in KeysOf(b) |-> SlotFor(b, key)]

\* Mutant of SendsAreValid: a call is not validated.
AnySends(b) == TRUE

\* validateSendkeysSequence: what is held is not tapped or pressed, as a key or as
\* part of a text, and only what is held is released.
SendsAreValid(b) ==
    \A i \in DOMAIN b :
        LET isHeld(key) == HeldBefore(Holding \cup heldMods, b, i, key)
        IN  IF b[i].kind = "text" THEN \A c \in ToSet(b[i].chars) : ~isHeld(c)
                                  ELSE b[i].kind = "up" <=> isHeld(b[i].key)

-----------------------------------------------------------------------------
(* The messages.                                                           *)

\* uploadKeymap: a text that has just been uploaded is not sent again.  The text
\* also has the order of the keys, so the same slots may be another text.
Upload(map) ==
    /\ keymap' = map
    /\ declared' \in IF map = keymap THEN {declared, {}} ELSE {{}}

StartCall(map, b, next) ==
    /\ Upload(map) /\ todo' = b /\ stage' = next
    /\ UNCHANGED <<downSlots, holds, expired, keyHistory>>

Sendkeys(b) ==
    /\ stage = "idle" /\ SendsAreValid(b) /\ Fits(b)
    /\ StartCall(KeymapFor(b), b, "restore")

EndCall == stage' = "idle" /\ todo' = <<>> /\ expired' = FALSE

\* Mutant of Restore: nothing is declared again.
RestoreNothing ==
    /\ stage = "restore" /\ stage' = "run"
    /\ UNCHANGED <<compositor, holds, todo, expired, keyHistory>>

\* The declaration has caught up with what is held.
CaughtUp == lapsed' = (lapsed /\ declared' # heldMods')

\* uploadKeymapAndRestoreMods, after the upload: the held modifiers are
\* declared, unless the context has ended in between.
Restore ==
    /\ stage = "restore" /\ UNCHANGED <<keymap, downSlots, holds, loosed, stranded>>
    /\ \/ /\ heldMods # {} /\ expired
          /\ EndCall /\ lapsed' = (declared # heldMods)
          /\ UNCHANGED declared
       \/ /\ heldMods = {} \/ ~expired
          /\ declared' = IF heldMods = {} THEN declared ELSE heldMods
          /\ stage' = "run" /\ UNCHANGED <<todo, expired>>
          /\ CaughtUp

\* The context ends while the call is under way.
Expire ==
    /\ stage # "idle" /\ ~expired
    /\ expired' = TRUE
    /\ UNCHANGED <<compositor, holds, stage, todo, keyHistory>>

SlotOf(key) == CASE key \in ModKeys           -> Fixed(key)
                 [] key \in Holding \ ModKeys -> heldSlots[key]
                 [] OTHER                     -> keymap[key]

\* The slots that an action presses and releases again.
Tapped(a) == IF a.chars = <<>> THEN {SlotOf(a.key)}
                               ELSE {keymap[c] : c \in ToSet(a.chars)}

\* applyTempMods: the modifiers that an action adds for its own time.
Temps(a) == a.mods \ heldMods

\* sendModifiers: the held modifiers are declared when temporary ones are withdrawn
\* and after a modifier key.
Declare(a) ==
    /\ declared' = IF a.key \in ModKeys \/ Temps(a) # {} THEN heldMods' ELSE declared
    /\ CaughtUp

\* What one action does: temporary modifiers are declared and withdrawn around it.
\* clearTempMods withdraws them from what is held, the one just pressed included.
Perform(a) ==
    /\ downSlots' = CASE a.kind \in {"tap", "text"} -> downSlots \ Tapped(a)
                      [] a.kind = "down"            -> downSlots \cup {SlotOf(a.key)}
                      [] a.kind = "up"              -> downSlots \ {SlotOf(a.key)}
    /\ heldMods' = CASE a.key \in ModKeys /\ a.kind = "down" -> (heldMods \cup {a.key}) \ Temps(a)
                     [] a.key \in ModKeys /\ a.kind # "down" -> heldMods \ {a.key}
                     [] OTHER                                -> heldMods
    /\ stranded' = IF a.kind = "down" /\ a.key \in Temps(a) THEN stranded \cup {a.key}
                                                         ELSE stranded \ {a.key}
    /\ Declare(a)
    /\ heldSlots' = CASE a.key \notin ModKeys /\ a.kind = "down" ->
                             [k \in Holding \cup {a.key} |-> SlotOf(k)]
                      [] a.key \notin ModKeys /\ a.kind = "up" ->
                             Restrict(heldSlots, Holding \ {a.key})
                      [] OTHER -> heldSlots
    /\ loosed' = IF a.key = "word"
                 THEN loosed \cup {k \in Holding : heldSlots[k] \in Tapped(a)}
                 ELSE loosed \cap DOMAIN heldSlots'

\* "key not held": the release of a modifier that the call has pressed with itself,
\* which validateSendkeysSequence takes for held.
Unmatched(a) == a.kind = "up" /\ a.key \in ModKeys /\ a.key \notin heldMods \cup a.mods

\* The next action; after the last one the call is over.
Run ==
    /\ stage = "run" /\ ~expired
    /\ ~Unmatched(Head(todo)) /\ Perform(Head(todo))
    /\ IF Tail(todo) = <<>> THEN EndCall
                            ELSE todo' = Tail(todo) /\ UNCHANGED <<stage, expired>>
    /\ UNCHANGED keymap

\* An unmatched release ends the call; its temporary modifiers are withdrawn.
RefuseRelease ==
    /\ stage = "run" /\ ~expired
    /\ Unmatched(Head(todo)) /\ EndCall
    /\ declared' = IF Temps(Head(todo)) # {} THEN heldMods ELSE declared
    /\ CaughtUp
    /\ UNCHANGED <<keymap, downSlots, holds, loosed, stranded>>

\* ctx.Err() before an action, or a context that ends inside of one.
Abandon ==
    /\ stage = "run" /\ expired
    /\ EndCall
    /\ UNCHANGED <<compositor, holds, keyHistory>>

-----------------------------------------------------------------------------
(* KeyDown and KeyUp.                                                      *)

SendOf(kind, key) ==
    [kind |-> kind, key |-> key, chars |-> IF key \in Chars THEN <<key>> ELSE <<>>, mods |-> {}]

\* The keymap with one key (xkbWithNamed, xkbWithRunes).
Standard(key) == IF key \in Chars THEN DynBase ELSE Fixed(key)
Alone(key) == [k \in {key} \ ModKeys |-> Standard(k)]

PressKey(key) ==
    /\ stage = "idle"
    /\ LET b == <<SendOf("down", key)>> IN
       \/ Holding # {} /\ Sendkeys(b)
       \/ Holding = {} /\ StartCall(Alone(key), b, "restore")

\* Whether a key is released with a keymap for everything that is held.
NeedsMap(key) == \/ Holding # {key} \/ heldMods # {}
                 \/ heldSlots[key] # Standard(key)

ReleaseKey(key) ==
    /\ stage = "idle" /\ key \in Holding
    /\ LET b == <<SendOf("up", key)>> IN
       \/ NeedsMap(key) /\ Sendkeys(b)
       \/ ~NeedsMap(key) /\ StartCall(Alone(key), b, "run")

\* releaseNamedKey for a modifier; when its context ends after the key's
\* release the modifier counts as held, as it is still declared.
LiftModifier(m) ==
    /\ stage = "idle" /\ m \in heldMods
    /\ downSlots' = downSlots \ {Fixed(m)}
    /\ \/ UNCHANGED <<heldMods, declared>>
       \/ heldMods' = heldMods \ {m} /\ declared' = heldMods'
    /\ CaughtUp
    /\ UNCHANGED <<keymap, heldSlots, stage, todo, expired, loosed, stranded>>

-----------------------------------------------------------------------------
KeyboardNext ==
    \/ \E b \in KeyCalls : Sendkeys(b)
    \/ \E key \in Chars \cup NamedKeys \cup ModKeys : PressKey(key)
    \/ \E key \in Chars \cup NamedKeys : ReleaseKey(key)
    \/ \E m \in ModKeys : LiftModifier(m)
    \/ Restore \/ Run \/ RefuseRelease \/ Abandon \/ Expire

KeyboardSpec == KeyboardInit /\ [][KeyboardNext]_keyboardVars

-----------------------------------------------------------------------------
(* Properties.                                                             *)

\* "A key held by an earlier call must remain mapped to its original scancode
\* until release": whatever keymaps later calls upload, the slot of a held key
\* means that key and no other.
MeaningsAreKept ==
    \A key \in Holding : {k \in DOMAIN keymap : keymap[k] = heldSlots[key]} = {key}

\* Between calls the compositor has down what the backend has recorded as held,
\* so nothing is stuck that the caller cannot release and nothing was released
\* that the caller still holds.  Two exceptions: a word in braces may release a held
\* character, for validateSendkeysSequence does not look into it; and a modifier that
\* was pressed with itself, as in {ctrl+control_l down}, is down and not recorded.
SlotsAreDown ==
    stage = "idle" => /\ {heldSlots[k] : k \in Holding \ loosed} \subseteq downSlots
                      /\ downSlots \subseteq
                            Range(heldSlots) \cup {Fixed(m) : m \in heldMods \cup stranded}

\* "any held modifiers (e.g. Ctrl) must be re-declared after every upload":
\* between calls the compositor's modifiers are the held ones, unless the last
\* call that could have declared them ended right after its upload.
ModifiersDeclared == stage = "idle" /\ ~lapsed => declared = heldMods

\* What the compositor has down between calls is what wlKeyboard records as held, or
\* a modifier pressed with itself that nothing has released since (applyTempMods,
\* clearTempMods); the slot of a held key keeps its meaning under later keymaps
\* (validateSendkeysSequence, cleanupSendKey, takeSlot); and between calls the
\* compositor's modifiers are the held ones (uploadKeymapAndRestoreMods).
HeldKeepTheirMeaning == MeaningsAreKept /\ SlotsAreDown /\ ModifiersDeclared
=============================================================================
