--------------------------- MODULE RemoteDesktop ----------------------------
(***************************************************************************)
(* The input backend of the RemoteDesktop portal (input/portal.go) over an *)
(* EIS connection (input/eis.go).  Callers hand a command to one writer,   *)
(* which writes its frames to the socket; the reader answers pings on the  *)
(* same socket, under the same mutex; the watcher and any failed write     *)
(* revoke the session; Close releases what is held and stops the writer.   *)
(*                                                                         *)
(* An operation is a sequence of actions: taps, presses and releases of    *)
(* keys or buttons, clicks, literal text, motion and scrolling.            *)
(***************************************************************************)
EXTENDS KeySequence, SequencesExt, FiniteSets

CONSTANTS
    Nothing,
    Callers,
    Inputs,        \* keys and buttons
    ModifierOrder, \* the modifiers, in the order in which they are pressed
    Scenes         \* records of the operations each caller may ask for, sequences
                   \* of actions, and whether Close is called and whether the other
                   \* side pings and stalls

Closer == "closer"
Users == Callers \cup {Closer}
Modifiers == ToSet(ModifierOrder)

Action(kind, key, mods) == [kind |-> kind, key |-> key, mods |-> mods]
PortalActions ==
    [kind : {"down", "up", "tap", "click"}, key : Inputs, mods : SUBSET Modifiers]
    \cup [kind : {"literal", "move", "scroll"}, key : {Nothing}, mods : {{}}]
ReleaseAll == <<Action("releaseAll", Nothing, {})>>

ASSUME NothingIsNothing ==
    Nothing \notin Inputs \cup Users \cup {"writer", "reader", "ok", "invalid", "canceled", "refused", "revoked"}
ASSUME InputsAreFinite == IsFiniteSet(Inputs)
ASSUME ModifiersAreInputs == Modifiers \subseteq Inputs
ASSUME ScenesAreScenes == \A s \in Scenes : \A c \in Callers : s.ops[c] \subseteq Seq(PortalActions)

VARIABLES
    scene,    \* one of Scenes
    session,  \* revoked, stopped (stop is closed), socket, alive (the
              \* reader runs), peer (the other side reads)
    call,     \* each user's call
    writer,   \* the writer and the command it runs
    reader,   \* whether the reader has a ping to answer
    writeMu,  \* who is writing
    heldKeys, \* heldKeys and buttons
    downKeys, \* what the compositor has down for this session
    stray     \* history: a release was sent of what was not down

portalVars == <<scene, session, call, writer, reader, writeMu, heldKeys, downKeys, stray>>

\* stateError
Refusing == session.revoked \/ session.stopped

Set(c, r) == call' = [call EXCEPT ![c] = r]
Ended(c, result) == [call[c] EXCEPT !.pc = "done", !.result = result]

-----------------------------------------------------------------------------
(* Callers: submit.                                                         *)

Submit(c, op) ==
    /\ call[c].pc = "idle"
    /\ c = Closer => op = ReleaseAll
    /\ IF Refusing THEN Set(c, Ended(c, "refused"))
       ELSE Set(c, [call[c] EXCEPT !.pc = "asked", !.op = op])
    /\ UNCHANGED <<scene, session, writer, reader, writeMu, heldKeys, downKeys, stray>>

\* The context ends; the clean-up of Close has one of 250 ms.
CancelCall(c) ==
    /\ call[c].pc \in {"asked", "sent"} /\ ~call[c].canceled
    /\ Set(c, [call[c] EXCEPT !.canceled = TRUE])
    /\ UNCHANGED <<scene, session, writer, reader, writeMu, heldKeys, downKeys, stray>>

\* The command goes to the writer.
Hand(c) ==
    /\ call[c].pc = "asked" /\ writer.pc = "idle"
    /\ Set(c, [call[c] EXCEPT !.pc = "sent"])
    /\ writer' = [writer EXCEPT !.pc = "got", !.by = c]
    /\ UNCHANGED <<scene, session, reader, writeMu, heldKeys, downKeys, stray>>

\* Mutant of GiveUp: the end of the session is not noticed.
GiveUpIfCanceled(c) ==
    /\ call[c].pc \in {"asked", "sent"} /\ call[c].canceled /\ Set(c, Ended(c, "canceled"))
    /\ UNCHANGED <<scene, session, writer, reader, writeMu, heldKeys, downKeys, stray>>

\* Any of the other ways out of the two selects
GiveUp(c) ==
    /\ call[c].pc \in {"asked", "sent"}
    /\ \/ call[c].canceled /\ Set(c, Ended(c, "canceled"))
       \/ Refusing /\ Set(c, Ended(c, "refused"))
    /\ UNCHANGED <<scene, session, writer, reader, writeMu, heldKeys, downKeys, stray>>

\* The writer's receipt: neither a canceled call nor one of a session that has
\* been revoked is acknowledged.
Receive(c) ==
    /\ call[c].pc = "sent" /\ call[c].receipt # Nothing
    /\ Set(c, Ended(c, IF call[c].canceled THEN "canceled"
                       ELSE IF Refusing THEN "refused" ELSE call[c].receipt))
    /\ UNCHANGED <<scene, session, writer, reader, writeMu, heldKeys, downKeys, stray>>

-----------------------------------------------------------------------------
(* The writer: writeLoop and the commands.                                  *)

Frame(key, kind) == [key |-> key, kind |-> kind]
Keyless == Frame(Nothing, "other")
Downs(keys) == [i \in DOMAIN keys |-> Frame(keys[i], "down")]
Ups(keys) == [i \in DOMAIN keys |-> Frame(keys[i], "up")]

\* KeyDown and KeyUp, or MouseDown and MouseUp
HoldFrames(a) == <<Frame(a.key, a.kind)>>
\* MouseClick: the motion, and the button
ClickFrames(a) == <<Keyless, Frame(a.key, "down"), Frame(a.key, "up")>>
\* TypeLiteral: text longer than a message is split (eiTextFrames)
LiteralFrames == <<Keyless, Keyless>>
\* MouseMove and scroll
MoveFrames == <<Keyless>>
ScrollFrames == <<Keyless>>
\* releaseHeldInput, in any order
ReleaseFrames == {Ups(keys) : keys \in SetToSeqs(heldKeys)}

OwnFrames(a) ==
    CASE a.kind \in {"down", "up"} -> HoldFrames(a)
      [] a.kind = "tap" -> <<Frame(a.key, "down"), Frame(a.key, "up")>>
      [] a.kind = "click" -> ClickFrames(a)
      [] a.kind = "literal" -> LiteralFrames
      [] a.kind = "move" -> MoveFrames
      [] OTHER -> ScrollFrames

\* typeAction: the modifiers that are not held are pressed around the key, in
\* the order of modifierNames.
Rank(m) == CHOOSE i \in DOMAIN ModifierOrder : ModifierOrder[i] = m
TemporaryKeys(a) ==
    {keys \in SetToSeqs(a.mods \ heldKeys) :
        \A i, j \in DOMAIN keys : i < j => Rank(keys[i]) < Rank(keys[j])}
Frames(a) ==
    IF a.kind = "releaseAll" THEN ReleaseFrames
    ELSE {Downs(keys) \o OwnFrames(a) \o Reverse(Ups(keys)) : keys \in TemporaryKeys(a)}

\* Only what is held is released, and only what is not held is pressed (KeyDown,
\* MouseDown, MouseClick; KeyUp, MouseUp).
Permits(a, isHeld) == a.kind = "up" <=> isHeld

\* validateTypeHeldSequence
ValidSequence(op) ==
    \A i \in DOMAIN op : op[i].key = Nothing \/ Permits(op[i], HeldBefore(heldKeys, op, i, op[i].key))

Receipt(err) ==
    [call EXCEPT ![writer.by].receipt = IF call[writer.by].canceled THEN "canceled" ELSE err]
Idle(pc) == [writer EXCEPT !.pc = pc, !.acts = <<>>, !.frames = <<>>]

\* A command that was canceled before it was taken is not run.
Take ==
    /\ writer.pc = "got"
    /\ LET c == writer.by
           op == call[c].op
       IN  IF call[c].canceled THEN call' = Receipt("canceled") /\ writer' = Idle("idle")
           ELSE IF Refusing THEN call' = Receipt("refused") /\ writer' = Idle("over")
           ELSE IF ~ValidSequence(op) THEN call' = Receipt("invalid") /\ writer' = Idle("idle")
           ELSE /\ writer' = [writer EXCEPT !.pc = "run", !.acts = op, !.frames = <<>>]
                /\ call' = [call EXCEPT ![c].started = TRUE]
    /\ UNCHANGED <<scene, session, reader, writeMu, heldKeys, downKeys, stray>>

\* The next action, unless the context has ended
RunAction ==
    /\ writer.pc = "run" /\ writer.frames = <<>>
    /\ IF writer.acts = <<>>
       THEN call' = Receipt("ok") /\ writer' = Idle("idle")
       ELSE IF call[writer.by].canceled /\ Len(call[writer.by].op) > 1
       THEN call' = Receipt("canceled") /\ writer' = Idle("idle")
       ELSE /\ \E frames \in Frames(Head(writer.acts)) :
                   writer' = [writer EXCEPT !.frames = frames, !.acts = Tail(@)]
            /\ UNCHANGED call
    /\ UNCHANGED <<scene, session, reader, writeMu, heldKeys, downKeys, stray>>

\* writeMessages blocks with the mutex, because the other side does not read;
\* the reader does with its ping.
Block(who) ==
    /\ writeMu = Nothing /\ session.socket /\ ~session.peer
    /\ IF who = "writer" THEN writer.pc = "run" /\ writer.frames # <<>> ELSE reader = "ping"
    /\ writeMu' = who
    /\ UNCHANGED <<scene, session, call, writer, reader, heldKeys, downKeys, stray>>

\* A combination of a modifier with itself, which only the names that parseCombo
\* lets end a combination allow
WithItself(op) == \E i \in DOMAIN op : op[i].key \in op[i].mods

\* The keys that are down, or held, after a frame
Applied(keys, f) ==
    CASE f.kind = "down" -> keys \cup {f.key} [] f.kind = "up" -> keys \ {f.key} [] OTHER -> keys

\* One frame reaches the compositor and is recorded.
Write ==
    /\ writeMu = Nothing /\ session.socket /\ session.peer
    /\ writer.pc = "run" /\ writer.frames # <<>>
    /\ LET f == Head(writer.frames)
       IN  /\ downKeys' = Applied(downKeys, f) /\ heldKeys' = Applied(heldKeys, f)
           /\ stray' = (stray \/ (f.kind = "up" /\ f.key \notin downKeys /\ ~WithItself(call[writer.by].op)))
           /\ writer' = [writer EXCEPT !.frames = Tail(@)]
    /\ UNCHANGED <<scene, session, call, reader, writeMu>>

\* Mutant of WriteFails: the session goes on.
WriteFailsQuietly ==
    /\ writer.pc = "run" /\ writer.frames # <<>> /\ writeMu \in {Nothing, "writer"}
    /\ writeMu' = Nothing /\ call' = Receipt("revoked") /\ writer' = Idle("idle")
    /\ downKeys' = Applied(downKeys, Head(writer.frames))
    /\ UNCHANGED <<scene, session, reader, heldKeys, stray>>

\* revoke
Revoked == [session EXCEPT !.revoked = TRUE]

\* The write fails: the socket is closed or broken, the context has ended
\* (AfterFunc moves the deadline) or the deadline has passed.  The frame may
\* have arrived, and is not recorded.
WriteFails ==
    /\ writer.pc = "run" /\ writer.frames # <<>> /\ writeMu \in {Nothing, "writer"}
    /\ writeMu' = Nothing /\ session' = Revoked
    /\ call' = Receipt("revoked") /\ writer' = Idle("over")
    /\ \/ UNCHANGED downKeys
       \/ session.socket /\ downKeys' = Applied(downKeys, Head(writer.frames))
    /\ UNCHANGED <<scene, reader, heldKeys, stray>>

\* MouseClick waits with the button down; an end of the context revokes.
ClickCanceled ==
    /\ writer.pc = "run" /\ writeMu = Nothing /\ call[writer.by].canceled
    /\ \E i \in DOMAIN call[writer.by].op : call[writer.by].op[i].kind = "click"
    /\ Len(writer.frames) = 1
    /\ session' = Revoked
    /\ call' = Receipt("revoked") /\ writer' = Idle("over")
    /\ UNCHANGED <<scene, reader, writeMu, heldKeys, downKeys, stray>>

\* The writer sees that the session is over when it has nothing to do.
WriterStops ==
    /\ writer.pc = "idle" /\ Refusing
    /\ writer' = Idle("over")
    /\ UNCHANGED <<scene, session, call, reader, writeMu, heldKeys, downKeys, stray>>

-----------------------------------------------------------------------------
(* The reader, the watcher and the other side.                              *)

Ping ==
    /\ scene.stalls /\ reader = "idle" /\ session.alive /\ session.socket /\ reader' = "ping"
    /\ UNCHANGED <<scene, session, call, writer, writeMu, heldKeys, downKeys, stray>>

\* answerPing
Pong ==
    /\ reader = "ping" /\ writeMu = Nothing /\ session.socket /\ session.peer
    /\ reader' = "over"
    /\ UNCHANGED <<scene, session, call, writer, writeMu, heldKeys, downKeys, stray>>

\* Its write fails with the socket, or with the deadline that a command has set
\* for it; the reader ends.
PongFails ==
    /\ reader = "ping" /\ writeMu \in {Nothing, "reader"}
    /\ ~session.socket \/ (writeMu = "reader" /\ writer.pc = "run")
    /\ writeMu' = Nothing /\ reader' = "over"
    /\ session' = [session EXCEPT !.alive = FALSE]
    /\ UNCHANGED <<scene, call, writer, heldKeys, downKeys, stray>>

\* The other side stops to read.
PeerStalls ==
    /\ scene.stalls /\ session.peer /\ session' = [session EXCEPT !.peer = FALSE]
    /\ UNCHANGED <<scene, call, writer, reader, writeMu, heldKeys, downKeys, stray>>

\* watchLifecycle: the portal has closed the session, a device was paused or
\* destroyed, or the reader has ended.
Lifecycle ==
    /\ ~Refusing /\ session' = Revoked
    /\ UNCHANGED <<scene, call, writer, reader, writeMu, heldKeys, downKeys, stray>>

ReaderEnded ==
    /\ ~session.alive /\ ~Refusing /\ call[Closer].pc = "idle"
    /\ session' = Revoked
    /\ UNCHANGED <<scene, call, writer, reader, writeMu, heldKeys, downKeys, stray>>

\* The rest of revoke: the socket and the portal session are closed, and the
\* compositor lets everything go.
Retire ==
    /\ session.revoked /\ session.socket
    /\ session' = [session EXCEPT !.socket = FALSE, !.alive = FALSE]
    /\ downKeys' = {}
    /\ UNCHANGED <<scene, call, writer, reader, writeMu, heldKeys, stray>>

-----------------------------------------------------------------------------
(* Close, after its releaseHeldInput.                                       *)

Stop ==
    /\ call[Closer].pc = "done" /\ ~session.stopped
    /\ session' = [session EXCEPT !.stopped = TRUE, !.socket = FALSE, !.alive = FALSE]
    /\ downKeys' = {}
    /\ UNCHANGED <<scene, call, writer, reader, writeMu, heldKeys, stray>>

CloseReturns ==
    /\ session.stopped /\ writer.pc = "over" /\ call[Closer].pc = "done"
    /\ Set(Closer, [call[Closer] EXCEPT !.pc = "closed"])
    /\ UNCHANGED <<scene, session, writer, reader, writeMu, heldKeys, downKeys, stray>>

-----------------------------------------------------------------------------
PortalInit ==
    /\ scene \in Scenes
    /\ session = [revoked |-> FALSE, stopped |-> FALSE, socket |-> TRUE,
                  alive |-> TRUE, peer |-> TRUE]
    /\ call = [c \in Users |-> [pc |-> "idle", op |-> <<>>, canceled |-> FALSE,
                                started |-> FALSE, receipt |-> Nothing, result |-> Nothing]]
    /\ writer = [pc |-> "idle", by |-> Nothing, acts |-> <<>>, frames |-> <<>>]
    /\ reader = "idle" /\ writeMu = Nothing /\ heldKeys = {} /\ downKeys = {} /\ stray = FALSE

CallerStep(c) == Hand(c) \/ GiveUp(c) \/ Receive(c)
WriterStep == Take \/ RunAction \/ Block("writer") \/ Write \/ WriteFails \/ ClickCanceled \/ WriterStops
OtherStep == Block("reader") \/ Pong \/ PongFails \/ ReaderEnded \/ Retire \/ Stop \/ CloseReturns

PortalNext ==
    \/ \E c \in Callers : \E op \in scene.ops[c] : Submit(c, op)
    \/ scene.closes /\ Submit(Closer, ReleaseAll)
    \/ \E c \in Users : CancelCall(c) \/ CallerStep(c)
    \/ WriterStep \/ Ping \/ PeerStalls \/ Lifecycle \/ OtherStep

\* Goroutines run, and deadlines end every write of a command.
PortalFairness ==
    /\ \A c \in Users : WF_portalVars(CallerStep(c))
    /\ WF_portalVars(WriterStep)
    /\ WF_portalVars(Block("reader")) /\ WF_portalVars(Pong \/ PongFails)
    /\ WF_portalVars(ReaderEnded) /\ WF_portalVars(Retire) /\ WF_portalVars(Stop) /\ WF_portalVars(CloseReturns)

PortalSpec == PortalInit /\ [][PortalNext]_portalVars /\ PortalFairness

-----------------------------------------------------------------------------
(* Properties.                                                              *)

\* While the session stands and no command runs, the compositor has down what
\* the backend records as held (typeAction, releaseHeldInput).
HeldIsDown ==
    ~session.revoked /\ session.socket /\ writer.pc \in {"idle", "got"} => heldKeys = downKeys

\* A caller is told "ok" only when its command ran to its end; one that had been
\* canceled when the writer took it has not run (submit, writeLoop).
ReceiptsAreTrue ==
    \A c \in Users :
        /\ call[c].result = "ok" => call[c].started /\ (writer.by = c => writer.pc # "run")
        /\ call[c].result = "invalid" => ~call[c].started

\* No release is sent of a key that is not down, except in a combination of a
\* modifier with itself (validateTypeHeldSequence).
NoStrayRelease == ~stray

\* While the portal session stands and no command runs, the compositor has down
\* what the backend records as held, and nothing is released that is not down
\* (typeAction, releaseHeldInput, validateTypeHeldSequence); a caller is told of
\* success only when its command ran to its end, and a command that is refused
\* has not run (submit, writeLoop).
RemoteHoldsAreExact == HeldIsDown /\ NoStrayRelease /\ ReceiptsAreTrue

\* No call is under way that has to return: all do, Close too, even if the
\* other side stops to read while a ping is answered.
PortalQuiet ==
    /\ \A c \in Callers : call[c].pc \in {"idle", "done"}
    /\ call[Closer].pc \in {"idle", "closed"}
=============================================================================
