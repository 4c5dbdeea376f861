--------------------------- MODULE WaylandContext ---------------------------
(***************************************************************************)
(* A Wayland connection that several backends share (internal/wl/wl.go):   *)
(* the registry of client objects, the gates that serialise operations,    *)
(* round trips and reads, and the dispatch of one message, which reads the *)
(* header and the body from the socket one after the other.                *)
(*                                                                         *)
(* A user makes one call: a round trip (wl_display.sync and dispatch until *)
(* its callback is done) or a pump (dispatch of one message, as the        *)
(* captures do), inside WithOperationContext unless it is bare.  The       *)
(* compositor adds and removes globals and answers sync requests in order. *)
(***************************************************************************)
EXTENDS Naturals, Sequences, SequencesExt

CONSTANTS
    Trips,          \* users that make a round trip
    Pumps,          \* users that dispatch one message
    Bare,           \* users that do not enter WithOperationContext
    Names,          \* names of globals
    MaxChanges,     \* bound on the compositor's changes of its globals
    Cutters         \* users whose context may end in the middle of a message

Users == Trips \cup Pumps
Nobody == "nobody"
RegistryID == 2

ASSUME UsersAreDistinct ==
    Trips \cap Pumps = {} /\ Bare \subseteq Users /\ Cutters \subseteq Users /\ Nobody \notin Users
ASSUME MaxChangesIsNat == MaxChanges \in Nat

VARIABLES
    at,          \* where each user is
    cancelled,   \* users whose context is done
    result,      \* what each call returned: "none", "ok", "err"
    opGate,      \* owner of operationGate
    tripGate,    \* owner of roundTripGate
    readGate,    \* owner of dispatchGate
    nextID,      \* last object ID allocated
    objects,     \* IDs of registered callbacks
    callback,    \* each user's callback ID, 0 before it has one
    done,        \* users whose done channel holds the answer
    globals,     \* the client's view of the globals
    applied,     \* history: number of changes applied to that view
    requests,    \* sync requests on their way to the compositor
    events,      \* messages on their way to the client
    stream,      \* "whole", "astray" in a message that was cut, or "rejoined" after one
    closed,      \* Context.closed
    alive,       \* whether the compositor is connected
    views,       \* history: the compositor's globals after each change
    asked        \* history: changes made before each user's sync request

client == <<nextID, objects, callback, done, globals, applied>>
gates == <<opGate, tripGate, readGate>>
wire == <<requests, events, stream>>
server == <<alive, views>>
contextVars == <<at, cancelled, result, client, gates, wire, closed, server, asked>>

Changes == [id : {RegistryID}, name : Names, add : BOOLEAN]
Done(id) == [id |-> id]
Apply(view, change) == IF change.add THEN view \cup {change.name}
                                     ELSE view \ {change.name}

\* Registry.Dispatch with the handlers addGlobal and removeGlobal.
Noted(view, change) == IF change.add THEN view \cup {change.name}
                                     ELSE view \ {change.name}

\* The registry round trip of NewSession has brought the globals there are.
ContextInit ==
    /\ at = [u \in Users |-> "idle"] /\ cancelled = {}
    /\ result = [u \in Users |-> "none"]
    /\ opGate = Nobody /\ tripGate = Nobody /\ readGate = Nobody
    /\ nextID = RegistryID /\ objects = {} /\ callback = [u \in Users |-> 0]
    /\ done = {} /\ globals = Names /\ applied = 0
    /\ requests = <<>> /\ events = <<>> /\ stream = "whole"
    /\ closed = FALSE /\ alive = TRUE
    /\ views = <<Names>> /\ asked = [u \in Users |-> 0]

Go(u, l) == at' = [at EXCEPT ![u] = l]

-----------------------------------------------------------------------------
(* A call.                                                                 *)

\* The deferred functions: the callback is unregistered and the gates are
\* given back, the one taken last first.
Return(u, r) ==
    /\ Go(u, "returned")
    /\ result' = [result EXCEPT ![u] = r]
    /\ objects' = objects \ {callback[u]}
    /\ tripGate' = IF tripGate = u THEN Nobody ELSE tripGate
    /\ opGate' = IF opGate = u THEN Nobody ELSE opGate

Inner(u) == IF u \in Trips THEN "tripGate" ELSE "readGate"

\* Mutant of Outer: no call enters WithOperationContext.
OuterInner(u) == Inner(u)

\* Where a call starts.
Outer(u) == IF u \in Bare THEN Inner(u) ELSE "opGate"

\* cancel.Err, ensureOpen.
Call(u) ==
    /\ at[u] = "idle"
    /\ IF u \in cancelled \/ closed
       THEN Go(u, "returned") /\ result' = [result EXCEPT ![u] = "err"]
       ELSE Go(u, Outer(u)) /\ UNCHANGED result
    /\ UNCHANGED <<cancelled, client, gates, wire, closed, server, asked>>

\* The caller's context is cancelled or its deadline passes.
Cancel(u) ==
    /\ at[u] # "returned" /\ u \notin cancelled
    /\ cancelled' = cancelled \cup {u}
    /\ UNCHANGED <<at, result, client, gates, wire, closed, server, asked>>

\* WithOperationContext: the gate is taken and checkOpen looks again.
EnterOperation(u) ==
    /\ at[u] = "opGate" /\ opGate = Nobody
    /\ IF u \in cancelled \/ closed
       THEN Return(u, "err")
       ELSE opGate' = u /\ Go(u, Inner(u)) /\ UNCHANGED <<result, objects, tripGate>>
    /\ UNCHANGED <<cancelled, nextID, callback, done, globals, applied, readGate,
                   wire, closed, server, asked>>

\* Mutant of Allocate: the ID after the largest one in use.
AllocateLargest == IF objects = {} THEN RegistryID + 1
                   ELSE 1 + CHOOSE i \in objects : \A j \in objects : j <= i

\* Register: the next ID that is not in use.
Allocate == nextID + 1

\* RoundTripContext: the gate is taken, checkOpen looks again and the callback
\* is registered.
EnterRoundTrip(u) ==
    /\ at[u] = "tripGate" /\ tripGate = Nobody
    /\ IF u \in cancelled \/ closed
       THEN Return(u, "err") /\ UNCHANGED <<nextID, callback>>
       ELSE /\ tripGate' = u
            /\ nextID' = Allocate
            /\ callback' = [callback EXCEPT ![u] = Allocate]
            /\ objects' = objects \cup {Allocate}
            /\ Go(u, "write")
            /\ UNCHANGED <<result, opGate>>
    /\ UNCHANGED <<cancelled, done, globals, applied, readGate, wire, closed, server, asked>>

\* A wait for a gate ends with the caller's context.
AbandonGate(u) ==
    /\ at[u] \in {"opGate", "tripGate", "readGate"}
    /\ u \in cancelled
    /\ Return(u, "err")
    /\ UNCHANGED <<cancelled, nextID, callback, done, globals, applied, readGate,
                   wire, closed, server, asked>>

\* WriteMsgContext: the whole request is written under the write gate.
Write(u) ==
    /\ at[u] = "write"
    /\ u \notin cancelled /\ ~closed /\ alive
    /\ requests' = Append(requests, callback[u])
    /\ asked' = [asked EXCEPT ![u] = Len(views) - 1]
    /\ Go(u, "readGate")
    /\ UNCHANGED <<cancelled, result, client, gates, events, stream, closed, server>>

\* It fails, or the context ends before anything is written.
WriteFails(u) ==
    /\ at[u] = "write"
    /\ u \in cancelled \/ closed \/ ~alive
    /\ Return(u, "err")
    /\ UNCHANGED <<cancelled, nextID, callback, done, globals, applied, readGate,
                   wire, closed, server, asked>>

\* DispatchContext: the gate is taken and checkOpen looks again.
EnterDispatch(u) ==
    /\ at[u] = "readGate" /\ readGate = Nobody
    /\ IF u \in cancelled \/ closed
       THEN Return(u, "err") /\ UNCHANGED readGate
       ELSE readGate' = u /\ Go(u, "header")
            /\ UNCHANGED <<result, objects, tripGate, opGate>>
    /\ UNCHANGED <<cancelled, nextID, callback, done, globals, applied, wire,
                   closed, server, asked>>

\* dispatch: the first read, of a header.
ReadHeader(u) ==
    /\ at[u] = "header" /\ stream # "astray"
    /\ events # <<>> /\ ~closed
    /\ Go(u, "body")
    /\ UNCHANGED <<cancelled, result, client, gates, wire, closed, server, asked>>

\* A read ends without data: the context's deadline, Close, or end of file.  The
\* deadline may leave the stream in the middle of a message.
ReadFails(u) ==
    /\ \/ at[u] = "header" /\ (u \in cancelled \/ closed \/ (~alive /\ events = <<>>))
       \/ at[u] = "body" /\ (u \in cancelled \cap Cutters \/ closed)
    /\ Return(u, "err")
    /\ readGate' = Nobody
    /\ stream' \in IF u \notin Cutters \/ closed \/ events = <<>> THEN {stream}
                   ELSE IF at[u] = "body" THEN {"astray"} ELSE {stream, "astray"}
    /\ UNCHANGED <<cancelled, nextID, callback, done, globals, applied, requests, events,
                   closed, server, asked>>

\* The registered object handles the event, one of an unknown sender is
\* dropped: Callback.Dispatch, Registry.Dispatch.
Handle(e) ==
    IF e.id = RegistryID
    THEN globals' = Noted(globals, e) /\ UNCHANGED done
    ELSE /\ done' = done \cup {u \in Users : callback[u] = e.id /\ e.id \in objects}
         /\ UNCHANGED globals

\* RoundTripContext looks at its channel after every dispatch of its own.
Complete(u) == u \in Pumps \/ u \in done'

\* DispatchContext gives back the gate, and a context that is done by now turns
\* success into an error.
Conclude(u) ==
    /\ readGate' = Nobody
    /\ CASE u \in cancelled -> Return(u, "err")
         [] u \notin cancelled /\ Complete(u) -> Return(u, "ok")
         [] OTHER -> Go(u, "readGate") /\ UNCHANGED <<result, objects, tripGate, opGate>>

\* What the rest of a message may be taken for: an event of any object, or of none.
Misread == Changes \cup {Done(0)} \cup {Done(callback[u]) : u \in Users}

\* dispatch, where it takes the rest of a message that was cut for a message.  Its
\* size may be invalid, or the context may end while it waits for so much; or some
\* object gets an event that nobody sent.  The size decides how much of the stream
\* is gone, and whether the next read begins where a message does.
ReadAstray(u) ==
    /\ at[u] = "header" /\ stream = "astray" /\ ~closed
    /\ \E k \in 0..Len(events) :
        /\ events' = SubSeq(events, k + 1, Len(events))
        /\ \/ stream' = "rejoined" /\ k > 0
           \/ stream' = "astray" /\ k < Len(events)
    /\ \/ Return(u, "err") /\ readGate' = Nobody /\ UNCHANGED <<done, globals>>
       \/ \E e \in Misread : Handle(e) /\ Conclude(u)
    /\ UNCHANGED <<cancelled, nextID, callback, applied, requests, closed, server, asked>>

\* The client's view has one more of the compositor's changes.
Counted(e) == applied' = applied + (IF e.id = RegistryID THEN 1 ELSE 0)

\* Mutant of ReadBody: an event for an object that is gone is an error.
ReadBodyStrict(u) ==
    /\ at[u] = "body" /\ ~closed
    /\ Handle(Head(events)) /\ Counted(Head(events))
    /\ events' = Tail(events)
    /\ IF Head(events).id \in objects \cup {RegistryID} THEN Conclude(u)
                                                       ELSE Return(u, "err") /\ readGate' = Nobody
    /\ UNCHANGED <<cancelled, nextID, callback, requests, stream, closed, server, asked>>

\* dispatch: the second read and the handler.
ReadBody(u) ==
    /\ at[u] = "body" /\ ~closed
    /\ Handle(Head(events)) /\ Counted(Head(events))
    /\ events' = Tail(events)
    /\ Conclude(u)
    /\ UNCHANGED <<cancelled, nextID, callback, requests, stream, closed, server, asked>>

\* Context.Close, by the holder of the last reference.
Close ==
    /\ ~closed
    /\ closed' = TRUE
    /\ UNCHANGED <<at, cancelled, result, client, gates, wire, server, asked>>

-----------------------------------------------------------------------------
(* The compositor.                                                         *)

\* A global comes or goes.
ServerChanges ==
    /\ alive /\ Len(views) <= MaxChanges
    /\ \E c \in Changes :
        /\ c.add <=> c.name \notin Last(views)
        /\ events' = Append(events, c)
        /\ views' = Append(views, Apply(Last(views), c))
    /\ UNCHANGED <<at, cancelled, result, client, gates, requests, stream, closed,
                   alive, asked>>

\* wl_display.sync is answered.
ServerAnswers ==
    /\ alive /\ requests # <<>>
    /\ requests' = Tail(requests)
    /\ events' = Append(events, Done(Head(requests)))
    /\ UNCHANGED <<at, cancelled, result, client, gates, stream, closed, alive, views, asked>>

\* The compositor goes away; what it has sent can still be read.
ServerDies ==
    /\ alive
    /\ alive' = FALSE
    /\ UNCHANGED <<at, cancelled, result, client, gates, wire, closed, views, asked>>

-----------------------------------------------------------------------------

EnterGate(u) == EnterOperation(u) \/ EnterRoundTrip(u) \/ EnterDispatch(u)

UserStep(u) ==
    \/ EnterGate(u) \/ AbandonGate(u) \/ Write(u) \/ WriteFails(u)
    \/ ReadHeader(u) \/ ReadFails(u) \/ ReadBody(u) \/ ReadAstray(u)

ContextNext ==
    \/ \E u \in Users : Call(u) \/ Cancel(u) \/ UserStep(u)
    \/ Close \/ ServerChanges \/ ServerAnswers \/ ServerDies

ContextSpec == ContextInit /\ [][ContextNext]_contextVars

\* Users take their steps, gates are channels with first-come waiters, the
\* compositor answers, and the deadline of a capture, the caller of a pump,
\* passes.  Nobody has to cancel a round trip.
ContextFairness ==
    /\ \A u \in Users : WF_contextVars(UserStep(u)) /\ SF_contextVars(EnterGate(u))
    /\ \A u \in Pumps : WF_contextVars(Cancel(u))
    /\ WF_contextVars(ServerAnswers)

-----------------------------------------------------------------------------
(* Properties.                                                             *)

\* As long as no message was cut, the client's view of the globals is one the
\* compositor has had (dispatch, addGlobal, removeGlobal), and a round trip that
\* succeeds has seen everything the compositor had sent when the round trip asked,
\* whatever answers of abandoned round trips are still under way (RoundTripContext,
\* Register).  Of a stream that is read from the middle of a message nothing is
\* claimed: the rest may be taken for any event, an answer among them.
RoundTripIsBarrier ==
    stream = "whole" =>
        /\ applied + 1 \in DOMAIN views /\ globals = views[applied + 1]
        /\ \A u \in Trips : result[u] = "ok" => applied >= asked[u]

\* A call fails only if its own context ended, the connection was closed or
\* the compositor left: "A read deadline preserves the connection for other
\* users of a reference-counted session" (DispatchContext).
OthersAreUnharmed ==
    \A u \in Users : result[u] = "err" => u \in cancelled \/ closed \/ ~alive

\* So it is for as long as no deadline has cut a message that was being read,
\* whoever waits for which gate, gives up and reads whose answer (DispatchContext,
\* WithOperationContext, RoundTripContext).
UnharmedUntilCut == stream = "whole" => OthersAreUnharmed

\* Every call returns, though a done event is noticed only by the round trip's
\* own dispatch (RoundTripContext, WithOperationContext), unless a message was cut:
\* the rest of it may ask the next read for more than the compositor ever sends.
CallsReturn ==
    \A u \in Users : (at[u] # "idle") ~> (at[u] = "returned" \/ stream # "whole")
=============================================================================
