--------------------------- MODULE ScreenCapture ----------------------------
(***************************************************************************)
(* The wlr-screencopy backend (screen/wlrscreencopy.go): captures take     *)
(* turns on one cached connection, whose proxies and shared memory are     *)
(* kept for the next; a janitor closes an idle connection, and Close ends  *)
(* everything.  The compositor is external: it may be slow, fail, and say  *)
(* that a frame is ready before it was asked to copy one.                  *)
(***************************************************************************)
EXTENDS Naturals, Sequences, FiniteSets

CONSTANTS
    Nil,
    Callers,     \* each captures once
    Geometries,  \* formats and sizes of a frame
    MaxConns     \* bound on the connections that are made

ASSUME NilIsNoCapture == Nil \notin Callers /\ Nil \notin Nat /\ Nil \notin Geometries /\ Nil # "ok"
ASSUME NilIsNoMemory == Nil \notin [geometry : Geometries, pixels : Callers \cup {Nil}]
ASSUME MaxConnsIsNat == MaxConns \in Nat

VARIABLES
    cap,      \* each caller's capture
    holder,   \* ctxMu: a caller or Nil
    active,   \* activeCancel: whose
    conn,     \* b.ctx: a connection or Nil
    conns,    \* connections made, and those of them that are open
    proxies,  \* the connection that the cached proxies belong to, or Nil
    idle,     \* the connection has been idle for longer than the ttl
    memory,   \* cachedBuf and cachedFd: geometry and whose pixels it has, or Nil
    shut,     \* b.closed
    closer    \* where Close is

cvars == <<cap, holder, active, conn, conns, proxies, idle, memory, shut, closer>>

NewFrame == [geometry |-> Nil, events |-> <<>>, copying |-> FALSE, ready |-> FALSE, failed |-> FALSE]
NewCapture == [at |-> "idle", canceled |-> FALSE, frame |-> NewFrame, result |-> Nil,
               pixels |-> Nil]

At(c, at) == cap[c].at = at
Go(c, at) == cap' = [cap EXCEPT ![c].at = at]

-----------------------------------------------------------------------------
(* withWlrContextContext.                                                   *)

Enter(c) ==
    /\ At(c, "idle")
    /\ IF shut THEN cap' = [cap EXCEPT ![c].at = "returned", ![c].result = "closed"]
       ELSE Go(c, "waits")
    /\ UNCHANGED <<holder, active, conn, conns, proxies, idle, memory, shut, closer>>

\* The mutex, and the second look at closed
Lock(c) ==
    /\ At(c, "waits") /\ holder = Nil
    /\ IF shut THEN cap' = [cap EXCEPT ![c].at = "returned", ![c].result = "closed"] /\ UNCHANGED holder
       ELSE Go(c, "locked") /\ holder' = c
    /\ UNCHANGED <<active, conn, conns, proxies, idle, memory, shut, closer>>

Arm(c) ==
    /\ At(c, "locked") /\ Go(c, "connects") /\ active' = c
    /\ UNCHANGED <<holder, conn, conns, proxies, idle, memory, shut, closer>>

\* Mutant of Connect: the proxies of the last connection are kept.
ConnectOnly(c) ==
    /\ At(c, "connects") /\ Go(c, "sets up") /\ idle' = FALSE
    /\ IF conn # Nil THEN UNCHANGED <<conn, conns>>
       ELSE /\ conns.made < MaxConns /\ conn' = conns.made + 1
            /\ conns' = [made |-> conns.made + 1, open |-> conns.open \cup {conns.made + 1}]
    /\ UNCHANGED <<holder, active, proxies, memory, shut, closer>>

\* A new connection has no proxies.
Connect(c) ==
    /\ At(c, "connects") /\ Go(c, "sets up") /\ idle' = FALSE
    /\ IF conn # Nil THEN UNCHANGED <<conn, conns, proxies>>
       ELSE /\ conns.made < MaxConns /\ conn' = conns.made + 1 /\ proxies' = Nil
            /\ conns' = [made |-> conns.made + 1, open |-> conns.open \cup {conns.made + 1}]
    /\ UNCHANGED <<holder, active, memory, shut, closer>>

\* setupProxies; it may fail when the manager is already bound (see Fails).
SetUp(c) ==
    /\ At(c, "sets up") /\ Go(c, "begins")
    /\ proxies' = IF proxies = Nil THEN conn ELSE proxies
    /\ UNCHANGED <<holder, active, conn, conns, idle, memory, shut, closer>>
HalfSetUp(c) ==
    /\ At(c, "sets up") /\ proxies = Nil /\ Go(c, "half set up") /\ proxies' = conn
    /\ UNCHANGED <<holder, active, conn, conns, idle, memory, shut, closer>>

\* The deferred end of the operation
Leave(c, result, pixels) ==
    /\ cap' = [cap EXCEPT ![c].at = "returned", ![c].result = result, ![c].pixels = pixels,
                          ![c].frame = NewFrame]
    /\ active' = Nil /\ holder' = Nil

\* Any failure, of the compositor or because the operation was canceled, costs
\* the connection.
Fails(c) ==
    /\ holder = c /\ cap[c].at # "locked" /\ (At(c, "connects") => conn = Nil)
    /\ ~At(c, "processes") \/ cap[c].canceled
    /\ Leave(c, "error", Nil)
    /\ conns' = [conns EXCEPT !.open = @ \ {conn}] /\ conn' = Nil
    /\ UNCHANGED <<proxies, idle, memory, shut, closer>>

-----------------------------------------------------------------------------
(* captureFrame.                                                            *)

\* capture_output: the compositor describes the buffer; it may say at once that
\* the frame is ready.
BeginFrame(c, g) ==
    /\ At(c, "begins")
    /\ \E events \in {<<"buffer">>, <<"buffer", "ready">>} :
          cap' = [cap EXCEPT ![c].at = "describes",
                             ![c].frame = [NewFrame EXCEPT !.geometry = g, !.events = events]]
    /\ UNCHANGED <<holder, active, conn, conns, proxies, idle, memory, shut, closer>>

\* The frame's handler and applyWlrFrameEvent
Apply(frame) ==
    LET event == Head(frame.events)
    IN  [frame EXCEPT !.events = Tail(@),
                      !.failed = @ \/ (event = "ready" /\ ~frame.copying),
                      !.ready = @ \/ (event = "ready" /\ frame.copying)]

\* One event; after the description a round trip takes in all that was sent.
Dispatch(c) ==
    /\ cap[c].at \in {"describes", "copies"} /\ cap[c].frame.events # <<>>
    /\ cap' = [cap EXCEPT ![c].frame = Apply(@)]
    /\ UNCHANGED <<holder, active, conn, conns, proxies, idle, memory, shut, closer>>
Described(c) ==
    /\ At(c, "describes") /\ cap[c].frame.events = <<>> /\ ~cap[c].frame.failed
    /\ Go(c, "maps")
    /\ UNCHANGED <<holder, active, conn, conns, proxies, idle, memory, shut, closer>>

\* The cached memory is used again if it has this geometry; a pool and a buffer
\* are made of it, and the copy is requested.
Map(c) ==
    /\ At(c, "maps")
    /\ memory' = IF memory # Nil /\ memory.geometry = cap[c].frame.geometry THEN memory
                 ELSE [geometry |-> cap[c].frame.geometry, pixels |-> Nil]
    /\ cap' = [cap EXCEPT ![c].at = "copies", ![c].frame.copying = TRUE]
    /\ UNCHANGED <<holder, active, conn, conns, proxies, idle, shut, closer>>

\* The old mapping is gone and the new one could not be made.
MapFails(c) ==
    /\ At(c, "maps") /\ memory # Nil /\ memory.geometry # cap[c].frame.geometry
    /\ memory' = Nil /\ Leave(c, "error", Nil)
    /\ conns' = [conns EXCEPT !.open = @ \ {conn}] /\ conn' = Nil
    /\ UNCHANGED <<proxies, idle, shut, closer>>

\* The compositor writes the pixels and says so.
Copy(c) ==
    /\ At(c, "copies") /\ ~cap[c].frame.ready /\ cap[c].frame.events = <<>>
    /\ memory' = [memory EXCEPT !.pixels = c]
    /\ cap' = [cap EXCEPT ![c].frame.events = <<"ready">>]
    /\ UNCHANGED <<holder, active, conn, conns, proxies, idle, shut, closer>>

Ready(c) ==
    /\ At(c, "copies") /\ cap[c].frame.ready /\ Go(c, "processes")
    /\ UNCHANGED <<holder, active, conn, conns, proxies, idle, memory, shut, closer>>

\* Grab, GrabFullHash and GrabRegionHash read the memory; an operation that was
\* canceled meanwhile publishes nothing (Fails).
Process(c) ==
    /\ At(c, "processes") /\ ~cap[c].canceled
    /\ Leave(c, "ok", memory.pixels) /\ idle' = FALSE
    /\ UNCHANGED <<conn, conns, proxies, memory, shut, closer>>

-----------------------------------------------------------------------------
CancelCapture(c) ==
    /\ cap[c].at \notin {"idle", "returned"} /\ ~cap[c].canceled
    /\ cap' = [cap EXCEPT ![c].canceled = TRUE]
    /\ UNCHANGED <<holder, active, conn, conns, proxies, idle, memory, shut, closer>>

\* Nobody has used the connection for the ttl.
Expire ==
    /\ conn # Nil /\ holder = Nil /\ ~idle /\ idle' = TRUE
    /\ UNCHANGED <<cap, holder, active, conn, conns, proxies, memory, shut, closer>>

Janitor ==
    /\ ~shut /\ holder = Nil /\ conn # Nil /\ idle
    /\ conns' = [conns EXCEPT !.open = @ \ {conn}] /\ conn' = Nil
    /\ UNCHANGED <<cap, holder, active, proxies, idle, memory, shut, closer>>

\* Close
CloseBegins ==
    /\ closer = "idle" /\ shut' = TRUE /\ closer' = "cancels"
    /\ UNCHANGED <<cap, holder, active, conn, conns, proxies, idle, memory>>
CloseCancels ==
    /\ closer = "cancels" /\ closer' = "waits"
    /\ cap' = IF active = Nil THEN cap ELSE [cap EXCEPT ![active].canceled = TRUE]
    /\ UNCHANGED <<holder, active, conn, conns, proxies, idle, memory, shut>>
CloseReleases ==
    /\ closer = "waits" /\ holder = Nil /\ closer' = "returned"
    /\ conns' = [conns EXCEPT !.open = @ \ {conn}] /\ conn' = Nil /\ memory' = Nil
    /\ UNCHANGED <<cap, holder, active, proxies, idle, shut>>

CaptureInit ==
    /\ cap = [c \in Callers |-> NewCapture] /\ holder = Nil /\ active = Nil
    /\ conn = Nil /\ conns = [made |-> 0, open |-> {}] /\ proxies = Nil /\ idle = FALSE
    /\ memory = Nil /\ shut = FALSE /\ closer = "idle"

CaptureNext ==
    \/ \E c \in Callers :
          \/ Enter(c) \/ Lock(c) \/ Arm(c) \/ Connect(c) \/ SetUp(c) \/ HalfSetUp(c) \/ Fails(c)
          \/ \E g \in Geometries : BeginFrame(c, g)
          \/ Dispatch(c) \/ Described(c) \/ Map(c) \/ MapFails(c) \/ Copy(c) \/ Ready(c) \/ Process(c)
          \/ CancelCapture(c)
    \/ Expire \/ Janitor \/ CloseBegins \/ CloseCancels \/ CloseReleases

CaptureSpec == CaptureInit /\ [][CaptureNext]_cvars

-----------------------------------------------------------------------------
\* The pixels a caller gets were written for its own frame, in its geometry, even
\* though the memory is used again and a compositor may call a frame ready before
\* the copy (captureFrame).
PixelsAreThisFrame ==
    \A c \in Callers :
        /\ At(c, "processes") => memory = [geometry |-> cap[c].frame.geometry, pixels |-> c]
        /\ cap[c].result = "ok" => cap[c].pixels = c

\* The proxies in use are those of the connection, no connection is left open but
\* the cached one, and nothing is left after Close (withWlrContextContext, Close).
OneConnection ==
    /\ \A c \in Callers : cap[c].at \in {"begins", "describes", "maps", "copies", "processes"} =>
          conn # Nil /\ proxies = conn
    /\ conns.open \subseteq {conn}
    /\ closer = "returned" => conns.open = {} /\ memory = Nil

\* A capture returns the pixels of its own frame, over the one connection that the
\* backend owns (wlrscreencopy.go).
CapturesAreExact == PixelsAreThisFrame /\ OneConnection

\* Close cancels the capture that is under way (Diagnostics: the current capture is
\* canceled on Close).
CloseCancelsCapture ==
    closer \in {"waits", "returned"} => \A c \in Callers : holder = c => cap[c].canceled
=============================================================================
