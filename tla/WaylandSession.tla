--------------------------- MODULE WaylandSession ---------------------------
(***************************************************************************)
(* The cache of Wayland connections (internal/wl/session.go).  NewSession  *)
(* returns a handle of the connection cached for a socket, or dials one    *)
(* outside of the lock and then publishes it unless another call has been  *)
(* faster; a handle's Close gives up its reference, and the last one       *)
(* closes the connection.                                                  *)
(*                                                                         *)
(* A connection, and the sessionRef that counts its handles, is named by   *)
(* the call of NewSession that has dialled it.                             *)
(***************************************************************************)
EXTENDS Naturals, FiniteSets

CONSTANTS
    Calls,      \* calls of NewSession, each followed by Close on its handle
    Sockets,    \* socket paths
    SockOf,     \* the path each call is given
    NoConn      \* no connection

ASSUME CallsFinite == IsFiniteSet(Calls)
ASSUME SockOfType == SockOf \in [Calls -> Sockets]
ASSUME NoConnIsNone == NoConn \notin Calls

VARIABLES
    pc,       \* where each call, then the Close of its handle, is
    conn,     \* the connection each call has dialled
    cache,    \* sessionCache
    refs,     \* sessionRef.refs
    handle    \* the connection each call's handle belongs to

vars == <<pc, conn, cache, refs, handle>>

Init ==
    /\ pc = [c \in Calls |-> "idle"]
    /\ conn = [c \in Calls |-> "none"]
    /\ cache = [s \in Sockets |-> NoConn]
    /\ refs = [c \in Calls |-> 0]
    /\ handle = [c \in Calls |-> NoConn]

Sock(c) == SockOf[c]
Move(c, l) == pc' = [pc EXCEPT ![c] = l]

-----------------------------------------------------------------------------
(* NewSessionContext.                                                      *)

\* Under sessionCacheMu: a cached connection gets one more handle.
Acquire(c, d) ==
    /\ refs' = [refs EXCEPT ![d] = refs[d] + 1]
    /\ handle' = [handle EXCEPT ![c] = d]

\* The first look at the cache, under sessionCacheMu.
Lookup(c) ==
    /\ pc[c] = "idle"
    /\ IF cache[Sock(c)] # NoConn
       THEN Acquire(c, cache[Sock(c)]) /\ Move(c, "open")
       ELSE Move(c, "dial") /\ UNCHANGED <<refs, handle>>
    /\ UNCHANGED <<conn, cache>>

\* The context is done already, or at the hit.
LookupFails(c) ==
    /\ pc[c] = "idle"
    /\ Move(c, "failed")
    /\ UNCHANGED <<conn, cache, refs, handle>>

\* ConnectContext.
Dial(c) ==
    /\ pc[c] = "dial"
    /\ conn' = [conn EXCEPT ![c] = "open"]
    /\ Move(c, "setup")
    /\ UNCHANGED <<cache, refs, handle>>

DialFails(c) ==
    /\ pc[c] = "dial"
    /\ Move(c, "failed")
    /\ UNCHANGED <<conn, cache, refs, handle>>

\* Mutant of SetupFails: the connection is forgotten.
SetupFailsOpen(c) ==
    /\ pc[c] = "setup"
    /\ Move(c, "failed")
    /\ UNCHANGED <<conn, cache, refs, handle>>

\* GetRegistry, the round trip or the context fails, here or under the lock.
SetupFails(c) ==
    /\ pc[c] = "setup"
    /\ conn' = [conn EXCEPT ![c] = "closed"]
    /\ Move(c, "failed")
    /\ UNCHANGED <<cache, refs, handle>>

\* Mutant of Publish: the cache is not looked at a second time.
PublishBlindly(c) ==
    /\ pc[c] = "setup"
    /\ cache' = [cache EXCEPT ![Sock(c)] = c]
    /\ Acquire(c, c) /\ Move(c, "open")
    /\ UNCHANGED conn

\* The second look, under sessionCacheMu: the connection is published, or the
\* one that another call has published meanwhile is taken.
Publish(c) ==
    /\ pc[c] = "setup"
    /\ IF cache[Sock(c)] # NoConn
       THEN Acquire(c, cache[Sock(c)]) /\ Move(c, "discard") /\ UNCHANGED cache
       ELSE /\ cache' = [cache EXCEPT ![Sock(c)] = c]
            /\ Acquire(c, c) /\ Move(c, "open")
    /\ UNCHANGED conn

\* The connection that came too late is closed, outside of the lock.
Discard(c) ==
    /\ pc[c] = "discard"
    /\ conn' = [conn EXCEPT ![c] = "closed"]
    /\ Move(c, "open")
    /\ UNCHANGED <<cache, refs, handle>>

-----------------------------------------------------------------------------
(* Session.Close on the handle; a second one finds closeDone and returns.  *)

\* Mutant of MarkClosed: Close does not remember that it was called.
MarkClosedAgain(c) ==
    /\ pc[c] \in {"open", "closed"}
    /\ Move(c, "release")
    /\ UNCHANGED <<conn, cache, refs, handle>>

MarkClosed(c) ==
    /\ pc[c] = "open"
    /\ Move(c, "release")
    /\ UNCHANGED <<conn, cache, refs, handle>>

\* Under sessionCacheMu: the reference is given up if the cache still holds
\* this handle's connection, and the last one takes it out.
Release(c) ==
    /\ pc[c] = "release"
    /\ LET d == handle[c] IN
       IF cache[Sock(c)] # d
       THEN Move(c, "closed") /\ UNCHANGED <<cache, refs>>
       ELSE /\ refs' = [refs EXCEPT ![d] = refs[d] - 1]
            /\ IF refs[d] <= 1
               THEN Move(c, "close") /\ cache' = [cache EXCEPT ![Sock(c)] = NoConn]
               ELSE Move(c, "closed") /\ UNCHANGED cache
    /\ UNCHANGED <<conn, handle>>

\* ref.sess.Ctx.Close, outside of the lock.
CloseConn(c) ==
    /\ pc[c] = "close"
    /\ conn' = [conn EXCEPT ![handle[c]] = "closed"]
    /\ Move(c, "closed")
    /\ UNCHANGED <<cache, refs, handle>>

-----------------------------------------------------------------------------

CallStep(c) ==
    \/ Lookup(c) \/ LookupFails(c) \/ Dial(c) \/ DialFails(c)
    \/ SetupFails(c) \/ Publish(c) \/ Discard(c)
    \/ MarkClosed(c) \/ Release(c) \/ CloseConn(c)

Next == \E c \in Calls : CallStep(c)

Spec == Init /\ [][Next]_vars

-----------------------------------------------------------------------------
(* Properties.                                                             *)

Labels == {"idle", "dial", "setup", "discard", "open", "release", "close",
           "closed", "failed"}

\* Calls whose handle counts in refs.
Holding(c) == pc[c] \in {"discard", "open", "release"}
Holders(d) == {c \in Calls : Holding(c) /\ handle[c] = d}

\* Every variable has its type.
TypeOK ==
    /\ pc \in [Calls -> Labels]
    /\ conn \in [Calls -> {"none", "open", "closed"}]
    /\ cache \in [Sockets -> Calls \cup {NoConn}]
    /\ refs \in [Calls -> Nat]
    /\ handle \in [Calls -> Calls \cup {NoConn}]

\* A handle that has not been closed can use its connection (NewSession,
\* Close).
HandleIsUsable ==
    \A c \in Calls : pc[c] \in {"discard", "open", "release"} =>
        handle[c] \in Calls /\ conn[handle[c]] = "open"

\* Open handles of one socket share one connection ("Sessions are cached
\* per-socket and reference-counted").
HandlesShare ==
    \A c, e \in Calls : Holding(c) /\ Holding(e) /\ Sock(c) = Sock(e) =>
        handle[c] = handle[e]

\* However calls of NewSession and Close interleave, with Close called again, a
\* handle that is not closed has an open connection, the one that all handles of
\* its socket share.
HandlesAreSound == HandleIsUsable /\ HandlesShare

\* A connection stays open only for somebody: the call that is setting it up
\* or discarding it, a handle, or the Close that is about to close it.
NoConnectionLeaks ==
    \A d \in Calls : conn[d] = "open" =>
        \/ pc[d] \in {"setup", "discard"}
        \/ Holders(d) # {}
        \/ \E c \in Calls : pc[c] = "close" /\ handle[c] = d
=============================================================================
