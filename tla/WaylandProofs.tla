---------------------------- MODULE WaylandProofs ----------------------------
(***************************************************************************)
(* Proofs about the cache of Wayland connections (WaylandSession), for any *)
(* finite set of calls and any sockets, and about the users of one         *)
(* connection (WaylandContext), for any users and globals.                 *)
(*                                                                         *)
(* That a handle can use its connection is not inductive: it needs that    *)
(* the connection is still the cached one, that refs counts the handles    *)
(* exactly, so that only the last Close takes it out, and that a           *)
(* connection that is being discarded was never published.                 *)
(***************************************************************************)
EXTENDS WaylandSession, WaylandContext, FiniteSetTheorems, TLAPS

-----------------------------------------------------------------------------
(* The cache.                                                              *)

\* Calls that have dialled a connection nobody else knows, or none.
Private == {"idle", "dial", "setup", "discard", "failed"}

\* A cached connection is its socket's, is open and has handles.
CacheInv ==
    \A s \in Sockets : cache[s] # NoConn =>
        /\ Sock(cache[s]) = s /\ conn[cache[s]] = "open"
        /\ pc[cache[s]] \notin Private
        /\ refs[cache[s]] >= 1

\* A handle that counts is one of the cached connection.
HolderInv ==
    \A c \in Calls : Holding(c) => handle[c] \in Calls /\ cache[Sock(c)] = handle[c]

\* refs is the number of handles that count.
RefsInv == \A d \in Calls : refs[d] = Cardinality(Holders(d))

\* The call that has taken a connection out of the cache is its last user.
CloserInv ==
    \A c \in Calls : pc[c] = "close" =>
        handle[c] \in Calls /\ \A s \in Sockets : cache[s] # handle[c]

\* Handles are made of published connections only.
HandleInv ==
    \A c \in Calls : handle[c] # NoConn => pc[handle[c]] \notin Private

\* Whom an open connection is open for.
OpenInv ==
    \A d \in Calls :
        /\ pc[d] \in {"idle", "dial"} => conn[d] = "none"
        /\ pc[d] = "setup" => conn[d] = "open"
        /\ conn[d] = "open" =>
              \/ pc[d] \in {"setup", "discard"}
              \/ cache[Sock(d)] = d
              \/ \E c \in Calls : pc[c] = "close" /\ handle[c] = d

IInv ==
    /\ TypeOK /\ CacheInv /\ HolderInv /\ RefsInv /\ CloserInv
    /\ HandleInv /\ OpenInv

-----------------------------------------------------------------------------
\* Holders(d) is a finite set, whose size changes by one with one handle.
LEMMA HoldersFinite ==
    ASSUME NEW d PROVE IsFiniteSet(Holders(d)) /\ Cardinality(Holders(d)) \in Nat
  BY CallsFinite, FS_Subset, FS_CardinalityType DEF Holders

\* A call without a handle that counts gets one: d has one more, and nobody
\* else's number changes (the refs++ of NewSessionContext).
LEMMA OneMoreHolder ==
    ASSUME RefsInv, TypeOK, NEW c \in Calls, NEW d \in Calls, ~Holding(c),
           Acquire(c, d), NEW l, l \in {"open", "discard"}, Move(c, l)
    PROVE  RefsInv' /\ refs' \in [Calls -> Nat]
  <1>1. Holders(d)' = Holders(d) \cup {c} /\ c \notin Holders(d)
    BY DEF Holders, Holding, Acquire, Move, TypeOK
  <1>2. \A e \in Calls \ {d} : Holders(e)' = Holders(e)
    BY DEF Holders, Holding, Acquire, Move, TypeOK
  <1>3. Cardinality(Holders(d) \cup {c}) = Cardinality(Holders(d)) + 1
    BY <1>1, HoldersFinite, FS_AddElement
  <1>4. refs' = [refs EXCEPT ![d] = refs[d] + 1] /\ refs \in [Calls -> Nat]
    BY DEF Acquire, TypeOK
  <1>5. \A e \in Calls : refs'[e] = Cardinality(Holders(e)')
    BY <1>1, <1>2, <1>3, <1>4 DEF RefsInv
  <1> QED BY <1>4, <1>5 DEF RefsInv

\* A call whose step leaves its handle and its share in refs alone changes no
\* number.
LEMMA SameHolders ==
    ASSUME TypeOK, NEW c \in Calls, NEW l, Move(c, l), UNCHANGED handle,
           Holding(c) <=> l \in {"discard", "open", "release"}
    PROVE  \A d : Holders(d)' = Holders(d)
  BY DEF TypeOK, Move, Holders, Holding

\* Init establishes the inductive invariant.
LEMMA InitIInv == Init => IInv
  <1> SUFFICES ASSUME Init PROVE IInv
    OBVIOUS
  <1>1. TypeOK
    BY NoConnIsNone, SockOfType DEF Init, TypeOK, Labels
  <1>2. \A d \in Calls : Holders(d) = {}
    BY DEF Init, Holders, Holding
  <1>3. RefsInv
    BY <1>2, FS_EmptySet DEF Init, RefsInv
  <1>4. CacheInv /\ HolderInv /\ CloserInv /\ HandleInv /\ OpenInv
    BY SockOfType DEF Init, CacheInv, HolderInv, CloserInv, HandleInv, OpenInv,
       Holding, Sock
  <1> QED BY <1>1, <1>3, <1>4 DEF IInv

\* A call gets a handle of the connection d that its socket's cache entry
\* holds from now on; used for both looks at the cache.
LEMMA AcquireKeeps ==
    ASSUME IInv, NEW c \in Calls, NEW d \in Calls, NEW l \in {"open", "discard"},
           pc[c] \in {"idle", "setup"}, Acquire(c, d), Move(c, l),
           cache[Sock(c)] = d, UNCHANGED <<cache, conn>>,
           pc[c] = "idle" => l = "open",
           pc[c] = "setup" => l = "discard"
    PROVE  IInv'
  <1> USE SockOfType, NoConnIsNone
  <1>1. RefsInv' /\ refs' \in [Calls -> Nat]
    BY OneMoreHolder DEF IInv, Holding
  <1>2. TypeOK'
    BY <1>1 DEF IInv, TypeOK, Acquire, Move, Labels
  <1>3. d # c
    BY DEF IInv, CacheInv, Private, Sock
  <1>4. CacheInv'
    BY <1>3 DEF IInv, TypeOK, CacheInv, Acquire, Move, Private, Sock
  <1>5. HolderInv'
    BY DEF IInv, TypeOK, HolderInv, Acquire, Move, Holding, Sock
  <1>6. CloserInv'
    BY DEF IInv, TypeOK, CloserInv, Acquire, Move
  <1>7. HandleInv'
    <2> SUFFICES ASSUME NEW e \in Calls, handle'[e] # NoConn
                 PROVE  pc'[handle'[e]] \notin Private
      BY DEF HandleInv
    <2>1. CASE e = c
      BY <2>1, <1>3 DEF IInv, TypeOK, CacheInv, Acquire, Move, Sock
    <2>2. CASE e # c
      <3>1. handle'[e] = handle[e] /\ handle[e] \in Calls
        BY <2>2 DEF IInv, TypeOK, Acquire
      <3>2. pc[handle[e]] \notin Private /\ handle[e] # c
        BY <3>1 DEF IInv, HandleInv, Private
      <3> QED BY <3>1, <3>2 DEF Move
    <2> QED BY <2>1, <2>2
  <1>8. OpenInv'
    BY DEF IInv, TypeOK, OpenInv, Acquire, Move, Sock
  <1> QED BY <1>1, <1>2, <1>4, <1>5, <1>6, <1>7, <1>8 DEF IInv

\* A miss, and the failures that leave no connection behind.
LEMMA QuietKeeps ==
    ASSUME IInv, NEW c \in Calls, NEW l \in {"dial", "failed"},
           pc[c] \in {"idle", "dial"}, Move(c, l),
           UNCHANGED <<conn, cache, refs, handle>>
    PROVE  IInv'
  <1> USE SockOfType, NoConnIsNone
  <1>1. RefsInv'
    BY SameHolders DEF IInv, RefsInv, Holding
  <1>2. TypeOK'
    BY DEF IInv, TypeOK, Move, Labels
  <1>3. CacheInv' /\ HandleInv'
    BY DEF IInv, TypeOK, CacheInv, HandleInv, Move, Private, Sock
  <1>4. HolderInv' /\ CloserInv'
    BY DEF IInv, TypeOK, HolderInv, CloserInv, Move, Holding, Sock
  <1>5. OpenInv'
    BY DEF IInv, TypeOK, OpenInv, Move, Sock
  <1> QED BY <1>1, <1>2, <1>3, <1>4, <1>5 DEF IInv

\* ConnectContext succeeds.
LEMMA DialKeeps ==
    ASSUME IInv, NEW c \in Calls, Dial(c) PROVE IInv'
  <1> USE SockOfType, NoConnIsNone DEF Dial
  <1>1. RefsInv'
    BY SameHolders DEF IInv, RefsInv, Holding
  <1>2. TypeOK'
    BY DEF IInv, TypeOK, Move, Labels
  <1>3. CacheInv' /\ HandleInv'
    BY DEF IInv, TypeOK, CacheInv, HandleInv, Move, Private, Sock
  <1>4. HolderInv' /\ CloserInv'
    BY DEF IInv, TypeOK, HolderInv, CloserInv, Move, Holding, Sock
  <1>5. OpenInv'
    BY DEF IInv, TypeOK, OpenInv, Move, Sock
  <1> QED BY <1>1, <1>2, <1>3, <1>4, <1>5 DEF IInv

\* A connection that was never published is closed, by the failing call or by
\* the one that found another in the cache: no handle is made of it.
LEMMA DropKeeps ==
    ASSUME IInv, NEW c \in Calls, SetupFails(c) \/ Discard(c) PROVE IInv'
  <1> USE SockOfType, NoConnIsNone DEF SetupFails, Discard
  <1>0. pc[c] \in Private
    BY DEF Private
  <1>1. RefsInv'
    BY SameHolders DEF IInv, RefsInv, Holding
  <1>2. TypeOK'
    BY DEF IInv, TypeOK, Move, Labels
  <1>3. CacheInv'
    <2>1. \A s \in Sockets : cache[s] # c
      BY <1>0 DEF IInv, CacheInv
    <2> QED BY <2>1 DEF IInv, TypeOK, CacheInv, Move, Private, Sock
  <1>4. HandleInv'
    BY <1>0 DEF IInv, TypeOK, HandleInv, Move, Private
  <1>5. HolderInv' /\ CloserInv'
    BY DEF IInv, TypeOK, HolderInv, CloserInv, Move, Holding, Sock
  <1>6. OpenInv'
    BY DEF IInv, TypeOK, OpenInv, Move, Sock
  <1> QED BY <1>1, <1>2, <1>3, <1>4, <1>5, <1>6 DEF IInv

\* A new connection is published with its first handle.
LEMMA PublishKeeps ==
    ASSUME IInv, NEW c \in Calls, pc[c] = "setup", cache[Sock(c)] = NoConn,
           cache' = [cache EXCEPT ![Sock(c)] = c],
           Acquire(c, c), Move(c, "open"), UNCHANGED conn
    PROVE  IInv'
  <1> USE SockOfType, NoConnIsNone
  <1>0. pc[c] \in Private /\ ~Holding(c) /\ Sock(c) \in Sockets
    BY DEF Private, Holding, Sock
  <1>1. RefsInv' /\ refs' \in [Calls -> Nat]
    BY <1>0, OneMoreHolder DEF IInv
  <1>2. TypeOK'
    BY <1>0, <1>1 DEF IInv, TypeOK, Acquire, Move, Labels
  <1>3. CacheInv'
    <2> SUFFICES ASSUME NEW s \in Sockets, cache'[s] # NoConn
                 PROVE  /\ Sock(cache'[s]) = s /\ conn'[cache'[s]] = "open"
                        /\ pc'[cache'[s]] \notin Private
                        /\ refs'[cache'[s]] >= 1
      BY DEF CacheInv, Sock
    <2>1. CASE s = Sock(c)
      BY <2>1, <1>0 DEF IInv, TypeOK, OpenInv, Acquire, Move, Private
    <2>2. CASE s # Sock(c)
      <3>1. cache'[s] = cache[s] /\ cache[s] \in Calls \ {c}
        BY <2>2, <1>0 DEF IInv, TypeOK, CacheInv
      <3> QED BY <3>1 DEF IInv, TypeOK, CacheInv, Acquire, Move
    <2> QED BY <2>1, <2>2
  <1>4. HolderInv'
    BY <1>0 DEF IInv, TypeOK, HolderInv, Acquire, Move, Holding, Sock
  <1>5. CloserInv'
    BY <1>0 DEF IInv, TypeOK, CloserInv, HandleInv, Acquire, Move
  <1>6. HandleInv'
    BY <1>0 DEF IInv, TypeOK, HandleInv, Acquire, Move, Private
  <1>7. OpenInv'
    BY <1>0 DEF IInv, TypeOK, OpenInv, Acquire, Move, Sock
  <1> QED BY <1>1, <1>2, <1>3, <1>4, <1>5, <1>6, <1>7 DEF IInv

\* Close marks its handle.
LEMMA MarkKeeps ==
    ASSUME IInv, NEW c \in Calls, MarkClosed(c) PROVE IInv'
  <1> USE SockOfType, NoConnIsNone DEF MarkClosed
  <1>1. RefsInv'
    BY SameHolders DEF IInv, RefsInv, Holding
  <1>2. TypeOK'
    BY DEF IInv, TypeOK, Move, Labels
  <1>3. CacheInv' /\ HandleInv'
    BY DEF IInv, TypeOK, CacheInv, HandleInv, Move, Private, Sock
  <1>4. HolderInv' /\ CloserInv'
    BY DEF IInv, TypeOK, HolderInv, CloserInv, Move, Holding, Sock
  <1>5. OpenInv'
    BY DEF IInv, TypeOK, OpenInv, Move, Sock
  <1> QED BY <1>1, <1>2, <1>3, <1>4, <1>5 DEF IInv

\* A reference is given up; if it was the last one the connection leaves the
\* cache, and no other handle of it counts.
LEMMA ReleaseKeeps ==
    ASSUME IInv, NEW c \in Calls, Release(c) PROVE IInv'
  <1> USE SockOfType, NoConnIsNone
  <1> DEFINE d == handle[c]
  <1>0. /\ pc[c] = "release" /\ Holding(c) /\ Sock(c) \in Sockets
        /\ d \in Calls /\ cache[Sock(c)] = d
    BY DEF Release, IInv, HolderInv, Holding, Sock
  <1>1. /\ refs' = [refs EXCEPT ![d] = refs[d] - 1]
        /\ UNCHANGED <<conn, handle>>
        /\ \/ refs[d] <= 1 /\ Move(c, "close") /\ cache' = [cache EXCEPT ![Sock(c)] = NoConn]
           \/ ~(refs[d] <= 1) /\ Move(c, "closed") /\ UNCHANGED cache
    BY <1>0 DEF Release
  <1>2. Holders(d)' = Holders(d) \ {c} /\ c \in Holders(d)
    BY <1>0, <1>1 DEF IInv, TypeOK, Holders, Holding, Move
  <1>3. \A e \in Calls \ {d} : Holders(e)' = Holders(e)
    BY <1>0, <1>1 DEF IInv, TypeOK, Holders, Holding, Move
  <1>4. /\ refs[d] = Cardinality(Holders(d))
        /\ Cardinality(Holders(d) \ {c}) = refs[d] - 1
        /\ refs[d] - 1 \in Nat
    <2>1. refs[d] = Cardinality(Holders(d))
      BY <1>0 DEF IInv, RefsInv
    <2>2. Cardinality(Holders(d) \ {c}) = Cardinality(Holders(d)) - 1
      BY <1>2, HoldersFinite, FS_RemoveElement
    <2>3. Cardinality(Holders(d) \ {c}) \in Nat
      BY HoldersFinite, FS_RemoveElement, FS_CardinalityType
    <2> QED BY <2>1, <2>2, <2>3
  <1>5. RefsInv' /\ refs' \in [Calls -> Nat]
    <2>1. refs \in [Calls -> Nat]
      BY DEF IInv, TypeOK
    <2>2. \A e \in Calls : refs'[e] = Cardinality(Holders(e)')
      BY <2>1, <1>0, <1>1, <1>2, <1>3, <1>4 DEF IInv, RefsInv
    <2> QED BY <2>1, <2>2, <1>0, <1>1, <1>4 DEF RefsInv
  <1>6. TypeOK'
    BY <1>0, <1>1, <1>5 DEF IInv, TypeOK, Move, Labels
  <1>7. refs[d] <= 1 => Holders(d) = {c}
    <2> SUFFICES ASSUME refs[d] <= 1 PROVE Holders(d) = {c}
      OBVIOUS
    <2>1. refs[d] \in Nat
      BY <1>0 DEF IInv, TypeOK
    <2>2. Cardinality(Holders(d) \ {c}) = 0
      BY <2>1, <1>4
    <2>3. Holders(d) \ {c} = {}
      BY <2>2, HoldersFinite, FS_RemoveElement, FS_EmptySet
    <2> QED BY <2>3, <1>2
  <1>8. CacheInv'
    <2> SUFFICES ASSUME NEW s \in Sockets, cache'[s] # NoConn
                 PROVE  /\ Sock(cache'[s]) = s /\ conn'[cache'[s]] = "open"
                        /\ pc'[cache'[s]] \notin Private
                        /\ refs'[cache'[s]] >= 1
      BY DEF CacheInv, Sock
    <2>1. cache'[s] = cache[s] /\ cache[s] \in Calls
      BY <1>0, <1>1 DEF IInv, TypeOK
    <2>2. pc'[cache[s]] \notin Private
      BY <2>1, <1>0, <1>1 DEF IInv, TypeOK, CacheInv, Move, Private
    <2>3. refs'[cache[s]] >= 1
      <3>1. CASE cache[s] = d
        <4>1. s = Sock(c)
          BY <3>1, <2>1, <1>0 DEF IInv, CacheInv
        <4> QED BY <4>1, <3>1, <2>1, <1>0, <1>1, <1>4 DEF IInv, TypeOK
      <3>2. CASE cache[s] # d
        BY <3>2, <2>1, <1>0, <1>1 DEF IInv, TypeOK, CacheInv
      <3> QED BY <3>1, <3>2
    <2> QED BY <2>1, <2>2, <2>3, <1>1 DEF IInv, CacheInv
  <1>9. HolderInv'
    <2> SUFFICES ASSUME NEW e \in Calls, Holding(e)'
                 PROVE  handle'[e] \in Calls /\ cache'[Sock(e)] = handle'[e]
      BY DEF HolderInv, Sock
    <2>1. e # c /\ Holding(e)
      BY <1>0, <1>1 DEF IInv, TypeOK, Holding, Move
    <2>2. handle[e] \in Calls /\ cache[Sock(e)] = handle[e]
      BY <2>1 DEF IInv, HolderInv
    <2>3. refs[d] <= 1 => Sock(e) # Sock(c)
      BY <2>1, <2>2, <1>0, <1>7 DEF Holders
    <2> QED BY <2>2, <2>3, <1>0, <1>1 DEF IInv, TypeOK, Sock
  <1>10. CloserInv'
    <2> SUFFICES ASSUME NEW e \in Calls, pc'[e] = "close"
                 PROVE  handle'[e] \in Calls /\ \A s \in Sockets : cache'[s] # handle'[e]
      BY DEF CloserInv
    <2>1. CASE e = c
      <3>1. refs[d] <= 1 /\ cache' = [cache EXCEPT ![Sock(c)] = NoConn]
        BY <2>1, <1>0, <1>1 DEF IInv, TypeOK, Move
      <3>2. \A s \in Sockets : cache[s] = d => s = Sock(c)
        BY <1>0 DEF IInv, CacheInv
      <3> QED BY <2>1, <3>1, <3>2, <1>0, <1>1 DEF IInv, TypeOK
    <2>2. CASE e # c
      BY <2>2, <1>0, <1>1 DEF IInv, TypeOK, CloserInv, Move
    <2> QED BY <2>1, <2>2
  <1>11. HandleInv'
    BY <1>0, <1>1 DEF IInv, TypeOK, HandleInv, Move, Private
  <1>12. OpenInv'
    <2> SUFFICES ASSUME NEW e \in Calls
                 PROVE  OpenInv!(e)'
      BY DEF OpenInv
    <2> QED BY <1>0, <1>1 DEF IInv, TypeOK, OpenInv, CacheInv, Move, Sock
  <1> QED BY <1>5, <1>6, <1>8, <1>9, <1>10, <1>11, <1>12 DEF IInv

\* The last Close closes a connection that is in the cache no more.
LEMMA CloseConnKeeps ==
    ASSUME IInv, NEW c \in Calls, CloseConn(c) PROVE IInv'
  <1> USE SockOfType, NoConnIsNone DEF CloseConn
  <1>0. handle[c] \in Calls /\ \A s \in Sockets : cache[s] # handle[c]
    BY DEF IInv, CloserInv
  <1>1. RefsInv'
    BY SameHolders DEF IInv, RefsInv, Holding
  <1>2. TypeOK'
    BY <1>0 DEF IInv, TypeOK, Move, Labels
  <1>3. CacheInv'
    BY <1>0 DEF IInv, TypeOK, CacheInv, Move, Private, Sock
  <1>4. HandleInv'
    BY <1>0 DEF IInv, TypeOK, HandleInv, Move, Private
  <1>5. HolderInv' /\ CloserInv'
    BY DEF IInv, TypeOK, HolderInv, CloserInv, Move, Holding, Sock
  <1>6. OpenInv'
    BY <1>0 DEF IInv, TypeOK, OpenInv, HandleInv, Move, Private, Sock
  <1> QED BY <1>1, <1>2, <1>3, <1>4, <1>5, <1>6 DEF IInv

-----------------------------------------------------------------------------
\* Every step keeps the inductive invariant.
LEMMA NextIInv == IInv /\ [Next]_vars => IInv'
  <1> SUFFICES ASSUME IInv, [Next]_vars PROVE IInv'
    OBVIOUS
  <1>1. CASE UNCHANGED vars
    BY <1>1 DEF IInv, TypeOK, CacheInv, HolderInv, RefsInv, CloserInv, HandleInv,
       OpenInv, Holding, Holders, Sock, vars
  <1>2. ASSUME NEW c \in Calls, CallStep(c) PROVE IInv'
    <2> USE <1>2
    <2>0. /\ Sock(c) \in Sockets /\ cache[Sock(c)] \in Calls \cup {NoConn}
      BY SockOfType DEF Sock, IInv, TypeOK
    <2>1. CASE Lookup(c)
      <3>1. CASE cache[Sock(c)] # NoConn
        BY <2>0, <2>1, <3>1, AcquireKeeps DEF Lookup
      <3>2. CASE cache[Sock(c)] = NoConn
        BY <2>1, <3>2, QuietKeeps DEF Lookup
      <3> QED BY <3>1, <3>2
    <2>2. CASE LookupFails(c) \/ DialFails(c)
      BY <2>2, QuietKeeps DEF LookupFails, DialFails
    <2>3. CASE Dial(c)
      BY <2>3, DialKeeps
    <2>4. CASE SetupFails(c) \/ Discard(c)
      BY <2>4, DropKeeps
    <2>5. CASE Publish(c)
      <3>1. CASE cache[Sock(c)] # NoConn
        BY <2>0, <2>5, <3>1, AcquireKeeps DEF Publish
      <3>2. CASE cache[Sock(c)] = NoConn
        BY <2>5, <3>2, PublishKeeps DEF Publish
      <3> QED BY <3>1, <3>2
    <2>6. CASE MarkClosed(c)
      BY <2>6, MarkKeeps
    <2>7. CASE Release(c)
      BY <2>7, ReleaseKeeps
    <2>8. CASE CloseConn(c)
      BY <2>8, CloseConnKeeps
    <2> QED BY <2>1, <2>2, <2>3, <2>4, <2>5, <2>6, <2>7, <2>8 DEF CallStep
  <1> QED BY <1>1, <1>2 DEF Next

\* The inductive invariant holds in every reachable state.
THEOREM IInvHolds == Spec => []IInv
  BY InitIInv, NextIInv, PTL DEF Spec

\* A handle that has not been closed can use its connection, and open handles of
\* one socket share one connection, however the calls of NewSession and Close
\* interleave.
THEOREM HandlesSound == Spec => []HandlesAreSound
  <1>1. IInv => HandleIsUsable
    BY SockOfType, NoConnIsNone
       DEF IInv, CacheInv, HolderInv, HandleIsUsable, Holding, Sock
  <1>2. IInv => HandlesShare
    BY DEF IInv, HolderInv, HandlesShare
  <1>3. IInv => HandlesAreSound
    BY <1>1, <1>2 DEF HandlesAreSound
  <1> QED BY <1>3, IInvHolds, PTL

\* No connection stays open for nobody.
THEOREM ConnectionsReleased == Spec => []NoConnectionLeaks
  <1>1. IInv => NoConnectionLeaks
    <2> SUFFICES ASSUME IInv, NEW d \in Calls, conn[d] = "open",
                        pc[d] \notin {"setup", "discard"},
                        ~ \E c \in Calls : pc[c] = "close" /\ handle[c] = d
                 PROVE  Holders(d) # {}
      BY DEF NoConnectionLeaks
    <2>1. cache[Sock(d)] = d /\ Sock(d) \in Sockets
      BY SockOfType DEF IInv, OpenInv, Sock
    <2>2. refs[d] >= 1 /\ refs[d] = Cardinality(Holders(d))
      BY <2>1, NoConnIsNone DEF IInv, CacheInv, RefsInv
    <2> QED BY <2>2, FS_EmptySet
  <1> QED BY <1>1, IInvHolds, PTL

\* Type correctness.
THEOREM TypeCorrect == Spec => []TypeOK
  <1>1. IInv => TypeOK
    BY DEF IInv
  <1> QED BY <1>1, IInvHolds, PTL

-----------------------------------------------------------------------------
(* The users of one connection, for any users, globals and number of       *)
(* changes.  That a round trip is a barrier rests on what is under way:    *)
(* the pending changes lead from the client's view to the compositor's     *)
(* one by one, and in front of every pending answer are the changes that   *)
(* were made before its request (ViewInv); that an answer finds nobody     *)
(* but the round trip that asked rests on the IDs (IdInv, FreshInv).       *)

Places == {"idle", "opGate", "tripGate", "write", "readGate", "header", "body", "returned"}
Messages == Changes \cup [id : Nat]

\* Every variable of the connection has its type.
ContextTypes ==
    /\ at \in [Users -> Places]
    /\ cancelled \in SUBSET Users
    /\ result \in [Users -> {"none", "ok", "err"}]
    /\ opGate \in Users \cup {Nobody} /\ tripGate \in Users \cup {Nobody}
    /\ readGate \in Users \cup {Nobody}
    /\ nextID \in Nat /\ nextID >= RegistryID
    /\ objects \in SUBSET Nat
    /\ callback \in [Users -> Nat]
    /\ done \in SUBSET Users
    /\ globals \in SUBSET Names
    /\ applied \in Nat
    /\ requests \in Seq(Nat) /\ events \in Seq(Messages)
    /\ stream \in {"whole", "astray", "rejoined"} /\ closed \in BOOLEAN /\ alive \in BOOLEAN
    /\ views \in Seq(SUBSET Names) /\ Len(views) >= 1
    /\ asked \in [Users -> Nat]

\* One user reads, and the message whose body it reads is there.
ReaderInv ==
    /\ \A u \in Users : at[u] \in {"header", "body"} <=> readGate = u
    /\ \A u \in Users : at[u] = "body" => events # <<>>

\* An ID is one callback's, and what is under way is about IDs given.
IdInv ==
    /\ \A u \in Users : callback[u] # 0 => RegistryID < callback[u] /\ callback[u] <= nextID
    /\ \A u, v \in Users : callback[u] # 0 /\ callback[u] = callback[v] => u = v
    /\ \A i \in 1..Len(requests) : RegistryID < requests[i] /\ requests[i] <= nextID
    /\ \A i \in 1..Len(events) :
          /\ RegistryID <= events[i].id /\ events[i].id <= nextID
          /\ events[i].id = RegistryID => events[i] \in Changes
    /\ \A u \in Users : at[u] = "write" => callback[u] # 0

\* Before its request a user has neither an answer nor one under way.
Unasked == {"idle", "opGate", "tripGate"}
FreshInv ==
    /\ \A u \in Users : at[u] \in Unasked => callback[u] = 0 /\ u \notin done
    /\ \A u \in Users : at[u] = "write" =>
          /\ u \notin done
          /\ \A i \in 1..Len(requests) : requests[i] # callback[u]
          /\ \A i \in 1..Len(events) : events[i].id # callback[u]

\* An answered user's view has what it asked for, and the compositor had that
\* when a request that is under way was made.
AskInv ==
    /\ \A u \in done : asked[u] <= applied
    /\ \A u \in Users, i \in 1..Len(requests) :
          requests[i] = callback[u] => asked[u] < Len(views)

\* m[i] is the number of changes the client has applied after message i.
Stamps(m) ==
    /\ m[0] = applied /\ m[Len(events)] = Len(views) - 1
    /\ \A i \in 0..Len(events) : m[i] < Len(views)
    /\ \A i \in 1..Len(events) : events[i].id = RegistryID =>
          m[i] = m[i - 1] + 1 /\ views[m[i] + 1] = Noted(views[m[i - 1] + 1], events[i])
    /\ \A i \in 1..Len(events) : events[i].id # RegistryID =>
          m[i] = m[i - 1] /\ \A u \in Users : callback[u] = events[i].id => asked[u] <= m[i]

ViewInv ==
    /\ applied < Len(views) /\ globals = views[applied + 1]
    /\ \E m \in [0..Len(events) -> Nat] : Stamps(m)

OkInv == \A u \in Trips : result[u] = "ok" => u \in done

\* What is under way means what was sent only as long as no message was cut; from
\* then on any event may be made of the rest.
Intact == FreshInv /\ AskInv /\ ViewInv

ContextInv == /\ ContextTypes /\ ReaderInv /\ IdInv /\ OkInv
              /\ stream = "whole" => Intact

-----------------------------------------------------------------------------
\* What is true of a connection that NewSession has just made.
LEMMA ContextInitInv == ASSUME ContextInit PROVE ContextInv
  <1> USE UsersAreDistinct
  <1>1. ContextTypes
    <2>1. requests \in Seq(Nat) /\ events \in Seq(Messages)
      BY DEF ContextInit
    <2>2. views \in Seq(SUBSET Names) /\ Len(views) >= 1
      BY DEF ContextInit
    <2>3. /\ at \in [Users -> Places] /\ result \in [Users -> {"none", "ok", "err"}]
          /\ callback \in [Users -> Nat] /\ asked \in [Users -> Nat]
      BY DEF ContextInit, Places
    <2>4. /\ nextID \in Nat /\ nextID >= RegistryID /\ applied \in Nat
          /\ objects \in SUBSET Nat
      BY DEF ContextInit, RegistryID
    <2> QED BY <2>1, <2>2, <2>3, <2>4 DEF ContextInit, ContextTypes
  <1>2. ReaderInv /\ IdInv /\ FreshInv /\ AskInv /\ OkInv
    BY DEF ContextInit, ReaderInv, IdInv, FreshInv, AskInv, OkInv, Users
  <1>3. ViewInv
    <2>1. applied = 0 /\ events = <<>> /\ views = <<Names>> /\ globals = Names
      BY DEF ContextInit
    <2> DEFINE m == [i \in 0..0 |-> 0]
    <2>2. m \in [0..Len(events) -> Nat] /\ Stamps(m)
      BY <2>1 DEF Stamps
    <2> QED BY <2>1, <2>2 DEF ViewInv
  <1> QED BY <1>1, <1>2, <1>3 DEF ContextInv, Intact

\* Where a user may go that asks for nothing new.
Advances(v) ==
    \/ at'[v] = at[v]
    \/ at'[v] \in {"readGate", "header", "body", "returned"} /\ (at[v] # "write" \/ at'[v] = "returned")
    \/ at[v] \in {"idle", "opGate"} /\ at'[v] \in {"opGate", "tripGate"}

data == <<nextID, callback, done, globals, applied, requests, events, views, asked>>

\* Steps that leave what is under way alone keep what is known of it.
LEMMA DataKept ==
    ASSUME ContextInv, UNCHANGED data, \A v \in Users : Advances(v)
    PROVE IdInv' /\ (Intact => Intact')
  <1> USE DEF data
  <1>1. IdInv'
    BY DEF ContextInv, IdInv, Advances
  <1>2. ASSUME FreshInv PROVE FreshInv'
    BY <1>2 DEF FreshInv, Advances, Unasked
  <1>3. ASSUME AskInv PROVE AskInv'
    BY <1>3 DEF AskInv
  <1>4. ASSUME ViewInv PROVE ViewInv'
    BY <1>4 DEF ViewInv, Stamps
  <1> QED BY <1>1, <1>2, <1>3, <1>4 DEF Intact

\* What the deferred functions of a call do.
LEMMA Returned ==
    ASSUME ContextTypes, NEW u \in Users, NEW r \in {"ok", "err"}, Return(u, r)
    PROVE /\ at' = [at EXCEPT ![u] = "returned"] /\ at' \in [Users -> Places]
          /\ result' = [result EXCEPT ![u] = r] /\ result' \in [Users -> {"none", "ok", "err"}]
          /\ objects' \in SUBSET Nat
          /\ opGate' \in Users \cup {Nobody} /\ tripGate' \in Users \cup {Nobody}
  BY DEF Return, Go, ContextTypes, Places

\* What is left of the invariant when a user takes a step that leaves the data
\* alone.
Settled == /\ ContextTypes' /\ ReaderInv' /\ OkInv' /\ UNCHANGED data
           /\ stream' = "whole" => stream = "whole"
           /\ \A v \in Users : Advances(v)

\* Such a step keeps the invariant.
LEMMA Settles == ASSUME ContextInv, Settled PROVE ContextInv'
  BY DataKept DEF ContextInv, Settled

\* The start of a call.
LEMMA CallSettles == ASSUME ContextInv, NEW u \in Users, Call(u) PROVE Settled
  <1>1. UNCHANGED data /\ UNCHANGED <<cancelled, client, gates, wire, closed, server>>
    BY DEF Call, data, client, server, wire
  <1>2. \E l \in {"opGate", "tripGate", "readGate", "returned"} : at' = [at EXCEPT ![u] = l]
    BY DEF Call, Go, Outer, Inner
  <1>3. result' \in [Users -> {"none", "ok", "err"}]
        /\ \A v \in Users : result'[v] = result[v] \/ result'[v] = "err"
    BY DEF Call, ContextInv, ContextTypes
  <1>4. at[u] = "idle"
    BY DEF Call
  <1>5. ContextTypes'
    BY <1>1, <1>2, <1>3, ZenonT(30) DEF data, client, gates, wire, server, ContextInv, ContextTypes, Places
  <1>6. \A v \in Users : Advances(v)
    BY <1>2, <1>4 DEF Advances, ContextInv, ContextTypes
  <1>7. ReaderInv'
    BY <1>1, <1>2, <1>4 DEF gates, wire, ContextInv, ContextTypes, ReaderInv
  <1>8. OkInv'
    BY <1>1, <1>3 DEF client, ContextInv, OkInv, Users
  <1> QED BY <1>1, <1>5, <1>6, <1>7, <1>8 DEF wire, Settled

\* The end of a context, Close and the end of the compositor.
LEMMA OutsideSettles ==
    ASSUME ContextInv,
           (\E u \in Users : Cancel(u)) \/ Close \/ ServerDies
    PROVE Settled
  <1>1. UNCHANGED data /\ UNCHANGED <<at, result, client, gates, wire, views, asked>>
        /\ cancelled' \in SUBSET Users /\ closed' \in BOOLEAN /\ alive' \in BOOLEAN
    BY DEF Cancel, Close, ServerDies, data, client, server, wire, ContextInv, ContextTypes
  <1> QED BY <1>1 DEF data, client, gates, wire, Settled, Advances, ContextInv, ContextTypes,
                      ReaderInv, OkInv
\* A wait for a gate or a write that ends in an error.
LEMMA ReturnSettles ==
    ASSUME ContextInv, NEW u \in Users, Return(u, "err"), at[u] # "returned",
           UNCHANGED <<cancelled, nextID, callback, done, globals, applied, requests, events,
                       closed, server, asked>>,
           stream' \in {stream, "astray"},
           readGate' = IF at[u] \in {"header", "body"} THEN Nobody ELSE readGate
    PROVE Settled
  <1>1. UNCHANGED data
    BY DEF data, server
  <1>2. /\ at' = [at EXCEPT ![u] = "returned"] /\ at' \in [Users -> Places]
        /\ result' = [result EXCEPT ![u] = "err"] /\ result' \in [Users -> {"none", "ok", "err"}]
        /\ objects' \in SUBSET Nat
        /\ opGate' \in Users \cup {Nobody} /\ tripGate' \in Users \cup {Nobody}
    BY Returned DEF ContextInv
  <1>3. ContextTypes'
    BY <1>1, <1>2 DEF data, server, ContextInv, ContextTypes
  <1>4. ReaderInv'
    BY <1>1, <1>2, UsersAreDistinct DEF data, ContextInv, ContextTypes, ReaderInv
  <1>5. \A v \in Users : Advances(v)
    BY <1>2 DEF Advances, ContextInv, ContextTypes
  <1>6. OkInv'
    BY <1>1, <1>2 DEF data, ContextInv, ContextTypes, OkInv, Users
  <1> QED BY <1>1, <1>3, <1>4, <1>5, <1>6 DEF Settled

\* A gate that is taken, and the header of a message that is read.
LEMMA GateSettles ==
    ASSUME ContextInv, NEW u \in Users, ~Return(u, "err"),
           EnterOperation(u) \/ EnterDispatch(u) \/ ReadHeader(u)
    PROVE Settled
  <1>1. UNCHANGED data /\ UNCHANGED <<cancelled, result, objects, tripGate, closed, alive>>
    BY DEF EnterOperation, EnterDispatch, ReadHeader, data, client, gates, server, wire
  <1>2. CASE EnterOperation(u)
    <2>1. /\ at[u] = "opGate" /\ opGate' = u /\ readGate' = readGate /\ stream' = stream
          /\ at' = [at EXCEPT ![u] = Inner(u)] /\ Inner(u) \in {"tripGate", "readGate"}
      BY <1>2 DEF EnterOperation, Go, Inner, wire
    <2> QED BY <1>1, <2>1 DEF data, Settled, Advances, ContextInv, ContextTypes, Places,
                              ReaderInv, OkInv
  <1>3. CASE EnterDispatch(u)
    <2>1. /\ at[u] = "readGate" /\ opGate' = opGate /\ readGate = Nobody /\ readGate' = u
          /\ stream' = stream /\ at' = [at EXCEPT ![u] = "header"]
      BY <1>3 DEF EnterDispatch, Go, wire
    <2>2. ReaderInv'
      BY <1>1, <2>1, UsersAreDistinct DEF data, ContextInv, ContextTypes, ReaderInv
    <2> QED BY <1>1, <2>1, <2>2 DEF data, Settled, Advances, ContextInv, ContextTypes, Places,
                                    OkInv
  <1>4. CASE ReadHeader(u)
    <2>1. /\ at[u] = "header" /\ opGate' = opGate /\ readGate' = readGate /\ events # <<>>
          /\ stream' = stream /\ at' = [at EXCEPT ![u] = "body"]
      BY <1>4 DEF ReadHeader, Go, gates, wire
    <2>2. ReaderInv'
      BY <1>1, <2>1 DEF data, ContextInv, ContextTypes, ReaderInv
    <2> QED BY <1>1, <2>1, <2>2 DEF data, Settled, Advances, ContextInv, ContextTypes, Places,
                                    OkInv
  <1> QED BY <1>2, <1>3, <1>4

\* All steps of a user that leave alone what is under way.
LEMMA QuietSteps ==
    ASSUME ContextInv, NEW u \in Users,
           \/ EnterOperation(u) \/ EnterDispatch(u) \/ AbandonGate(u) \/ WriteFails(u)
           \/ ReadHeader(u) \/ ReadFails(u)
    PROVE Settled
  <1>1. CASE Return(u, "err")
    <2>1. at[u] \in Places \ {"returned"} /\ at[u] # "idle"
      BY DEF EnterOperation, EnterDispatch, AbandonGate, WriteFails, ReadHeader, ReadFails, Places
    <2>2. UNCHANGED <<cancelled, nextID, callback, done, globals, applied, requests, events,
                      closed, server, asked>>
      BY DEF EnterOperation, EnterDispatch, AbandonGate, WriteFails, ReadHeader, ReadFails, wire,
             client
    <2>3. at'[u] = "returned"
      BY <1>1, Returned DEF ContextInv, ContextTypes
    <2>4. stream' \in {stream, "astray"}
      BY <2>3 DEF EnterOperation, EnterDispatch, AbandonGate, WriteFails, ReadHeader, ReadFails,
                  wire, Go, ContextInv, ContextTypes
    <2>5. readGate' = IF at[u] \in {"header", "body"} THEN Nobody ELSE readGate
      BY <2>3 DEF EnterOperation, EnterDispatch, AbandonGate, WriteFails, ReadHeader, ReadFails,
                  Go, gates, ContextInv, ContextTypes
    <2> QED BY <1>1, <2>1, <2>2, <2>4, <2>5, ReturnSettles
  <1>2. CASE ~Return(u, "err")
    BY <1>2, GateSettles DEF AbandonGate, WriteFails, ReadFails
  <1> QED BY <1>1, <1>2
-----------------------------------------------------------------------------
(* The steps that change what is under way.                                *)

\* Whatever is sent to the client is about an ID.
LEMMA MessageIds == ASSUME NEW e \in Messages PROVE e.id \in Nat
  BY DEF Messages, Changes, RegistryID

\* A round trip gets an ID that nothing under way is about (Register).
LEMMA EnterRoundTripInv == ASSUME ContextInv, NEW u \in Users, EnterRoundTrip(u) PROVE ContextInv'
  <1>1. CASE u \in cancelled \/ closed
    <2>1. /\ Return(u, "err") /\ at[u] = "tripGate" /\ readGate' = readGate
          /\ UNCHANGED <<cancelled, nextID, callback, done, globals, applied, wire, closed,
                         server, asked>>
      BY <1>1 DEF EnterRoundTrip
    <2> QED BY <2>1, ReturnSettles, Settles DEF wire
  <1>2. CASE ~(u \in cancelled \/ closed)
    <2>1. /\ at[u] = "tripGate" /\ tripGate' = u /\ nextID' = nextID + 1
          /\ callback' = [callback EXCEPT ![u] = nextID + 1]
          /\ objects' = objects \cup {nextID + 1}
          /\ at' = [at EXCEPT ![u] = "write"]
          /\ UNCHANGED <<result, opGate, cancelled, done, globals, applied, readGate, requests,
                         events, stream, closed, alive, views, asked>>
      BY <1>2 DEF EnterRoundTrip, Allocate, Go, wire, server
    <2>2. ContextTypes'
      <3>1. nextID \in Nat /\ nextID >= RegistryID /\ RegistryID \in Nat
        BY DEF ContextInv, ContextTypes, RegistryID
      <3>2. nextID + 1 \in Nat /\ nextID + 1 >= RegistryID
        BY <3>1
      <3> QED BY <2>1, <3>2 DEF ContextInv, ContextTypes, Places
    <2>3. ReaderInv' /\ OkInv'
      BY <2>1 DEF ContextInv, ContextTypes, ReaderInv, OkInv
    <2>4. Intact => callback[u] = 0 /\ u \notin done
      BY <2>1 DEF Intact, FreshInv, Unasked
    <2>5. nextID \in Nat /\ nextID >= RegistryID /\ RegistryID \in Nat
      BY DEF ContextInv, ContextTypes, RegistryID
    <2>6. \A v \in Users :
             callback[v] \in Nat /\ callback'[v] = IF v = u THEN nextID + 1 ELSE callback[v]
      BY <2>1 DEF ContextInv, ContextTypes
    <2>7. \A v \in Users : callback[v] # nextID + 1
      BY <2>5, <2>6 DEF ContextInv, IdInv
    <2>8. \A i \in 1..Len(requests) : requests[i] \in Nat /\ requests[i] <= nextID
      BY SMTT(30) DEF ContextInv, ContextTypes, IdInv
    <2>9. \A i \in 1..Len(events) : events[i].id \in Nat /\ events[i].id <= nextID
      <3>1. events \in Seq(Messages)
        BY DEF ContextInv, ContextTypes
      <3>2. \A i \in 1..Len(events) : events[i] \in Messages
        BY <3>1
      <3> QED BY <3>2, MessageIds DEF ContextInv, IdInv
    <2>10. IdInv'
      <3>1. \A v \in Users : at'[v] = "write" => v = u \/ at[v] = "write"
        BY <2>1 DEF ContextInv, ContextTypes
      <3>2. \A v \in Users : at'[v] = "write" => callback'[v] # 0
        BY <2>5, <2>6, <3>1 DEF ContextInv, IdInv
      <3> QED BY <2>1, <2>5, <2>6, <2>7, <2>8, <2>9, <3>2, SMTT(30) DEF ContextInv, IdInv
    <2>11. ASSUME Intact PROVE FreshInv'
      <3>1. \A v \in Users : v # u => at'[v] = at[v] /\ callback'[v] = callback[v]
        BY <2>1, <2>6 DEF ContextInv, ContextTypes
      <3>2. at'[u] = "write" /\ callback'[u] = nextID + 1 /\ nextID + 1 # 0
        BY <2>1, <2>5, <2>6 DEF ContextInv, ContextTypes
      <3>3. \A i \in 1..Len(requests) : requests[i] # nextID + 1
        BY <2>5, <2>8
      <3>4. \A i \in 1..Len(events) : events[i].id # nextID + 1
        BY <2>5, <2>9
      <3> QED BY <2>1, <2>4, <2>11, <3>1, <3>2, <3>3, <3>4 DEF Intact, FreshInv, Unasked
    <2>12. ASSUME Intact PROVE AskInv'
      BY <2>1, <2>5, <2>6, <2>8, <2>12 DEF Intact, AskInv
    <2>13. ASSUME Intact PROVE ViewInv'
      <3>1. PICK m \in [0..Len(events) -> Nat] : Stamps(m)
        BY <2>13 DEF Intact, ViewInv
      <3>2. \A i \in 1..Len(events), v \in Users :
               callback'[v] = events[i].id => callback[v] = events[i].id
        BY <2>5, <2>6, <2>9
      <3>3. Stamps(m)'
        BY <2>1, <3>1, <3>2 DEF Stamps
      <3> QED BY <2>1, <2>13, <3>3 DEF Intact, ViewInv
    <2> QED BY <2>1, <2>2, <2>3, <2>10, <2>11, <2>12, <2>13 DEF ContextInv, Intact
  <1> QED BY <1>1, <1>2

\* A request joins those under way.
LEMMA WriteInv == ASSUME ContextInv, NEW u \in Users, Write(u) PROVE ContextInv'
  <1>1. /\ at[u] = "write" /\ requests' = Append(requests, callback[u])
        /\ asked' = [asked EXCEPT ![u] = Len(views) - 1]
        /\ at' = [at EXCEPT ![u] = "readGate"]
        /\ UNCHANGED <<cancelled, result, nextID, objects, callback, done, globals, applied, opGate,
                       tripGate, readGate, events, stream, closed, alive, views>>
    BY DEF Write, Go, client, gates, server
  <1>2. /\ callback[u] \in Nat /\ callback[u] # 0
        /\ Intact => /\ u \notin done
                     /\ \A i \in 1..Len(requests) : requests[i] # callback[u]
                     /\ \A i \in 1..Len(events) : events[i].id # callback[u]
    BY <1>1 DEF ContextInv, ContextTypes, IdInv, Intact, FreshInv
  <1>3. /\ requests \in Seq(Nat) /\ Len(views) \in Nat /\ Len(views) >= 1
    BY DEF ContextInv, ContextTypes
  <1>4. /\ Len(requests') = Len(requests) + 1 /\ requests' \in Seq(Nat)
        /\ \A i \in 1..Len(requests') :
              requests'[i] = IF i \in 1..Len(requests) THEN requests[i] ELSE callback[u]
    BY <1>1, <1>2, <1>3
  <1>5. ContextTypes'
    <2>1. at \in [Users -> Places] /\ asked \in [Users -> Nat]
      BY DEF ContextInv, ContextTypes
    <2>2. at' \in [Users -> Places]
      BY <1>1, <2>1 DEF Places
    <2>3. Len(views) - 1 \in Nat
      BY <1>3
    <2>4. asked' \in [Users -> Nat]
      BY <1>1, <2>1, <2>3
    <2> QED BY <1>1, <1>4, <2>2, <2>4 DEF ContextInv, ContextTypes
  <1>6. ReaderInv' /\ OkInv'
    BY <1>1 DEF ContextInv, ContextTypes, ReaderInv, OkInv
  <1>7. IdInv'
    <2>1. \A v \in Users : at'[v] = "write" => at[v] = "write"
      BY <1>1 DEF ContextInv, ContextTypes
    <2> QED BY <1>1, <1>2, <1>4, <2>1 DEF ContextInv, ContextTypes, IdInv
  <1>8. \A v \in Users : v # u => at'[v] = at[v] /\ asked'[v] = asked[v]
    BY <1>1 DEF ContextInv, ContextTypes
  <1>9. at'[u] = "readGate" /\ asked'[u] = Len(views) - 1
    BY <1>1 DEF ContextInv, ContextTypes
  <1>10. \A v \in Users : v # u => callback[v] # callback[u]
    BY <1>2 DEF ContextInv, IdInv
  <1>11. ASSUME Intact PROVE FreshInv'
    BY <1>1, <1>4, <1>8, <1>9, <1>10, <1>11 DEF Intact, FreshInv, Unasked
  <1>12. ASSUME Intact PROVE AskInv'
    <2>1. \A v \in done' : asked'[v] <= applied'
      BY <1>1, <1>2, <1>8, <1>12 DEF ContextInv, ContextTypes, Intact, AskInv
    <2>2. ASSUME NEW v \in Users, NEW i \in 1..Len(requests'), requests'[i] = callback[v]
          PROVE asked'[v] < Len(views)
      <3>1. CASE v = u
        BY <1>3, <1>9, <3>1
      <3>2. CASE v # u
        BY <1>4, <1>8, <1>10, <1>12, <2>2, <3>2 DEF Intact, AskInv
      <3> QED BY <3>1, <3>2
    <2> QED BY <1>1, <2>1, <2>2 DEF AskInv
  <1>13. ASSUME Intact PROVE ViewInv'
    <2>1. PICK m \in [0..Len(events) -> Nat] : Stamps(m)
      BY <1>13 DEF Intact, ViewInv
    <2>2. \A i \in 1..Len(events), v \in Users :
             callback[v] = events[i].id => asked'[v] = asked[v]
      BY <1>2, <1>8, <1>13
    <2>3. Stamps(m)'
      BY <1>1, <2>1, <2>2 DEF Stamps
    <2> QED BY <1>1, <1>13, <2>3 DEF Intact, ViewInv
  <1> QED BY <1>1, <1>5, <1>6, <1>7, <1>11, <1>12, <1>13 DEF ContextInv, Intact

\* The messages under way after one more has been sent.
LEMMA EventAppended ==
    ASSUME events \in Seq(Messages), NEW e \in Messages, events' = Append(events, e)
    PROVE /\ events' \in Seq(Messages) /\ Len(events') = Len(events) + 1 /\ Len(events) \in Nat
          /\ \A i \in 1..Len(events) : events'[i] = events[i]
          /\ events'[Len(events) + 1] = e
  OBVIOUS

\* The messages under way after one has been taken.
LEMMA EventTaken ==
    ASSUME events \in Seq(Messages), events # <<>>, events' = Tail(events)
    PROVE /\ events' \in Seq(Messages) /\ Len(events) \in Nat \ {0}
          /\ Len(events') = Len(events) - 1
          /\ \A i \in 1..Len(events') : events'[i] = events[i + 1]
          /\ Head(events) = events[1] /\ events[1] \in Messages
  OBVIOUS

\* The user whose read has ended.
LEMMA ReaderMoves ==
    ASSUME ContextInv, NEW u \in Users, Conclude(u)
    PROVE /\ readGate' = Nobody
          /\ \E l \in {"returned", "readGate"} : at' = [at EXCEPT ![u] = l]
          /\ result' \in [Users -> {"none", "ok", "err"}]
          /\ \A v \in Users : v # u => result'[v] = result[v]
          /\ result'[u] = "ok" => result[u] = "ok" \/ u \in Pumps \/ u \in done'
          /\ result'[u] = "err" => result[u] = "err" \/ u \in cancelled
          /\ objects' \in SUBSET Nat
          /\ opGate' \in Users \cup {Nobody} /\ tripGate' \in Users \cup {Nobody}
  <1>4. readGate' = Nobody
    BY DEF Conclude
  <1>1. CASE u \in cancelled
    <2>1. Return(u, "err")
      BY <1>1 DEF Conclude
    <2> QED BY <1>4, <1>1, <2>1, Returned, SMTT(30) DEF ContextInv, ContextTypes
  <1>2. CASE u \notin cancelled /\ Complete(u)
    <2>1. Return(u, "ok")
      BY <1>2 DEF Conclude
    <2> QED BY <1>4, <1>2, <2>1, Returned DEF ContextInv, ContextTypes, Complete
  <1>3. CASE u \notin cancelled /\ ~Complete(u)
    <2>1. Go(u, "readGate") /\ UNCHANGED <<result, objects, tripGate, opGate>>
      BY <1>3 DEF Conclude
    <2> QED BY <1>4, <2>1 DEF Go, ContextInv, ContextTypes
  <1> QED BY <1>1, <1>2, <1>3, <1>4

\* What the handler changes.
LEMMA Handled ==
    ASSUME ContextInv, NEW e \in Messages, Handle(e), e.id = RegistryID => e \in Changes
    PROVE /\ e.id = RegistryID => globals' = Noted(globals, e) /\ done' = done
          /\ e.id # RegistryID => UNCHANGED globals
          /\ globals' \in SUBSET Names
          /\ done \subseteq done' /\ done' \subseteq Users
          /\ \A v \in done' : v \in done \/ (e.id # RegistryID /\ callback[v] = e.id)
  <1>1. globals \in SUBSET Names /\ done \in SUBSET Users
    BY DEF ContextInv, ContextTypes
  <1>2. CASE e.id = RegistryID
    BY <1>1, <1>2 DEF Handle, Changes, Noted
  <1>3. CASE e.id # RegistryID
    BY <1>1, <1>3 DEF Handle
  <1> QED BY <1>2, <1>3

\* The message whose body is read is handled and gone (dispatch).
LEMMA ReadBodyInv == ASSUME ContextInv, NEW u \in Users, ReadBody(u) PROVE ContextInv'
  <1> DEFINE e == Head(events)
  <1>1. /\ at[u] = "body" /\ Handle(e) /\ Counted(e) /\ events' = Tail(events)
        /\ Conclude(u) /\ readGate' = Nobody
        /\ UNCHANGED <<cancelled, nextID, callback, requests, stream, closed, alive, views, asked>>
    BY DEF ReadBody, Conclude, server
  <1>2. events \in Seq(Messages) /\ events # <<>>
    BY <1>1 DEF ContextInv, ContextTypes, ReaderInv
  <1>3. /\ events' \in Seq(Messages) /\ Len(events) \in Nat \ {0}
        /\ Len(events') = Len(events) - 1
        /\ \A i \in 1..Len(events') : events'[i] = events[i + 1]
        /\ e = events[1] /\ e \in Messages
    BY <1>1, <1>2, EventTaken
  <1> HIDE DEF e
  <1>4. /\ RegistryID <= e.id /\ e.id # 0 /\ (e.id = RegistryID => e \in Changes)
    <2>1. 1 \in 1..Len(events)
      BY <1>3
    <2>2. e.id \in Nat
      BY <1>3, MessageIds
    <2> QED BY <1>3, <2>1, <2>2 DEF ContextInv, IdInv, RegistryID
  <1>5. /\ e.id = RegistryID => globals' = Noted(globals, e) /\ applied' = applied + 1 /\ done' = done
        /\ e.id # RegistryID => UNCHANGED <<globals, applied>>
        /\ globals' \in SUBSET Names /\ applied' \in Nat /\ applied <= applied'
        /\ done \subseteq done' /\ done' \subseteq Users
        /\ \A v \in done' : v \in done \/ (e.id # RegistryID /\ callback[v] = e.id)
    <2>1. applied \in Nat
      BY DEF ContextInv, ContextTypes
    <2> QED BY <1>1, <1>3, <1>4, <2>1, Handled DEF Counted
  <1>6. /\ \E l \in {"returned", "readGate"} : at' = [at EXCEPT ![u] = l]
        /\ result' \in [Users -> {"none", "ok", "err"}]
        /\ \A v \in Users : v # u => result'[v] = result[v]
        /\ result'[u] = "ok" => result[u] = "ok" \/ u \in Pumps \/ u \in done'
        /\ objects' \in SUBSET Nat
        /\ opGate' \in Users \cup {Nobody} /\ tripGate' \in Users \cup {Nobody}
    BY <1>1, ReaderMoves
  <1>7. ContextTypes'
    <2>1. at' \in [Users -> Places]
      BY <1>6 DEF ContextInv, ContextTypes, Places
    <2> QED BY <1>1, <1>3, <1>5, <1>6, <2>1 DEF ContextInv, ContextTypes
  <1>8. ReaderInv'
    BY <1>1, <1>6, UsersAreDistinct DEF ContextInv, ContextTypes, ReaderInv
  <1>9. IdInv'
    <2>1. \A i \in 1..Len(events') : i + 1 \in 1..Len(events) /\ events'[i] = events[i + 1]
      BY <1>3
    <2>2. \A v \in Users : at'[v] = "write" => at[v] = "write"
      BY <1>6 DEF ContextInv, ContextTypes
    <2> QED BY <1>1, <2>1, <2>2 DEF ContextInv, IdInv
  <1>10. ASSUME Intact PROVE FreshInv'
    <2>1. \A i \in 1..Len(events') : i + 1 \in 1..Len(events) /\ events'[i] = events[i + 1]
      BY <1>3
    <2>2. \A v \in Users : at'[v] \in Unasked \cup {"write"} => at'[v] = at[v]
      BY <1>6 DEF ContextInv, ContextTypes, Unasked
    <2>3. 1 \in 1..Len(events)
      BY <1>3
    <2>4. \A v \in Users : at[v] \in Unasked \cup {"write"} => callback[v] # e.id
      BY <1>3, <1>4, <1>10, <2>3 DEF Intact, FreshInv
    <2>5. \A v \in Users : at'[v] \in Unasked \cup {"write"} => v \notin done'
      BY <1>5, <1>10, <2>2, <2>4 DEF Intact, FreshInv
    <2> QED BY <1>1, <1>10, <2>1, <2>2, <2>5 DEF Intact, FreshInv
  <1>16. OkInv'
    BY <1>5, <1>6, UsersAreDistinct DEF ContextInv, OkInv, Users
  <1> SUFFICES ASSUME Intact PROVE AskInv' /\ ViewInv'
    BY <1>1, <1>7, <1>8, <1>9, <1>10, <1>16 DEF ContextInv, Intact
  <1>11. PICK m \in [0..Len(events) -> Nat] : Stamps(m)
    BY DEF Intact, ViewInv
  <1>12. /\ m[0] = applied /\ m[1] < Len(views) /\ m[1] \in Nat
         /\ e.id = RegistryID =>
               m[1] = applied + 1 /\ views[m[1] + 1] = Noted(views[applied + 1], e)
         /\ e.id # RegistryID =>
               m[1] = applied /\ \A v \in Users : callback[v] = e.id => asked[v] <= applied
    <2>1. 1 \in 1..Len(events) /\ 1 \in 0..Len(events) /\ 1 - 1 = 0
      BY <1>3
    <2>2. m[1] \in Nat /\ m[0] = applied /\ m[1] < Len(views)
      BY <1>11, <2>1 DEF Stamps
    <2>3. e.id = RegistryID =>
             m[1] = m[1 - 1] + 1 /\ views[m[1] + 1] = Noted(views[m[1 - 1] + 1], e)
      BY <1>3, <1>11, <2>1 DEF Stamps
    <2>4. e.id # RegistryID =>
             m[1] = m[1 - 1] /\ \A v \in Users : callback[v] = e.id => asked[v] <= m[1]
      BY <1>3, <1>11, <2>1 DEF Stamps
    <2> QED BY <2>1, <2>2, <2>3, <2>4
  <1>13. applied' = m[1] /\ globals' = views[applied' + 1]
    BY <1>5, <1>12 DEF Intact, ViewInv
  <1>14. AskInv'
    <2>1. \A v \in done : asked[v] \in Nat /\ asked[v] <= applied /\ applied \in Nat
      BY DEF ContextInv, ContextTypes, Intact, AskInv
    <2>2. \A v \in done' : asked[v] <= applied'
      BY <1>5, <1>12, <2>1
    <2> QED BY <1>1, <2>2 DEF Intact, AskInv
  <1>15. ViewInv'
    <2>9. PICK n : n = Len(events')
      OBVIOUS
    <2>10. PICK k : k = [i \in 0..n |-> m[i + 1]]
      OBVIOUS
    <2>1. \A i \in 0..Len(events') : i + 1 \in 0..Len(events)
      BY <1>3
    <2>2. k \in [0..Len(events') -> Nat]
      BY <1>11, <2>1, <2>9, <2>10
    <2>3. \A i \in 1..Len(events') :
             /\ i + 1 \in 1..Len(events) /\ (i + 1) - 1 = i
             /\ k[i] = m[i + 1] /\ k[i - 1] = m[i] /\ events'[i] = events[i + 1]
      <3> SUFFICES ASSUME NEW i \in 1..Len(events')
                   PROVE /\ i + 1 \in 1..Len(events) /\ (i + 1) - 1 = i
                         /\ k[i] = m[i + 1] /\ k[i - 1] = m[i] /\ events'[i] = events[i + 1]
        OBVIOUS
      <3>1. i \in 0..n /\ i - 1 \in 0..n /\ (i - 1) + 1 = i /\ i \in Nat
        BY <1>3, <2>9
      <3>2. i + 1 \in 1..Len(events) /\ (i + 1) - 1 = i
        BY <1>3, <3>1
      <3>3. k[i] = m[i + 1] /\ k[i - 1] = m[(i - 1) + 1]
        BY <2>10, <3>1
      <3> QED BY <1>3, <3>1, <3>2, <3>3
    <2>4. k[0] = m[1] /\ k[Len(events')] = m[Len(events)]
      BY <1>3, <2>9, <2>10
    <2>5. \A i \in 0..Len(events') : k[i] < Len(views)
      BY <1>11, <2>1, <2>9, <2>10 DEF Stamps
    <2>6. \A i \in 1..Len(events') : events'[i].id = RegistryID =>
             k[i] = k[i - 1] + 1 /\ views[k[i] + 1] = Noted(views[k[i - 1] + 1], events'[i])
      <3> SUFFICES ASSUME NEW i \in 1..Len(events'), events'[i].id = RegistryID
                   PROVE k[i] = k[i - 1] + 1
                         /\ views[k[i] + 1] = Noted(views[k[i - 1] + 1], events'[i])
        OBVIOUS
      <3>1. /\ i + 1 \in 1..Len(events) /\ (i + 1) - 1 = i
            /\ k[i] = m[i + 1] /\ k[i - 1] = m[i] /\ events'[i] = events[i + 1]
        BY <2>3
      <3>2. m[i + 1] = m[(i + 1) - 1] + 1
            /\ views[m[i + 1] + 1] = Noted(views[m[(i + 1) - 1] + 1], events[i + 1])
        BY <1>11, <3>1 DEF Stamps
      <3> QED BY <3>1, <3>2
    <2>7. \A i \in 1..Len(events') : events'[i].id # RegistryID =>
             k[i] = k[i - 1] /\ \A v \in Users : callback[v] = events'[i].id => asked[v] <= k[i]
      <3> SUFFICES ASSUME NEW i \in 1..Len(events'), events'[i].id # RegistryID
                   PROVE k[i] = k[i - 1]
                         /\ \A v \in Users : callback[v] = events'[i].id => asked[v] <= k[i]
        OBVIOUS
      <3>1. /\ i + 1 \in 1..Len(events) /\ (i + 1) - 1 = i
            /\ k[i] = m[i + 1] /\ k[i - 1] = m[i] /\ events'[i] = events[i + 1]
        BY <2>3
      <3>2. m[i + 1] = m[(i + 1) - 1]
            /\ \A v \in Users : callback[v] = events[i + 1].id => asked[v] <= m[i + 1]
        BY <1>11, <3>1 DEF Stamps
      <3> QED BY <3>1, <3>2
    <2>8. Stamps(k)'
      BY <1>1, <1>11, <1>13, <2>4, <2>5, <2>6, <2>7 DEF Stamps
    <2> QED BY <1>1, <1>12, <1>13, <2>2, <2>8 DEF ViewInv
  <1> QED BY <1>14, <1>15

\* The rest of a message that was cut is taken for another message (dispatch).
LEMMA ReadAstrayInv == ASSUME ContextInv, NEW u \in Users, ReadAstray(u) PROVE ContextInv'
  <1>1. /\ at[u] = "header" /\ stream' \in {"astray", "rejoined"}
        /\ UNCHANGED <<cancelled, nextID, callback, applied, requests, closed, alive, views, asked>>
    BY DEF ReadAstray, server
  <1>2. PICK k \in 0..Len(events) : events' = SubSeq(events, k + 1, Len(events))
    BY DEF ReadAstray
  <1>3. events \in Seq(Messages) /\ Len(events) \in Nat /\ k \in Nat
    BY DEF ContextInv, ContextTypes
  <1>4. /\ events' \in Seq(Messages)
        /\ \A i \in 1..Len(events') : i + k \in 1..Len(events) /\ events'[i] = events[i + k]
    BY <1>2, <1>3
  <1>5. /\ readGate' = Nobody /\ \E l \in {"returned", "readGate"} : at' = [at EXCEPT ![u] = l]
        /\ result' \in [Users -> {"none", "ok", "err"}]
        /\ \A v \in Users : v # u => result'[v] = result[v]
        /\ result'[u] = "ok" => result[u] = "ok" \/ u \in Pumps \/ u \in done'
        /\ objects' \in SUBSET Nat
        /\ opGate' \in Users \cup {Nobody} /\ tripGate' \in Users \cup {Nobody}
        /\ globals' \in SUBSET Names /\ done \subseteq done' /\ done' \subseteq Users
    <2>1. CASE Return(u, "err") /\ readGate' = Nobody /\ UNCHANGED <<done, globals>>
      BY <2>1, Returned, SMTT(30) DEF ContextInv, ContextTypes
    <2>2. CASE \E e \in Misread : Handle(e) /\ Conclude(u)
      <3>1. PICK e \in Misread : Handle(e) /\ Conclude(u)
        BY <2>2
      <3>2. e \in Messages /\ (e.id = RegistryID => e \in Changes)
        <4>1. CASE e \in Changes
          BY <4>1 DEF Messages
        <4>2. ASSUME NEW id \in Nat, e = Done(id), id # RegistryID
              PROVE e \in Messages /\ (e.id = RegistryID => e \in Changes)
          BY <4>2 DEF Done, Messages
        <4>3. CASE e = Done(0)
          BY <4>2, <4>3 DEF RegistryID
        <4>4. CASE \E v \in Users : e = Done(callback[v])
          <5>1. PICK v \in Users : e = Done(callback[v])
            BY <4>4
          <5>2. callback[v] \in Nat /\ (callback[v] # 0 => RegistryID < callback[v])
            <6>1. callback \in [Users -> Nat]
              BY DEF ContextInv, ContextTypes
            <6>2. callback[v] # 0 => RegistryID < callback[v]
              BY DEF ContextInv, IdInv
            <6> QED BY <6>1, <6>2
          <5>3. callback[v] # RegistryID
            BY <5>2 DEF RegistryID
          <5> QED BY <4>2, <5>1, <5>2, <5>3
        <4> QED BY <4>1, <4>3, <4>4 DEF Misread
      <3> QED BY <3>1, <3>2, Handled, ReaderMoves
    <2> QED BY <2>1, <2>2 DEF ReadAstray
  <1>6. ContextTypes'
    <2>1. at' \in [Users -> Places]
      BY <1>5 DEF ContextInv, ContextTypes, Places
    <2> QED BY <1>1, <1>4, <1>5, <2>1 DEF ContextInv, ContextTypes
  <1>7. ReaderInv'
    BY <1>1, <1>5, UsersAreDistinct DEF ContextInv, ContextTypes, ReaderInv
  <1>8. IdInv'
    <2>1. \A v \in Users : at'[v] = "write" => at[v] = "write"
      BY <1>5 DEF ContextInv, ContextTypes
    <2> QED BY <1>1, <1>4, <2>1 DEF ContextInv, IdInv
  <1>9. OkInv'
    BY <1>5, UsersAreDistinct DEF ContextInv, OkInv, Users
  <1> QED BY <1>1, <1>6, <1>7, <1>8, <1>9 DEF ContextInv

\* A message joins those under way: what is known of the others stays, whether
\* or not the compositor's globals have changed with it.
LEMMA Sent ==
    ASSUME ContextInv, NEW e \in Messages, events' = Append(events, e),
           UNCHANGED <<nextID, callback, done, globals, applied, asked>>,
           e.id # RegistryID => views' = views,
           e.id # RegistryID => \A u \in Users : callback[u] = e.id => asked[u] < Len(views),
           e.id = RegistryID =>
               /\ views' = Append(views, Noted(views[Len(views)], e))
               /\ Noted(views[Len(views)], e) \in SUBSET Names,
           ViewInv
    PROVE ViewInv'
  <1> DEFINE n == Len(events)
  <1>1. /\ events' \in Seq(Messages) /\ Len(events') = n + 1 /\ n \in Nat
        /\ \A i \in 1..n : events'[i] = events[i]
        /\ events'[n + 1] = e
    BY EventAppended DEF ContextInv, ContextTypes
  <1>2. views \in Seq(SUBSET Names) /\ Len(views) \in Nat /\ Len(views) >= 1
    BY DEF ContextInv, ContextTypes
  <1>3. PICK m \in [0..Len(events) -> Nat] : Stamps(m)
    BY DEF ViewInv
  <1>4. PICK last : last = IF e.id = RegistryID THEN m[n] + 1 ELSE m[n]
    OBVIOUS
  <1>5. m[n] = Len(views) - 1 /\ m[n] \in Nat /\ last \in Nat
    <2>1. n \in 0..n
      BY <1>1
    <2> QED BY <1>3, <1>4, <2>1 DEF Stamps
  <1>6. /\ views' \in Seq(SUBSET Names) /\ Len(views') = last + 1 /\ Len(views') >= Len(views)
        /\ \A i \in 1..Len(views) : views'[i] = views[i]
        /\ e.id = RegistryID => views'[Len(views) + 1] = Noted(views[Len(views)], e)
    <2>1. CASE e.id = RegistryID
      <3>1. PICK w \in SUBSET Names : w = Noted(views[Len(views)], e)
        BY <2>1
      <3>2. views' = Append(views, w)
        BY <2>1, <3>1
      <3>3. /\ views' \in Seq(SUBSET Names) /\ Len(views') = Len(views) + 1
            /\ \A i \in 1..Len(views) : views'[i] = views[i]
            /\ views'[Len(views) + 1] = w
        BY <1>2, <3>2
      <3>4. last = m[n] + 1 /\ Len(views) = m[n] + 1
        BY <1>2, <1>4, <1>5, <2>1
      <3> QED BY <1>2, <1>5, <3>1, <3>3, <3>4
    <2>2. CASE e.id # RegistryID
      BY <1>2, <1>4, <1>5, <2>2
    <2> QED BY <2>1, <2>2
  <1>7. PICK p : p = n
    OBVIOUS
  <1>8. PICK k : k = [i \in 0..(p + 1) |-> IF i = p + 1 THEN last ELSE m[i]]
    OBVIOUS
  <1>9. k \in [0..Len(events') -> Nat]
    <2>1. \A i \in 0..(p + 1) : i # p + 1 => i \in 0..n
      BY <1>1, <1>7
    <2>2. \A i \in 0..(p + 1) : i # p + 1 => m[i] \in Nat
      BY <1>3, <2>1
    <2> QED BY <1>1, <1>5, <1>7, <1>8, <2>2
  <1>10. \A i \in 0..n : k[i] = m[i] /\ i # n + 1
    BY <1>1, <1>7, <1>8
  <1>11. k[n + 1] = last
    BY <1>1, <1>7, <1>8
  <1>12. k[0] = applied
    BY <1>1, <1>3, <1>10 DEF Stamps
  <1>13. \A i \in 0..Len(events') : k[i] < Len(views')
    <2> SUFFICES ASSUME NEW i \in 0..Len(events') PROVE k[i] < Len(views')
      OBVIOUS
    <2>1. CASE i = n + 1
      BY <1>5, <1>6, <1>11, <2>1
    <2>2. CASE i # n + 1
      <3>1. i \in 0..n
        BY <1>1, <2>2
      <3>2. m[i] < Len(views) /\ m[i] \in Nat /\ k[i] = m[i]
        BY <1>3, <1>10, <3>1 DEF Stamps
      <3> QED BY <1>2, <1>5, <1>6, <3>2
    <2> QED BY <2>1, <2>2
  <1>14. ASSUME NEW i \in 1..Len(events'), events'[i].id = RegistryID
         PROVE k[i] = k[i - 1] + 1
               /\ views'[k[i] + 1] = Noted(views'[k[i - 1] + 1], events'[i])
    <2>1. CASE i = n + 1
      <3>1. k[i] = m[n] + 1 /\ k[i - 1] = m[n] /\ events'[i] = e
        <4>1. i - 1 = n /\ n \in 0..n
          BY <1>1, <2>1
        <4>2. events'[i] = e
          BY <1>1, <2>1
        <4> QED BY <1>4, <1>10, <1>11, <1>14, <2>1, <4>1, <4>2
      <3>2. m[n] + 1 = Len(views) /\ m[n] + 1 \in 1..Len(views)
        BY <1>2, <1>5
      <3>3. views'[m[n] + 1] = views[m[n] + 1]
        BY <1>6, <3>2
      <3>4. e.id = RegistryID
        BY <1>14, <3>1
      <3>5. views'[Len(views) + 1] = Noted(views[Len(views)], e)
        BY <1>6, <3>4
      <3> QED BY <3>1, <3>2, <3>3, <3>5
    <2>2. CASE i # n + 1
      <3>1. i \in 1..n /\ i \in 0..n /\ i - 1 \in 0..n
        BY <1>1, <2>2
      <3>2. k[i] = m[i] /\ k[i - 1] = m[i - 1] /\ events'[i] = events[i]
        BY <1>1, <1>10, <3>1
      <3>3. m[i] = m[i - 1] + 1 /\ views[m[i] + 1] = Noted(views[m[i - 1] + 1], events[i])
        BY <1>3, <1>14, <3>1, <3>2 DEF Stamps
      <3>4. m[i] \in Nat /\ m[i - 1] \in Nat /\ m[i] < Len(views) /\ m[i - 1] < Len(views)
        BY <1>3, <3>1 DEF Stamps
      <3>5. m[i] + 1 \in 1..Len(views) /\ m[i - 1] + 1 \in 1..Len(views)
        BY <1>2, <3>4
      <3> QED BY <1>6, <3>2, <3>3, <3>5
    <2> QED BY <2>1, <2>2
  <1>15. ASSUME NEW i \in 1..Len(events'), events'[i].id # RegistryID
         PROVE k[i] = k[i - 1] /\ \A u \in Users : callback[u] = events'[i].id => asked[u] <= k[i]
    <2>1. CASE i = n + 1
      <3>1. i - 1 = n /\ n \in 0..n
        BY <1>1, <2>1
      <3>2. events'[i] = e /\ e.id # RegistryID
        BY <1>1, <1>15, <2>1
      <3>3. k[i] = m[n] /\ k[i - 1] = m[n]
        BY <1>4, <1>10, <1>11, <2>1, <3>1, <3>2
      <3>4. \A u \in Users : callback[u] = e.id => asked[u] < Len(views) /\ asked[u] \in Nat
        BY <3>2 DEF ContextInv, ContextTypes
      <3> QED BY <1>2, <1>5, <3>2, <3>3, <3>4
    <2>2. CASE i # n + 1
      <3>1. i \in 1..n /\ i \in 0..n /\ i - 1 \in 0..n
        BY <1>1, <2>2
      <3>2. k[i] = m[i] /\ k[i - 1] = m[i - 1] /\ events'[i] = events[i]
        BY <1>1, <1>10, <3>1
      <3>3. m[i] = m[i - 1] /\ \A u \in Users : callback[u] = events[i].id => asked[u] <= m[i]
        BY <1>3, <1>15, <3>1, <3>2 DEF Stamps
      <3> QED BY <3>2, <3>3
    <2> QED BY <2>1, <2>2
  <1>16. Stamps(k)'
    <2>1. k[Len(events')] = Len(views') - 1
      BY <1>1, <1>5, <1>6, <1>11
    <2> QED BY <1>12, <1>13, <1>14, <1>15, <2>1 DEF Stamps
  <1>17. applied < Len(views') /\ globals = views'[applied + 1]
    <2>1. applied \in Nat /\ applied < Len(views) /\ globals = views[applied + 1]
      BY DEF ContextInv, ContextTypes, ViewInv
    <2>2. applied + 1 \in 1..Len(views)
      BY <1>2, <2>1
    <2> QED BY <1>2, <1>5, <1>6, <2>1, <2>2
  <1>18. ViewInv'
    BY <1>9, <1>16, <1>17 DEF ViewInv
  <1> QED BY <1>18

\* A global comes or goes.
LEMMA ServerChangesInv == ASSUME ContextInv, ServerChanges PROVE ContextInv'
  <1>1. PICK c \in Changes : events' = Append(events, c) /\ views' = Append(views, Apply(Last(views), c))
    BY DEF ServerChanges
  <1>2. UNCHANGED <<at, cancelled, result, nextID, objects, callback, done, globals, applied, opGate,
                    tripGate, readGate, requests, stream, closed, alive, asked>>
    BY DEF ServerChanges, client, gates
  <1>3. c \in Messages /\ c.id = RegistryID /\ c.name \in Names
    BY DEF Changes, Messages
  <1>4. views' = Append(views, Noted(views[Len(views)], c)) /\ views[Len(views)] \in SUBSET Names
    BY <1>1 DEF Last, Apply, Noted, ContextInv, ContextTypes
  <1>5. Noted(views[Len(views)], c) \in SUBSET Names
    BY <1>3, <1>4 DEF Noted
  <1>6. /\ events' \in Seq(Messages) /\ views' \in Seq(SUBSET Names)
        /\ Len(views') >= Len(views) /\ Len(views') >= 1
    <2>1. events \in Seq(Messages) /\ views \in Seq(SUBSET Names) /\ Len(views) >= 1
      BY DEF ContextInv, ContextTypes
    <2>2. PICK w \in SUBSET Names : w = Noted(views[Len(views)], c)
      BY <1>5
    <2> QED BY <1>1, <1>3, <1>4, <2>1, <2>2
  <1>7. /\ Len(events') = Len(events) + 1 /\ Len(events) \in Nat
        /\ \A i \in 1..Len(events) : events'[i] = events[i]
        /\ events'[Len(events) + 1] = c
    BY <1>1, <1>3, EventAppended DEF ContextInv, ContextTypes
  <1>8. \A i \in 1..Len(events') :
           events'[i] = IF i = Len(events) + 1 THEN c ELSE events[i]
    BY <1>7
  <1>9. ContextTypes'
    BY <1>2, <1>6 DEF ContextInv, ContextTypes
  <1>10. ReaderInv' /\ OkInv'
    BY <1>2, <1>6, <1>7 DEF ContextInv, ReaderInv, OkInv
  <1>11. IdInv'
    <2>1. RegistryID <= c.id /\ c.id <= nextID
      BY <1>3 DEF ContextInv, ContextTypes, RegistryID
    <2>2. \A i \in 1..Len(events') : i # Len(events) + 1 => i \in 1..Len(events)
      BY <1>7
    <2> QED BY <1>2, <1>8, <2>1, <2>2 DEF ContextInv, IdInv
  <1>12. ASSUME Intact PROVE FreshInv'
    <2>1. \A u \in Users : at[u] = "write" => callback[u] # c.id
      BY <1>3 DEF ContextInv, IdInv, ContextTypes, RegistryID
    <2>2. \A i \in 1..Len(events') : i # Len(events) + 1 => i \in 1..Len(events)
      BY <1>7
    <2> QED BY <1>2, <1>8, <1>12, <2>1, <2>2 DEF Intact, FreshInv
  <1>13. ASSUME Intact PROVE AskInv'
    <2>1. \A u \in Users, i \in 1..Len(requests) : requests[i] = callback[u] => asked[u] < Len(views')
      <3>1. \A u \in Users : asked[u] \in Nat
        BY DEF ContextInv, ContextTypes
      <3>2. Len(views) \in Nat /\ Len(views') \in Nat
        BY <1>6 DEF ContextInv, ContextTypes
      <3> QED BY <1>6, <1>13, <3>1, <3>2 DEF Intact, AskInv
    <2> QED BY <1>2, <1>13, <2>1 DEF Intact, AskInv
  <1>14. ASSUME Intact PROVE ViewInv'
    BY <1>1, <1>2, <1>3, <1>4, <1>5, <1>14, Sent DEF Intact
  <1> QED BY <1>2, <1>9, <1>10, <1>11, <1>12, <1>13, <1>14 DEF ContextInv, Intact

\* A request is answered: the answer is behind all changes made so far.
LEMMA ServerAnswersInv == ASSUME ContextInv, ServerAnswers PROVE ContextInv'
  <1>1. /\ requests # <<>> /\ requests' = Tail(requests)
        /\ events' = Append(events, Done(Head(requests)))
        /\ UNCHANGED <<at, cancelled, result, nextID, objects, callback, done, globals, applied,
                       opGate, tripGate, readGate, stream, closed, alive, views, asked>>
    BY DEF ServerAnswers, client, gates
  <1>2. PICK id : id = Head(requests)
    OBVIOUS
  <1>3. requests \in Seq(Nat)
    BY DEF ContextInv, ContextTypes
  <1>4. /\ requests' \in Seq(Nat) /\ Len(requests) \in Nat \ {0}
        /\ Len(requests') = Len(requests) - 1
        /\ \A i \in 1..Len(requests') : requests'[i] = requests[i + 1]
        /\ id = requests[1] /\ id \in Nat
    BY <1>1, <1>2, <1>3
  <1>5. PICK e : e = Done(id)
    OBVIOUS
  <1>6. e \in Messages /\ e.id = id /\ events' = Append(events, e)
    BY <1>1, <1>2, <1>4, <1>5 DEF Done, Messages
  <1>7. 1 \in 1..Len(requests) /\ \A i \in 1..Len(requests') : i + 1 \in 1..Len(requests)
    BY <1>4
  <1>8. RegistryID < id /\ id <= nextID /\ RegistryID \in Nat /\ nextID \in Nat
    BY <1>4, <1>7 DEF ContextInv, ContextTypes, IdInv, RegistryID
  <1>9. e.id # RegistryID
    BY <1>6, <1>8
  <1>10. events' \in Seq(Messages)
    BY <1>6 DEF ContextInv, ContextTypes
  <1>11. /\ Len(events') = Len(events) + 1 /\ Len(events) \in Nat
         /\ \A i \in 1..Len(events) : events'[i] = events[i]
         /\ events'[Len(events) + 1] = e
    BY <1>6, EventAppended DEF ContextInv, ContextTypes
  <1>12. /\ \A i \in 1..Len(events') : events'[i] = IF i = Len(events) + 1 THEN e ELSE events[i]
         /\ \A i \in 1..Len(events') : i # Len(events) + 1 => i \in 1..Len(events)
    BY <1>11
  <1>13. ContextTypes'
    BY <1>1, <1>4, <1>10 DEF ContextInv, ContextTypes
  <1>14. ReaderInv' /\ OkInv'
    BY <1>1, <1>10, <1>11 DEF ContextInv, ReaderInv, OkInv
  <1>15. IdInv'
    <2>1. RegistryID <= e.id /\ e.id <= nextID /\ e.id # RegistryID
      BY <1>4, <1>6, <1>8
    <2> QED BY <1>1, <1>4, <1>7, <1>12, <2>1 DEF ContextInv, IdInv
  <1>16. ASSUME Intact PROVE FreshInv'
    <2>1. \A u \in Users : at[u] = "write" => callback[u] # e.id
      BY <1>4, <1>6, <1>7, <1>16 DEF Intact, FreshInv
    <2> QED BY <1>1, <1>4, <1>7, <1>12, <1>16, <2>1 DEF Intact, FreshInv
  <1>17. ASSUME Intact PROVE AskInv'
    BY <1>1, <1>4, <1>7, <1>17 DEF Intact, AskInv
  <1>18. ASSUME Intact PROVE ViewInv'
    <2>1. \A u \in Users : callback[u] = e.id => asked[u] < Len(views)
      BY <1>4, <1>6, <1>7, <1>18 DEF Intact, AskInv
    <2> QED BY <1>1, <1>6, <1>9, <1>18, <2>1, Sent DEF Intact
  <1> QED BY <1>1, <1>13, <1>14, <1>15, <1>16, <1>17, <1>18 DEF ContextInv, Intact

-----------------------------------------------------------------------------
\* Every step keeps the invariant.
LEMMA ContextNextInv == ASSUME ContextInv, [ContextNext]_contextVars PROVE ContextInv'
  <1>1. CASE UNCHANGED contextVars
    <2>1. UNCHANGED data /\ UNCHANGED <<at, cancelled, result, objects, gates, stream, closed, alive>>
      BY <1>1 DEF contextVars, data, client, wire, server
    <2>2. Settled
      BY <2>1 DEF data, gates, Settled, Advances, ContextInv, ContextTypes, ReaderInv, OkInv
    <2> QED BY <2>2, Settles
  <1>2. CASE \E u \in Users : Call(u) \/ Cancel(u) \/ UserStep(u)
    BY <1>2, Settles, CallSettles, OutsideSettles, QuietSteps, EnterRoundTripInv, WriteInv,
       ReadBodyInv, ReadAstrayInv DEF UserStep, EnterGate
  <1>3. CASE Close \/ ServerDies
    BY <1>3, Settles, OutsideSettles
  <1>4. CASE ServerChanges \/ ServerAnswers
    BY <1>4, ServerChangesInv, ServerAnswersInv
  <1> QED BY <1>1, <1>2, <1>3, <1>4 DEF ContextNext

\* The variables of a connection have their types.
THEOREM ConnectionTypes == ContextSpec => []ContextTypes
  <1>1. ContextInv => ContextTypes
    BY DEF ContextInv
  <1> QED BY <1>1, ContextInitInv, ContextNextInv, PTL DEF ContextSpec

\* As long as no deadline has cut a message, a round trip that succeeds has seen
\* every change the compositor had made when it asked, and the client's view is one
\* the compositor has had, for any users, whoever of them gives up, and whatever
\* answers nobody waits for are under way (RoundTripContext, Register, dispatch).
THEOREM Barriers == ContextSpec => []RoundTripIsBarrier
  <1>1. ContextInv => RoundTripIsBarrier
    <2> SUFFICES ASSUME ContextInv, Intact
                 PROVE /\ applied + 1 \in DOMAIN views /\ globals = views[applied + 1]
                       /\ \A u \in Trips : result[u] = "ok" => applied >= asked[u]
      BY DEF ContextInv, RoundTripIsBarrier
    <2>1. applied \in Nat /\ applied < Len(views) /\ Len(views) \in Nat /\ globals = views[applied + 1]
          /\ DOMAIN views = 1..Len(views)
      BY DEF ContextInv, ContextTypes, Intact, ViewInv
    <2>2. \A u \in Trips : result[u] = "ok" => applied >= asked[u]
      BY <2>1 DEF ContextInv, ContextTypes, Intact, AskInv, OkInv, Users
    <2> QED BY <2>1, <2>2
  <1> QED BY <1>1, ContextInitInv, ContextNextInv, PTL DEF ContextSpec
-----------------------------------------------------------------------------
(* Nobody is harmed by another user's cancellation, unless it cuts a       *)
(* message that is being read.                                             *)

\* No read ends in the middle of a message but of a user who may be cut there.
UncutInv == UnharmedUntilCut /\ (Cutters = {} => stream = "whole")

\* The reasons to fail stay, and so does a cut.
LEMMA ReasonsStay ==
    ASSUME [ContextNext]_contextVars
    PROVE /\ cancelled \subseteq cancelled' /\ (closed => closed') /\ (~alive => ~alive')
          /\ stream' = "whole" => stream = "whole"
  <1>1. ASSUME UNCHANGED <<cancelled, closed, alive, stream>>
        PROVE /\ cancelled \subseteq cancelled' /\ (closed => closed') /\ (~alive => ~alive')
              /\ stream' = "whole" => stream = "whole"
    BY <1>1
  <1>2. CASE \E u \in Users : ReadFails(u) \/ ReadAstray(u)
    BY <1>2 DEF ReadFails, ReadAstray, server
  <1>3. CASE (\E u \in Users : Cancel(u)) \/ Close \/ ServerDies
    BY <1>3 DEF Cancel, Close, ServerDies, wire, server
  <1>4. CASE \/ UNCHANGED contextVars \/ ServerChanges \/ ServerAnswers
             \/ \E u \in Users : \/ Call(u) \/ EnterGate(u) \/ AbandonGate(u) \/ Write(u)
                                 \/ WriteFails(u) \/ ReadHeader(u) \/ ReadBody(u)
    BY <1>1, <1>4 DEF contextVars, EnterGate, Call, EnterOperation, EnterRoundTrip, EnterDispatch,
           AbandonGate, Write, WriteFails, ReadHeader, ReadBody, ServerChanges, ServerAnswers,
           wire, server
  <1> QED BY <1>2, <1>3, <1>4 DEF ContextNext, UserStep

\* What a step of a user does to the results while no message is cut.
LEMMA UserUnharmed ==
    ASSUME ContextInv, NEW u \in Users, Call(u) \/ UserStep(u), stream' = "whole",
           OthersAreUnharmed
    PROVE OthersAreUnharmed'
  <1> USE DEF ContextInv, ContextTypes
  <1>1. UNCHANGED <<cancelled, closed, alive>>
    BY DEF Call, UserStep, EnterGate, EnterOperation, EnterRoundTrip, EnterDispatch, AbandonGate,
           Write, WriteFails, ReadHeader, ReadFails, ReadBody, ReadAstray, server
  <1>2. (\A v \in Users : v # u => result'[v] = result[v])
        /\ (result'[u] = "err" => result[u] = "err" \/ u \in cancelled \/ closed \/ ~alive)
    <2>1. CASE Call(u) \/ EnterGate(u) \/ AbandonGate(u) \/ Write(u) \/ WriteFails(u) \/ ReadHeader(u)
      BY <2>1 DEF Call, EnterGate, EnterOperation, EnterRoundTrip, EnterDispatch, AbandonGate,
                  Write, WriteFails, ReadHeader, Return, client
    <2>2. CASE ReadFails(u)
      BY <2>2 DEF ReadFails, Return
    <2>3. CASE ReadBody(u)
      <3>1. Conclude(u)
        BY <2>3 DEF ReadBody
      <3> QED BY <3>1, ReaderMoves
    <2>4. CASE ReadAstray(u)
      BY <2>4 DEF ReadAstray
    <2> QED BY <2>1, <2>2, <2>3, <2>4 DEF UserStep
  <1> QED BY <1>1, <1>2 DEF OthersAreUnharmed

\* Every step keeps that nobody is harmed.
LEMMA UncutNextInv ==
    ASSUME ContextInv, UncutInv, [ContextNext]_contextVars PROVE UncutInv'
  <1>1. /\ cancelled \subseteq cancelled' /\ (closed => closed') /\ (~alive => ~alive')
        /\ stream' = "whole" => stream = "whole"
    BY ReasonsStay
  <1>2. CASE \E u \in Users : Call(u) \/ UserStep(u)
    <2>1. PICK u \in Users : Call(u) \/ UserStep(u)
      BY <1>2
    <2>2. UnharmedUntilCut'
      <3> SUFFICES ASSUME stream' = "whole" PROVE OthersAreUnharmed'
        BY DEF UnharmedUntilCut
      <3> QED BY <1>1, <2>1, UserUnharmed DEF UncutInv, UnharmedUntilCut
    <2>3. ASSUME Cutters = {} PROVE stream' = "whole"
      <3>1. stream = "whole"
        BY <2>3 DEF UncutInv
      <3>2. stream' = stream
        BY <2>1, <2>3, <3>1 DEF Call, UserStep, EnterGate, EnterOperation, EnterRoundTrip,
           EnterDispatch, AbandonGate, Write, WriteFails, ReadHeader, ReadFails, ReadBody,
           ReadAstray, wire
      <3> QED BY <3>1, <3>2
    <2> QED BY <2>2, <2>3 DEF UncutInv
  <1>3. CASE \/ UNCHANGED contextVars \/ Close \/ ServerChanges \/ ServerAnswers \/ ServerDies
             \/ \E u \in Users : Cancel(u)
    <2>1. UNCHANGED <<result, stream>>
      BY <1>3 DEF contextVars, Cancel, Close, ServerChanges, ServerAnswers, ServerDies, wire
    <2> QED BY <1>1, <2>1 DEF UncutInv, UnharmedUntilCut, OthersAreUnharmed
  <1> QED BY <1>2, <1>3 DEF ContextNext

\* As long as no deadline has cut a message that was being read, a call fails only
\* for its own context, a Close or a compositor that has left, for any users
\* (DispatchContext, dispatchWithCancellation).
THEOREM Unharmed == ContextSpec => []UnharmedUntilCut
  <1>1. ContextInit => UncutInv
    BY DEF ContextInit, UncutInv, UnharmedUntilCut, OthersAreUnharmed
  <1>2. UncutInv => UnharmedUntilCut
    BY DEF UncutInv
  <1> QED BY <1>1, <1>2, ContextInitInv, ContextNextInv, UncutNextInv, PTL DEF ContextSpec

\* If no context can end in the middle of a message, nobody is ever harmed.
THEOREM UnharmedWithoutCuts == ContextSpec => [](Cutters = {} => OthersAreUnharmed)
  <1>1. ContextInit => UncutInv
    BY DEF ContextInit, UncutInv, UnharmedUntilCut, OthersAreUnharmed
  <1>2. UncutInv => (Cutters = {} => OthersAreUnharmed)
    BY DEF UncutInv, UnharmedUntilCut
  <1> QED BY <1>1, <1>2, ContextInitInv, ContextNextInv, UncutNextInv, PTL DEF ContextSpec
=============================================================================
