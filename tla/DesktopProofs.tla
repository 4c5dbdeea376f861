---------------------------- MODULE DesktopProofs ----------------------------
(***************************************************************************)
(* The captures of ScreenCapture, the calls of Locator, the visual waits   *)
(* of ScreenWait and the searches of ScreenSearch, for any number of       *)
(* callers, connections, changes of the desktop, tasks and waits, and for  *)
(* images of any size and content.                                         *)
(***************************************************************************)
EXTENDS ScreenCapture, Locator, ScreenWait, ScreenSearch, SequenceTheorems, FiniteSetTheorems,
        NaturalsInduction, WellFoundedInduction, TLAPS

-----------------------------------------------------------------------------
(* ScreenCapture.                                                          *)

CaptureEvents == {<<>>, <<"buffer">>, <<"ready">>, <<"buffer", "ready">>}
CapturePlaces == {"idle", "waits", "locked", "connects", "sets up", "half set up",
                  "begins", "describes", "maps", "copies", "processes", "returned"}
CaptureFrames == [geometry : Geometries \cup {Nil}, events : CaptureEvents,
                  copying : BOOLEAN, ready : BOOLEAN, failed : BOOLEAN]
CaptureRecords == [at : CapturePlaces, canceled : BOOLEAN, frame : CaptureFrames,
                   result : {Nil, "ok", "error", "closed"}, pixels : Callers \cup {Nil}]

\* The type invariant of ScreenCapture.
CaptureTypeOK ==
    /\ cap \in [Callers -> CaptureRecords]
    /\ holder \in Callers \cup {Nil} /\ active \in Callers \cup {Nil}
    /\ conn \in Nat \cup {Nil} /\ proxies \in Nat \cup {Nil}
    /\ conns \in [made : Nat, open : SUBSET Nat]
    /\ memory \in [geometry : Geometries, pixels : Callers \cup {Nil}] \cup {Nil}
    /\ idle \in BOOLEAN /\ shut \in BOOLEAN
    /\ closer \in {"idle", "cancels", "waits", "returned"}

\* Who has ctxMu is at one of the places between Lock and Leave.
HolderInv ==
    \A c \in Callers : (holder = c) = (cap[c].at \notin {"idle", "waits", "returned"})

\* The open connection is the cached one, and the cached proxies are its own
\* or, until the next connection is made, those of a closed one.
ConnInv ==
    /\ conns.open = IF conn = Nil THEN {} ELSE {conn}
    /\ conn # Nil => proxies \in {Nil, conn}
    /\ \A c \in Callers :
          /\ cap[c].at \notin {"idle", "waits", "returned", "locked", "connects"} => conn # Nil
          /\ cap[c].at \in {"begins", "describes", "maps", "copies", "processes"} => proxies = conn

\* The frame that is being copied is in the memory as far as it says so.
FrameIs(k, m, c) ==
    /\ k.at = "describes" => ~k.frame.copying /\ ~k.frame.ready /\ k.frame.geometry # Nil
    /\ k.at = "maps" => k.frame.events = <<>> /\ ~k.frame.ready /\ k.frame.geometry # Nil
    /\ k.at = "copies" =>
          /\ k.frame.copying /\ k.frame.events \in {<<>>, <<"ready">>}
          /\ m # Nil /\ m.geometry = k.frame.geometry
          /\ k.frame.ready \/ k.frame.events # <<>> => m.pixels = c
    /\ k.at = "processes" => m # Nil /\ m.geometry = k.frame.geometry /\ m.pixels = c
    /\ k.result = "ok" => k.pixels = c
FrameInv == \A c \in Callers : FrameIs(cap[c], memory, c)

\* After Close nobody takes the mutex.
ShutInv ==
    /\ closer # "idle" => shut
    /\ closer = "returned" => holder = Nil /\ conn = Nil /\ memory = Nil

CaptureInv == CaptureTypeOK /\ HolderInv /\ ConnInv /\ FrameInv /\ ShutInv

\* After Connect the cached connection is the open one.
NewConn ==
    /\ conn' \in Nat /\ conn' # Nil /\ proxies' \in {Nil, conn'}
    /\ conns' \in [made : Nat, open : SUBSET Nat] /\ conns'.open = {conn'}

\* A caller's record is written (every step of a capture).
LEMMA CaptureWrite ==
    ASSUME cap \in [Callers -> CaptureRecords], NEW c \in Callers, NEW k \in CaptureRecords,
           cap' = [cap EXCEPT ![c] = k]
    PROVE  /\ cap' \in [Callers -> CaptureRecords] /\ cap'[c] = k
           /\ \A d \in Callers : d # c => cap'[d] = cap[d]
  OBVIOUS

\* A capture begins; closed is looked at (Enter).
LEMMA CaptureEnterStep ==
    ASSUME CaptureInv, NEW c \in Callers, Enter(c)
    PROVE  CaptureInv'
<1> DEFINE k == IF shut THEN [cap[c] EXCEPT !.at = "returned", !.result = "closed"] ELSE [cap[c] EXCEPT !.at = "waits"]
<1>1. cap \in [Callers -> CaptureRecords] /\ cap[c] \in CaptureRecords
  BY DEF CaptureInv, CaptureTypeOK
<1>2. k \in CaptureRecords
  BY <1>1, NilIsNoCapture DEF CaptureRecords, CaptureFrames, CapturePlaces, CaptureEvents, NewFrame
<1>3. cap' = [cap EXCEPT ![c] = k]
  BY <1>1 DEF Enter, At, Go, Leave, CaptureRecords
<1>4. cap[c].at = "idle"
  BY DEF Enter, At
<1>5. /\ k.at \in {"returned", "waits"}
      /\ k.frame = cap[c].frame /\ k.result \in {cap[c].result, "closed"} /\ k.pixels = cap[c].pixels
  BY <1>1 DEF CaptureRecords, CaptureFrames, NewFrame
<1>6. /\ (UNCHANGED <<holder, active, conn, conns, proxies, idle, memory, shut, closer>>)
  BY DEF Enter, Leave, Go, CaptureInv, CaptureTypeOK
<1> HIDE DEF k
<1>7. /\ cap' \in [Callers -> CaptureRecords] /\ cap'[c] = k
      /\ \A d \in Callers : d # c => cap'[d] = cap[d]
  BY <1>1, <1>2, <1>3, CaptureWrite
<1>8. CaptureTypeOK'
  BY <1>6, <1>7 DEF  CaptureInv, CaptureTypeOK
<1>9. HolderInv'
  BY <1>4, <1>5, <1>6, <1>7, NilIsNoCapture DEF CaptureInv, HolderInv
<1>10. ConnInv'
  BY <1>4, <1>5, <1>6, <1>7, NilIsNoCapture DEF CaptureInv, CaptureTypeOK, HolderInv, ConnInv
<1>11. FrameInv'
  <2>1. FrameIs(cap'[c], memory', c)
    BY <1>1, <1>4, <1>5, <1>6, <1>7, NilIsNoCapture, NilIsNoMemory DEF CaptureInv, CaptureTypeOK, FrameInv, FrameIs
  <2>2. memory' = memory
    BY <1>6
  <2>3. ASSUME NEW d \in Callers, d # c PROVE FrameIs(cap'[d], memory', d)
    BY <2>2, <2>3, <1>7 DEF CaptureInv, FrameInv, FrameIs
  <2> QED BY <2>1, <2>3 DEF FrameInv
<1>12. ShutInv'
  BY <1>1, <1>4, <1>5, <1>6, <1>7, NilIsNoCapture DEF CaptureInv, HolderInv, ShutInv, CaptureTypeOK
<1> QED BY <1>8, <1>9, <1>10, <1>11, <1>12 DEF CaptureInv

\* The mutex is taken, unless the backend is closed by now (Lock).
LEMMA CaptureLockStep ==
    ASSUME CaptureInv, NEW c \in Callers, Lock(c)
    PROVE  CaptureInv'
<1> DEFINE k == IF shut THEN [cap[c] EXCEPT !.at = "returned", !.result = "closed"] ELSE [cap[c] EXCEPT !.at = "locked"]
<1>1. cap \in [Callers -> CaptureRecords] /\ cap[c] \in CaptureRecords
  BY DEF CaptureInv, CaptureTypeOK
<1>2. k \in CaptureRecords
  BY <1>1, NilIsNoCapture DEF CaptureRecords, CaptureFrames, CapturePlaces, CaptureEvents, NewFrame
<1>3. cap' = [cap EXCEPT ![c] = k]
  BY <1>1 DEF Lock, At, Go, Leave, CaptureRecords
<1>4. cap[c].at = "waits" /\ holder = Nil
  BY DEF Lock, At
<1>5. /\ k.at = (IF shut THEN "returned" ELSE "locked")
      /\ k.frame = cap[c].frame /\ k.result \in {cap[c].result, "closed"} /\ k.pixels = cap[c].pixels
  BY <1>1 DEF CaptureRecords, CaptureFrames, NewFrame
<1>6. /\ (holder' = (IF shut THEN holder ELSE c))
      /\ (UNCHANGED <<active, conn, conns, proxies, idle, memory, shut, closer>>)
  BY DEF Lock, Leave, Go, CaptureInv, CaptureTypeOK
<1> HIDE DEF k
<1>7. /\ cap' \in [Callers -> CaptureRecords] /\ cap'[c] = k
      /\ \A d \in Callers : d # c => cap'[d] = cap[d]
  BY <1>1, <1>2, <1>3, CaptureWrite
<1>8. CaptureTypeOK'
  BY <1>6, <1>7 DEF  CaptureInv, CaptureTypeOK
<1>9. HolderInv'
  BY <1>4, <1>5, <1>6, <1>7, NilIsNoCapture DEF CaptureInv, HolderInv
<1>10. ConnInv'
  BY <1>4, <1>5, <1>6, <1>7, NilIsNoCapture DEF CaptureInv, CaptureTypeOK, HolderInv, ConnInv
<1>11. FrameInv'
  <2>1. FrameIs(cap'[c], memory', c)
    BY <1>1, <1>4, <1>5, <1>6, <1>7, NilIsNoCapture, NilIsNoMemory DEF CaptureInv, CaptureTypeOK, FrameInv, FrameIs
  <2>2. memory' = memory
    BY <1>6
  <2>3. ASSUME NEW d \in Callers, d # c PROVE FrameIs(cap'[d], memory', d)
    BY <2>2, <2>3, <1>7 DEF CaptureInv, FrameInv, FrameIs
  <2> QED BY <2>1, <2>3 DEF FrameInv
<1>12. ShutInv'
  BY <1>1, <1>4, <1>5, <1>6, <1>7, NilIsNoCapture DEF CaptureInv, HolderInv, ShutInv, CaptureTypeOK
<1> QED BY <1>8, <1>9, <1>10, <1>11, <1>12 DEF CaptureInv

\* The capture says that it is active (Arm).
LEMMA CaptureArmStep ==
    ASSUME CaptureInv, NEW c \in Callers, Arm(c)
    PROVE  CaptureInv'
<1> DEFINE k == [cap[c] EXCEPT !.at = "connects"]
<1>1. cap \in [Callers -> CaptureRecords] /\ cap[c] \in CaptureRecords
  BY DEF CaptureInv, CaptureTypeOK
<1>2. k \in CaptureRecords
  BY <1>1, NilIsNoCapture DEF CaptureRecords, CaptureFrames, CapturePlaces, CaptureEvents, NewFrame
<1>3. cap' = [cap EXCEPT ![c] = k]
  BY <1>1 DEF Arm, At, Go, Leave, CaptureRecords
<1>4. cap[c].at = "locked"
  BY DEF Arm, At
<1>5. /\ k.at = "connects"
      /\ k.frame = cap[c].frame /\ k.result = cap[c].result /\ k.pixels = cap[c].pixels
  BY <1>1 DEF CaptureRecords, CaptureFrames, NewFrame
<1>6. /\ (active' = c)
      /\ (UNCHANGED <<holder, conn, conns, proxies, idle, memory, shut, closer>>)
  BY DEF Arm, Leave, Go, CaptureInv, CaptureTypeOK
<1> HIDE DEF k
<1>7. /\ cap' \in [Callers -> CaptureRecords] /\ cap'[c] = k
      /\ \A d \in Callers : d # c => cap'[d] = cap[d]
  BY <1>1, <1>2, <1>3, CaptureWrite
<1>8. CaptureTypeOK'
  BY <1>6, <1>7 DEF  CaptureInv, CaptureTypeOK
<1>9. HolderInv'
  BY <1>4, <1>5, <1>6, <1>7, NilIsNoCapture DEF CaptureInv, HolderInv
<1>10. ConnInv'
  BY <1>4, <1>5, <1>6, <1>7, NilIsNoCapture DEF CaptureInv, CaptureTypeOK, HolderInv, ConnInv
<1>11. FrameInv'
  <2>1. FrameIs(cap'[c], memory', c)
    BY <1>1, <1>4, <1>5, <1>6, <1>7, NilIsNoCapture, NilIsNoMemory DEF CaptureInv, CaptureTypeOK, FrameInv, FrameIs
  <2>2. memory' = memory
    BY <1>6
  <2>3. ASSUME NEW d \in Callers, d # c PROVE FrameIs(cap'[d], memory', d)
    BY <2>2, <2>3, <1>7 DEF CaptureInv, FrameInv, FrameIs
  <2> QED BY <2>1, <2>3 DEF FrameInv
<1>12. ShutInv'
  BY <1>1, <1>4, <1>5, <1>6, <1>7, NilIsNoCapture DEF CaptureInv, HolderInv, ShutInv, CaptureTypeOK
<1> QED BY <1>8, <1>9, <1>10, <1>11, <1>12 DEF CaptureInv

\* The cached connection, or a new one that has no proxies (Connect).
LEMMA CaptureConnectStep ==
    ASSUME CaptureInv, NEW c \in Callers, Connect(c)
    PROVE  CaptureInv'
<1> DEFINE k == [cap[c] EXCEPT !.at = "sets up"]
<1>1. cap \in [Callers -> CaptureRecords] /\ cap[c] \in CaptureRecords
  BY DEF CaptureInv, CaptureTypeOK
<1>2. k \in CaptureRecords
  BY <1>1, NilIsNoCapture DEF CaptureRecords, CaptureFrames, CapturePlaces, CaptureEvents, NewFrame
<1>3. cap' = [cap EXCEPT ![c] = k]
  BY <1>1 DEF Connect, At, Go, Leave, CaptureRecords
<1>4. cap[c].at = "connects"
  BY DEF Connect, At
<1>5. /\ k.at = "sets up"
      /\ k.frame = cap[c].frame /\ k.result = cap[c].result /\ k.pixels = cap[c].pixels
  BY <1>1 DEF CaptureRecords, CaptureFrames, NewFrame
<1>6. /\ idle' = FALSE
      /\ UNCHANGED <<holder, active, memory, shut, closer>>
  BY DEF Connect
<1>a. conns \in [made : Nat, open : SUBSET Nat]
  BY DEF CaptureInv, CaptureTypeOK
<1>b. ASSUME conn = Nil PROVE NewConn
  <2>1. conn' = conns.made + 1 /\ proxies' = Nil
        /\ conns' = [made |-> conns.made + 1, open |-> conns.open \cup {conns.made + 1}]
    BY <1>b DEF Connect
  <2>2. conns.made + 1 \in Nat
    BY <1>a
  <2>3. conns' \in [made : Nat, open : SUBSET Nat] /\ conns'.open = {conn'}
    BY <1>a, <1>b, <2>1, <2>2 DEF CaptureInv, ConnInv
  <2> QED BY <2>1, <2>2, <2>3, NilIsNoCapture DEF NewConn
<1>c. ASSUME conn # Nil PROVE NewConn
  <2>1. UNCHANGED <<conn, conns, proxies>>
    BY <1>c DEF Connect
  <2> QED BY <1>a, <1>c, <2>1 DEF NewConn, CaptureInv, CaptureTypeOK, ConnInv
<1>d. NewConn
  BY <1>b, <1>c
<1> HIDE DEF k
<1>7. /\ cap' \in [Callers -> CaptureRecords] /\ cap'[c] = k
      /\ \A d \in Callers : d # c => cap'[d] = cap[d]
  BY <1>1, <1>2, <1>3, CaptureWrite
<1>8. CaptureTypeOK'
  BY <1>d, <1>6, <1>7 DEF NewConn,  CaptureInv, CaptureTypeOK
<1>9. HolderInv'
  BY <1>4, <1>5, <1>6, <1>7, NilIsNoCapture DEF CaptureInv, HolderInv
<1>e. holder = c
  BY <1>4 DEF CaptureInv, HolderInv
<1>10. ConnInv'
  <2>1. \A d \in Callers : d # c => cap[d].at \in {"idle", "waits", "returned"}
    BY <1>e DEF CaptureInv, HolderInv
  <2> QED BY <2>1, <1>d, <1>5, <1>7 DEF ConnInv, NewConn
<1>11. FrameInv'
  <2>1. FrameIs(cap'[c], memory', c)
    BY <1>1, <1>4, <1>5, <1>6, <1>7, NilIsNoCapture, NilIsNoMemory DEF CaptureInv, CaptureTypeOK, FrameInv, FrameIs
  <2>2. memory' = memory
    BY <1>6
  <2>3. ASSUME NEW d \in Callers, d # c PROVE FrameIs(cap'[d], memory', d)
    BY <2>2, <2>3, <1>7 DEF CaptureInv, FrameInv, FrameIs
  <2> QED BY <2>1, <2>3 DEF FrameInv
<1>12. ShutInv'
  BY <1>e, <1>6, NilIsNoCapture DEF CaptureInv, ShutInv
<1> QED BY <1>8, <1>9, <1>10, <1>11, <1>12 DEF CaptureInv

\* The proxies of the connection are made, or are there (SetUp).
LEMMA CaptureSetUpStep ==
    ASSUME CaptureInv, NEW c \in Callers, SetUp(c)
    PROVE  CaptureInv'
<1> DEFINE k == [cap[c] EXCEPT !.at = "begins"]
<1>1. cap \in [Callers -> CaptureRecords] /\ cap[c] \in CaptureRecords
  BY DEF CaptureInv, CaptureTypeOK
<1>2. k \in CaptureRecords
  BY <1>1, NilIsNoCapture DEF CaptureRecords, CaptureFrames, CapturePlaces, CaptureEvents, NewFrame
<1>3. cap' = [cap EXCEPT ![c] = k]
  BY <1>1 DEF SetUp, At, Go, Leave, CaptureRecords
<1>4. cap[c].at = "sets up"
  BY DEF SetUp, At
<1>5. /\ k.at = "begins"
      /\ k.frame = cap[c].frame /\ k.result = cap[c].result /\ k.pixels = cap[c].pixels
  BY <1>1 DEF CaptureRecords, CaptureFrames, NewFrame
<1>6. /\ (proxies' = (IF proxies = Nil THEN conn ELSE proxies))
      /\ (UNCHANGED <<holder, active, conn, conns, idle, memory, shut, closer>>)
  BY DEF SetUp, Leave, Go, CaptureInv, CaptureTypeOK
<1> HIDE DEF k
<1>7. /\ cap' \in [Callers -> CaptureRecords] /\ cap'[c] = k
      /\ \A d \in Callers : d # c => cap'[d] = cap[d]
  BY <1>1, <1>2, <1>3, CaptureWrite
<1>8. CaptureTypeOK'
  BY <1>6, <1>7 DEF  CaptureInv, CaptureTypeOK
<1>9. HolderInv'
  BY <1>4, <1>5, <1>6, <1>7, NilIsNoCapture DEF CaptureInv, HolderInv
<1>10. ConnInv'
  BY <1>4, <1>5, <1>6, <1>7, NilIsNoCapture DEF CaptureInv, CaptureTypeOK, HolderInv, ConnInv
<1>11. FrameInv'
  <2>1. FrameIs(cap'[c], memory', c)
    BY <1>1, <1>4, <1>5, <1>6, <1>7, NilIsNoCapture, NilIsNoMemory DEF CaptureInv, CaptureTypeOK, FrameInv, FrameIs
  <2>2. memory' = memory
    BY <1>6
  <2>3. ASSUME NEW d \in Callers, d # c PROVE FrameIs(cap'[d], memory', d)
    BY <2>2, <2>3, <1>7 DEF CaptureInv, FrameInv, FrameIs
  <2> QED BY <2>1, <2>3 DEF FrameInv
<1>12. ShutInv'
  BY <1>1, <1>4, <1>5, <1>6, <1>7, NilIsNoCapture DEF CaptureInv, HolderInv, ShutInv, CaptureTypeOK
<1> QED BY <1>8, <1>9, <1>10, <1>11, <1>12 DEF CaptureInv

\* Some of them are made (HalfSetUp).
LEMMA CaptureHalfSetUpStep ==
    ASSUME CaptureInv, NEW c \in Callers, HalfSetUp(c)
    PROVE  CaptureInv'
<1> DEFINE k == [cap[c] EXCEPT !.at = "half set up"]
<1>1. cap \in [Callers -> CaptureRecords] /\ cap[c] \in CaptureRecords
  BY DEF CaptureInv, CaptureTypeOK
<1>2. k \in CaptureRecords
  BY <1>1, NilIsNoCapture DEF CaptureRecords, CaptureFrames, CapturePlaces, CaptureEvents, NewFrame
<1>3. cap' = [cap EXCEPT ![c] = k]
  BY <1>1 DEF HalfSetUp, At, Go, Leave, CaptureRecords
<1>4. cap[c].at = "sets up"
  BY DEF HalfSetUp, At
<1>5. /\ k.at = "half set up"
      /\ k.frame = cap[c].frame /\ k.result = cap[c].result /\ k.pixels = cap[c].pixels
  BY <1>1 DEF CaptureRecords, CaptureFrames, NewFrame
<1>6. /\ (proxies' = conn)
      /\ (UNCHANGED <<holder, active, conn, conns, idle, memory, shut, closer>>)
  BY DEF HalfSetUp, Leave, Go, CaptureInv, CaptureTypeOK
<1> HIDE DEF k
<1>7. /\ cap' \in [Callers -> CaptureRecords] /\ cap'[c] = k
      /\ \A d \in Callers : d # c => cap'[d] = cap[d]
  BY <1>1, <1>2, <1>3, CaptureWrite
<1>8. CaptureTypeOK'
  BY <1>6, <1>7 DEF  CaptureInv, CaptureTypeOK
<1>9. HolderInv'
  BY <1>4, <1>5, <1>6, <1>7, NilIsNoCapture DEF CaptureInv, HolderInv
<1>10. ConnInv'
  BY <1>4, <1>5, <1>6, <1>7, NilIsNoCapture DEF CaptureInv, CaptureTypeOK, HolderInv, ConnInv
<1>11. FrameInv'
  <2>1. FrameIs(cap'[c], memory', c)
    BY <1>1, <1>4, <1>5, <1>6, <1>7, NilIsNoCapture, NilIsNoMemory DEF CaptureInv, CaptureTypeOK, FrameInv, FrameIs
  <2>2. memory' = memory
    BY <1>6
  <2>3. ASSUME NEW d \in Callers, d # c PROVE FrameIs(cap'[d], memory', d)
    BY <2>2, <2>3, <1>7 DEF CaptureInv, FrameInv, FrameIs
  <2> QED BY <2>1, <2>3 DEF FrameInv
<1>12. ShutInv'
  BY <1>1, <1>4, <1>5, <1>6, <1>7, NilIsNoCapture DEF CaptureInv, HolderInv, ShutInv, CaptureTypeOK
<1> QED BY <1>8, <1>9, <1>10, <1>11, <1>12 DEF CaptureInv

\* A failure gives up the connection (Fails).
LEMMA CaptureFailsStep ==
    ASSUME CaptureInv, NEW c \in Callers, Fails(c)
    PROVE  CaptureInv'
<1> DEFINE k == [cap[c] EXCEPT !.at = "returned", !.result = "error", !.pixels = Nil, !.frame = NewFrame]
<1>1. cap \in [Callers -> CaptureRecords] /\ cap[c] \in CaptureRecords
  BY DEF CaptureInv, CaptureTypeOK
<1>2. k \in CaptureRecords
  BY <1>1, NilIsNoCapture DEF CaptureRecords, CaptureFrames, CapturePlaces, CaptureEvents, NewFrame
<1>3. cap' = [cap EXCEPT ![c] = k]
  BY <1>1 DEF Fails, At, Go, Leave, CaptureRecords
<1>4. holder = c
  BY DEF Fails, At
<1>5. /\ k.at = "returned"
      /\ k.result = "error"
  BY <1>1 DEF CaptureRecords, CaptureFrames, NewFrame
<1>6. /\ (active' = Nil /\ holder' = Nil)
      /\ (conn' = Nil /\ conns' \in [made : Nat, open : SUBSET Nat] /\ conns'.open = conns.open \ {conn})
      /\ (UNCHANGED <<proxies, idle, memory, shut, closer>>)
  BY DEF Fails, Leave, Go, CaptureInv, CaptureTypeOK
<1> HIDE DEF k
<1>7. /\ cap' \in [Callers -> CaptureRecords] /\ cap'[c] = k
      /\ \A d \in Callers : d # c => cap'[d] = cap[d]
  BY <1>1, <1>2, <1>3, CaptureWrite
<1>8. CaptureTypeOK'
  BY <1>6, <1>7 DEF  CaptureInv, CaptureTypeOK
<1>9. HolderInv'
  BY <1>4, <1>5, <1>6, <1>7, NilIsNoCapture DEF CaptureInv, HolderInv
<1>10. ConnInv'
  BY <1>4, <1>5, <1>6, <1>7, NilIsNoCapture DEF CaptureInv, CaptureTypeOK, HolderInv, ConnInv
<1>11. FrameInv'
  <2>1. FrameIs(cap'[c], memory', c)
    BY <1>1, <1>4, <1>5, <1>6, <1>7, NilIsNoCapture, NilIsNoMemory DEF CaptureInv, CaptureTypeOK, FrameInv, FrameIs
  <2>2. memory' = memory
    BY <1>6
  <2>3. ASSUME NEW d \in Callers, d # c PROVE FrameIs(cap'[d], memory', d)
    BY <2>2, <2>3, <1>7 DEF CaptureInv, FrameInv, FrameIs
  <2> QED BY <2>1, <2>3 DEF FrameInv
<1>12. ShutInv'
  BY <1>1, <1>4, <1>5, <1>6, <1>7, NilIsNoCapture DEF CaptureInv, HolderInv, ShutInv, CaptureTypeOK
<1> QED BY <1>8, <1>9, <1>10, <1>11, <1>12 DEF CaptureInv

\* The compositor describes a frame (BeginFrame).
LEMMA CaptureBeginFrameStep ==
    ASSUME CaptureInv, NEW c \in Callers, NEW g \in Geometries, BeginFrame(c, g)
    PROVE  CaptureInv'
<1>0. PICK e \in {<<"buffer">>, <<"buffer", "ready">>} :
           cap' = [cap EXCEPT ![c].at = "describes",
                              ![c].frame = [NewFrame EXCEPT !.geometry = g, !.events = e]]
  BY DEF BeginFrame
<1> DEFINE k == [cap[c] EXCEPT !.at = "describes", !.frame = [NewFrame EXCEPT !.geometry = g, !.events = e]]
<1>1. cap \in [Callers -> CaptureRecords] /\ cap[c] \in CaptureRecords
  BY DEF CaptureInv, CaptureTypeOK
<1>2. k \in CaptureRecords
  BY <1>1, <1>0, NilIsNoCapture DEF CaptureRecords, CaptureFrames, CapturePlaces, CaptureEvents, NewFrame
<1>3. cap' = [cap EXCEPT ![c] = k]
  BY <1>0, <1>1 DEF BeginFrame, At, Go, Leave, CaptureRecords
<1>4. cap[c].at = "begins"
  BY DEF BeginFrame, At
<1>5. /\ k.at = "describes" /\ k.result = cap[c].result /\ k.pixels = cap[c].pixels
      /\ ~k.frame.copying /\ ~k.frame.ready /\ k.frame.geometry = g
  BY <1>1 DEF CaptureRecords, CaptureFrames, NewFrame
<1>6. /\ (UNCHANGED <<holder, active, conn, conns, proxies, idle, memory, shut, closer>>)
  BY DEF BeginFrame, Leave, Go, CaptureInv, CaptureTypeOK
<1> HIDE DEF k
<1>7. /\ cap' \in [Callers -> CaptureRecords] /\ cap'[c] = k
      /\ \A d \in Callers : d # c => cap'[d] = cap[d]
  BY <1>1, <1>2, <1>3, CaptureWrite
<1>8. CaptureTypeOK'
  BY <1>6, <1>7 DEF  CaptureInv, CaptureTypeOK
<1>9. HolderInv'
  BY <1>4, <1>5, <1>6, <1>7, NilIsNoCapture DEF CaptureInv, HolderInv
<1>10. ConnInv'
  BY <1>4, <1>5, <1>6, <1>7, NilIsNoCapture DEF CaptureInv, CaptureTypeOK, HolderInv, ConnInv
<1>11. FrameInv'
  <2>1. FrameIs(cap'[c], memory', c)
    BY <1>1, <1>4, <1>5, <1>6, <1>7, NilIsNoCapture, NilIsNoMemory DEF CaptureInv, CaptureTypeOK, FrameInv, FrameIs
  <2>2. memory' = memory
    BY <1>6
  <2>3. ASSUME NEW d \in Callers, d # c PROVE FrameIs(cap'[d], memory', d)
    BY <2>2, <2>3, <1>7 DEF CaptureInv, FrameInv, FrameIs
  <2> QED BY <2>1, <2>3 DEF FrameInv
<1>12. ShutInv'
  BY <1>1, <1>4, <1>5, <1>6, <1>7, NilIsNoCapture DEF CaptureInv, HolderInv, ShutInv, CaptureTypeOK
<1> QED BY <1>8, <1>9, <1>10, <1>11, <1>12 DEF CaptureInv

\* An event of the frame is handled (Dispatch).
LEMMA CaptureDispatchStep ==
    ASSUME CaptureInv, NEW c \in Callers, Dispatch(c)
    PROVE  CaptureInv'
<1> DEFINE k == [cap[c] EXCEPT !.frame = Apply(@)]
<1>1. cap \in [Callers -> CaptureRecords] /\ cap[c] \in CaptureRecords
  BY DEF CaptureInv, CaptureTypeOK
<1>a. /\ Tail(<<"buffer">>) = <<>> /\ Tail(<<"ready">>) = <<>> /\ Tail(<<"buffer", "ready">>) = <<"ready">>
      /\ Head(<<"buffer">>) = "buffer" /\ Head(<<"ready">>) = "ready" /\ Head(<<"buffer", "ready">>) = "buffer"
  OBVIOUS
<1>b. cap[c].frame.events \in CaptureEvents \ {<<>>} /\ cap[c].frame \in CaptureFrames
  BY <1>1 DEF Dispatch, CaptureRecords, CaptureFrames
<1>d. Apply(cap[c].frame) \in CaptureFrames
  BY <1>a, <1>b DEF Apply, CaptureFrames, CaptureEvents
<1>2. k \in CaptureRecords
  BY <1>1, <1>d DEF CaptureRecords
<1>3. cap' = [cap EXCEPT ![c] = k]
  BY <1>1 DEF Dispatch, At, Go, Leave, CaptureRecords
<1>4. cap[c].at \in {"describes", "copies"}
  BY DEF Dispatch, At
<1>5. /\ (k.at = cap[c].at /\ k.result = cap[c].result /\ k.pixels = cap[c].pixels)
      /\ (k.frame.geometry = cap[c].frame.geometry /\ k.frame.copying = cap[c].frame.copying)
      /\ (cap[c].frame.events = <<"ready">> => k.frame.events = <<>>)
      /\ (k.frame.ready => cap[c].frame.ready \/ cap[c].frame.copying)
      /\ (cap[c].frame.events # <<>>)
  BY <1>1, <1>a, <1>b, <1>d DEF CaptureRecords, CaptureFrames, Apply
<1>6. /\ (UNCHANGED <<holder, active, conn, conns, proxies, idle, memory, shut, closer>>)
  BY DEF Dispatch, Leave, Go, CaptureInv, CaptureTypeOK
<1> HIDE DEF k
<1>7. /\ cap' \in [Callers -> CaptureRecords] /\ cap'[c] = k
      /\ \A d \in Callers : d # c => cap'[d] = cap[d]
  BY <1>1, <1>2, <1>3, CaptureWrite
<1>8. CaptureTypeOK'
  BY <1>6, <1>7 DEF  CaptureInv, CaptureTypeOK
<1>9. HolderInv'
  BY <1>4, <1>5, <1>6, <1>7, NilIsNoCapture DEF CaptureInv, HolderInv
<1>10. ConnInv'
  BY <1>4, <1>5, <1>6, <1>7, NilIsNoCapture DEF CaptureInv, CaptureTypeOK, HolderInv, ConnInv
<1>11. FrameInv'
  <2>1. FrameIs(cap'[c], memory', c)
    BY <1>1, <1>4, <1>5, <1>6, <1>7, NilIsNoCapture, NilIsNoMemory DEF CaptureInv, CaptureTypeOK, FrameInv, FrameIs
  <2>2. memory' = memory
    BY <1>6
  <2>3. ASSUME NEW d \in Callers, d # c PROVE FrameIs(cap'[d], memory', d)
    BY <2>2, <2>3, <1>7 DEF CaptureInv, FrameInv, FrameIs
  <2> QED BY <2>1, <2>3 DEF FrameInv
<1>12. ShutInv'
  BY <1>1, <1>4, <1>5, <1>6, <1>7, NilIsNoCapture DEF CaptureInv, HolderInv, ShutInv, CaptureTypeOK
<1> QED BY <1>8, <1>9, <1>10, <1>11, <1>12 DEF CaptureInv

\* The description has been read (Described).
LEMMA CaptureDescribedStep ==
    ASSUME CaptureInv, NEW c \in Callers, Described(c)
    PROVE  CaptureInv'
<1> DEFINE k == [cap[c] EXCEPT !.at = "maps"]
<1>1. cap \in [Callers -> CaptureRecords] /\ cap[c] \in CaptureRecords
  BY DEF CaptureInv, CaptureTypeOK
<1>2. k \in CaptureRecords
  BY <1>1, NilIsNoCapture DEF CaptureRecords, CaptureFrames, CapturePlaces, CaptureEvents, NewFrame
<1>3. cap' = [cap EXCEPT ![c] = k]
  BY <1>1 DEF Described, At, Go, Leave, CaptureRecords
<1>4. cap[c].at = "describes" /\ cap[c].frame.events = <<>>
  BY DEF Described, At
<1>5. /\ k.at = "maps"
      /\ k.frame = cap[c].frame /\ k.result = cap[c].result /\ k.pixels = cap[c].pixels
  BY <1>1 DEF CaptureRecords, CaptureFrames, NewFrame
<1>6. /\ (UNCHANGED <<holder, active, conn, conns, proxies, idle, memory, shut, closer>>)
  BY DEF Described, Leave, Go, CaptureInv, CaptureTypeOK
<1> HIDE DEF k
<1>7. /\ cap' \in [Callers -> CaptureRecords] /\ cap'[c] = k
      /\ \A d \in Callers : d # c => cap'[d] = cap[d]
  BY <1>1, <1>2, <1>3, CaptureWrite
<1>8. CaptureTypeOK'
  BY <1>6, <1>7 DEF  CaptureInv, CaptureTypeOK
<1>9. HolderInv'
  BY <1>4, <1>5, <1>6, <1>7, NilIsNoCapture DEF CaptureInv, HolderInv
<1>10. ConnInv'
  BY <1>4, <1>5, <1>6, <1>7, NilIsNoCapture DEF CaptureInv, CaptureTypeOK, HolderInv, ConnInv
<1>11. FrameInv'
  <2>1. FrameIs(cap'[c], memory', c)
    BY <1>1, <1>4, <1>5, <1>6, <1>7, NilIsNoCapture, NilIsNoMemory DEF CaptureInv, CaptureTypeOK, FrameInv, FrameIs
  <2>2. memory' = memory
    BY <1>6
  <2>3. ASSUME NEW d \in Callers, d # c PROVE FrameIs(cap'[d], memory', d)
    BY <2>2, <2>3, <1>7 DEF CaptureInv, FrameInv, FrameIs
  <2> QED BY <2>1, <2>3 DEF FrameInv
<1>12. ShutInv'
  BY <1>1, <1>4, <1>5, <1>6, <1>7, NilIsNoCapture DEF CaptureInv, HolderInv, ShutInv, CaptureTypeOK
<1> QED BY <1>8, <1>9, <1>10, <1>11, <1>12 DEF CaptureInv

\* The memory is kept or replaced (Map).
LEMMA CaptureMapStep ==
    ASSUME CaptureInv, NEW c \in Callers, Map(c)
    PROVE  CaptureInv'
<1> DEFINE k == [cap[c] EXCEPT !.at = "copies", !.frame.copying = TRUE]
<1>1. cap \in [Callers -> CaptureRecords] /\ cap[c] \in CaptureRecords
  BY DEF CaptureInv, CaptureTypeOK
<1>2. k \in CaptureRecords
  BY <1>1, NilIsNoCapture DEF CaptureRecords, CaptureFrames, CapturePlaces, CaptureEvents, NewFrame
<1>3. cap' = [cap EXCEPT ![c] = k]
  BY <1>1 DEF Map, At, Go, Leave, CaptureRecords
<1>4. cap[c].at = "maps"
  BY DEF Map, At
<1>5. /\ k.at = "copies" /\ k.result = cap[c].result /\ k.pixels = cap[c].pixels
      /\ k.frame.copying /\ k.frame.geometry = cap[c].frame.geometry /\ k.frame.ready = cap[c].frame.ready /\ k.frame.events = cap[c].frame.events
  BY <1>1 DEF CaptureRecords, CaptureFrames, NewFrame
<1>6. /\ (memory' \in [geometry : Geometries, pixels : Callers \cup {Nil}] /\ memory' # Nil /\ memory'.geometry = cap[c].frame.geometry)
      /\ (UNCHANGED <<holder, active, conn, conns, proxies, idle, shut, closer>>)
  BY <1>4, <1>1, NilIsNoMemory DEF FrameInv, FrameIs, Map, Leave, Go, CaptureInv, CaptureTypeOK, CaptureRecords, CaptureFrames
<1> HIDE DEF k
<1>7. /\ cap' \in [Callers -> CaptureRecords] /\ cap'[c] = k
      /\ \A d \in Callers : d # c => cap'[d] = cap[d]
  BY <1>1, <1>2, <1>3, CaptureWrite
<1>8. CaptureTypeOK'
  BY <1>6, <1>7 DEF  CaptureInv, CaptureTypeOK
<1>9. HolderInv'
  BY <1>4, <1>5, <1>6, <1>7, NilIsNoCapture DEF CaptureInv, HolderInv
<1>10. ConnInv'
  BY <1>4, <1>5, <1>6, <1>7, NilIsNoCapture DEF CaptureInv, CaptureTypeOK, HolderInv, ConnInv
<1>11. FrameInv'
  <2>1. FrameIs(cap'[c], memory', c)
    BY <1>1, <1>4, <1>5, <1>6, <1>7, NilIsNoCapture, NilIsNoMemory DEF CaptureInv, CaptureTypeOK, FrameInv, FrameIs
  <2>2. holder = c
    BY <1>4, NilIsNoCapture DEF CaptureInv, HolderInv
  <2>3. ASSUME NEW d \in Callers, d # c PROVE FrameIs(cap'[d], memory', d)
    BY <2>2, <2>3, <1>7, NilIsNoCapture DEF CaptureInv, HolderInv, FrameInv, FrameIs
  <2> QED BY <2>1, <2>3 DEF FrameInv
<1>12. ShutInv'
  BY <1>1, <1>4, <1>5, <1>6, <1>7, NilIsNoCapture DEF CaptureInv, HolderInv, ShutInv, CaptureTypeOK
<1> QED BY <1>8, <1>9, <1>10, <1>11, <1>12 DEF CaptureInv

\* It can not be replaced (MapFails).
LEMMA CaptureMapFailsStep ==
    ASSUME CaptureInv, NEW c \in Callers, MapFails(c)
    PROVE  CaptureInv'
<1> DEFINE k == [cap[c] EXCEPT !.at = "returned", !.result = "error", !.pixels = Nil, !.frame = NewFrame]
<1>1. cap \in [Callers -> CaptureRecords] /\ cap[c] \in CaptureRecords
  BY DEF CaptureInv, CaptureTypeOK
<1>2. k \in CaptureRecords
  BY <1>1, NilIsNoCapture DEF CaptureRecords, CaptureFrames, CapturePlaces, CaptureEvents, NewFrame
<1>3. cap' = [cap EXCEPT ![c] = k]
  BY <1>1 DEF MapFails, At, Go, Leave, CaptureRecords
<1>4. cap[c].at = "maps"
  BY DEF MapFails, At
<1>5. /\ k.at = "returned"
      /\ k.result = "error"
  BY <1>1 DEF CaptureRecords, CaptureFrames, NewFrame
<1>6. /\ (memory' = Nil /\ active' = Nil /\ holder' = Nil)
      /\ (conn' = Nil /\ conns' \in [made : Nat, open : SUBSET Nat] /\ conns'.open = conns.open \ {conn})
      /\ (UNCHANGED <<proxies, idle, shut, closer>>)
  BY DEF MapFails, Leave, Go, CaptureInv, CaptureTypeOK
<1> HIDE DEF k
<1>7. /\ cap' \in [Callers -> CaptureRecords] /\ cap'[c] = k
      /\ \A d \in Callers : d # c => cap'[d] = cap[d]
  BY <1>1, <1>2, <1>3, CaptureWrite
<1>8. CaptureTypeOK'
  BY <1>6, <1>7 DEF  CaptureInv, CaptureTypeOK
<1>9. HolderInv'
  BY <1>4, <1>5, <1>6, <1>7, NilIsNoCapture DEF CaptureInv, HolderInv
<1>10. ConnInv'
  BY <1>4, <1>5, <1>6, <1>7, NilIsNoCapture DEF CaptureInv, CaptureTypeOK, HolderInv, ConnInv
<1>11. FrameInv'
  <2>1. FrameIs(cap'[c], memory', c)
    BY <1>1, <1>4, <1>5, <1>6, <1>7, NilIsNoCapture, NilIsNoMemory DEF CaptureInv, CaptureTypeOK, FrameInv, FrameIs
  <2>2. holder = c
    BY <1>4, NilIsNoCapture DEF CaptureInv, HolderInv
  <2>3. ASSUME NEW d \in Callers, d # c PROVE FrameIs(cap'[d], memory', d)
    BY <2>2, <2>3, <1>7, NilIsNoCapture DEF CaptureInv, HolderInv, FrameInv, FrameIs
  <2> QED BY <2>1, <2>3 DEF FrameInv
<1>12. ShutInv'
  BY <1>1, <1>4, <1>5, <1>6, <1>7, NilIsNoCapture DEF CaptureInv, HolderInv, ShutInv, CaptureTypeOK
<1> QED BY <1>8, <1>9, <1>10, <1>11, <1>12 DEF CaptureInv

\* The compositor writes the pixels (Copy).
LEMMA CaptureCopyStep ==
    ASSUME CaptureInv, NEW c \in Callers, Copy(c)
    PROVE  CaptureInv'
<1> DEFINE k == [cap[c] EXCEPT !.frame.events = <<"ready">>]
<1>1. cap \in [Callers -> CaptureRecords] /\ cap[c] \in CaptureRecords
  BY DEF CaptureInv, CaptureTypeOK
<1>2. k \in CaptureRecords
  BY <1>1, NilIsNoCapture DEF CaptureRecords, CaptureFrames, CapturePlaces, CaptureEvents, NewFrame
<1>3. cap' = [cap EXCEPT ![c] = k]
  BY <1>1 DEF Copy, At, Go, Leave, CaptureRecords
<1>4. cap[c].at = "copies"
  BY DEF Copy, At
<1>5. /\ k.at = cap[c].at /\ k.result = cap[c].result /\ k.pixels = cap[c].pixels
      /\ k.frame.copying = cap[c].frame.copying /\ k.frame.geometry = cap[c].frame.geometry /\ k.frame.events = <<"ready">>
  BY <1>1 DEF CaptureRecords, CaptureFrames, NewFrame
<1>6. /\ (memory' \in [geometry : Geometries, pixels : Callers \cup {Nil}] /\ memory' # Nil /\ memory'.geometry = memory.geometry /\ memory'.pixels = c)
      /\ (UNCHANGED <<holder, active, conn, conns, proxies, idle, shut, closer>>)
  BY <1>4, <1>1, NilIsNoMemory DEF FrameInv, FrameIs, Copy, Leave, Go, CaptureInv, CaptureTypeOK
<1> HIDE DEF k
<1>7. /\ cap' \in [Callers -> CaptureRecords] /\ cap'[c] = k
      /\ \A d \in Callers : d # c => cap'[d] = cap[d]
  BY <1>1, <1>2, <1>3, CaptureWrite
<1>8. CaptureTypeOK'
  BY <1>6, <1>7 DEF  CaptureInv, CaptureTypeOK
<1>9. HolderInv'
  BY <1>4, <1>5, <1>6, <1>7, NilIsNoCapture DEF CaptureInv, HolderInv
<1>10. ConnInv'
  BY <1>4, <1>5, <1>6, <1>7, NilIsNoCapture DEF CaptureInv, CaptureTypeOK, HolderInv, ConnInv
<1>11. FrameInv'
  <2>1. FrameIs(cap'[c], memory', c)
    BY <1>1, <1>4, <1>5, <1>6, <1>7, NilIsNoCapture, NilIsNoMemory, ZenonT(30) DEF CaptureInv, CaptureTypeOK, FrameInv, FrameIs
  <2>2. holder = c
    BY <1>4, NilIsNoCapture DEF CaptureInv, HolderInv
  <2>3. ASSUME NEW d \in Callers, d # c PROVE FrameIs(cap'[d], memory', d)
    BY <2>2, <2>3, <1>7, NilIsNoCapture DEF CaptureInv, HolderInv, FrameInv, FrameIs
  <2> QED BY <2>1, <2>3 DEF FrameInv
<1>12. ShutInv'
  BY <1>1, <1>4, <1>5, <1>6, <1>7, NilIsNoCapture DEF CaptureInv, HolderInv, ShutInv, CaptureTypeOK
<1> QED BY <1>8, <1>9, <1>10, <1>11, <1>12 DEF CaptureInv

\* They are there (Ready).
LEMMA CaptureReadyStep ==
    ASSUME CaptureInv, NEW c \in Callers, Ready(c)
    PROVE  CaptureInv'
<1> DEFINE k == [cap[c] EXCEPT !.at = "processes"]
<1>1. cap \in [Callers -> CaptureRecords] /\ cap[c] \in CaptureRecords
  BY DEF CaptureInv, CaptureTypeOK
<1>2. k \in CaptureRecords
  BY <1>1, NilIsNoCapture DEF CaptureRecords, CaptureFrames, CapturePlaces, CaptureEvents, NewFrame
<1>3. cap' = [cap EXCEPT ![c] = k]
  BY <1>1 DEF Ready, At, Go, Leave, CaptureRecords
<1>4. cap[c].at = "copies" /\ cap[c].frame.ready
  BY DEF Ready, At
<1>5. /\ k.at = "processes"
      /\ k.frame = cap[c].frame /\ k.result = cap[c].result /\ k.pixels = cap[c].pixels
  BY <1>1 DEF CaptureRecords, CaptureFrames, NewFrame
<1>6. /\ (UNCHANGED <<holder, active, conn, conns, proxies, idle, memory, shut, closer>>)
  BY DEF Ready, Leave, Go, CaptureInv, CaptureTypeOK
<1> HIDE DEF k
<1>7. /\ cap' \in [Callers -> CaptureRecords] /\ cap'[c] = k
      /\ \A d \in Callers : d # c => cap'[d] = cap[d]
  BY <1>1, <1>2, <1>3, CaptureWrite
<1>8. CaptureTypeOK'
  BY <1>6, <1>7 DEF  CaptureInv, CaptureTypeOK
<1>9. HolderInv'
  BY <1>4, <1>5, <1>6, <1>7, NilIsNoCapture DEF CaptureInv, HolderInv
<1>10. ConnInv'
  BY <1>4, <1>5, <1>6, <1>7, NilIsNoCapture DEF CaptureInv, CaptureTypeOK, HolderInv, ConnInv
<1>11. FrameInv'
  <2>1. FrameIs(cap'[c], memory', c)
    BY <1>1, <1>4, <1>5, <1>6, <1>7, NilIsNoCapture, NilIsNoMemory DEF CaptureInv, CaptureTypeOK, FrameInv, FrameIs
  <2>2. memory' = memory
    BY <1>6
  <2>3. ASSUME NEW d \in Callers, d # c PROVE FrameIs(cap'[d], memory', d)
    BY <2>2, <2>3, <1>7 DEF CaptureInv, FrameInv, FrameIs
  <2> QED BY <2>1, <2>3 DEF FrameInv
<1>12. ShutInv'
  BY <1>1, <1>4, <1>5, <1>6, <1>7, NilIsNoCapture DEF CaptureInv, HolderInv, ShutInv, CaptureTypeOK
<1> QED BY <1>8, <1>9, <1>10, <1>11, <1>12 DEF CaptureInv

\* They are read (Process).
LEMMA CaptureProcessStep ==
    ASSUME CaptureInv, NEW c \in Callers, Process(c)
    PROVE  CaptureInv'
<1> DEFINE k == [cap[c] EXCEPT !.at = "returned", !.result = "ok", !.pixels = memory.pixels, !.frame = NewFrame]
<1>1. cap \in [Callers -> CaptureRecords] /\ cap[c] \in CaptureRecords
  BY DEF CaptureInv, CaptureTypeOK
<1>a. memory.pixels = c
  BY DEF Process, At, CaptureInv, FrameInv, FrameIs
<1>2. k \in CaptureRecords
  BY <1>a, <1>1, NilIsNoCapture DEF CaptureRecords, CaptureFrames, CapturePlaces, CaptureEvents, NewFrame, CaptureInv, CaptureTypeOK, ConnInv
<1>3. cap' = [cap EXCEPT ![c] = k]
  BY <1>1 DEF Process, At, Go, Leave, CaptureRecords
<1>4. cap[c].at = "processes"
  BY DEF Process, At
<1>5. /\ k.at = "returned"
      /\ k.result = "ok" /\ k.pixels = memory.pixels
  BY <1>1 DEF CaptureRecords, CaptureFrames, NewFrame
<1>6. /\ (active' = Nil /\ holder' = Nil /\ idle' = FALSE)
      /\ (UNCHANGED <<conn, conns, proxies, memory, shut, closer>>)
  BY DEF Process, Leave, Go, CaptureInv, CaptureTypeOK
<1> HIDE DEF k
<1>7. /\ cap' \in [Callers -> CaptureRecords] /\ cap'[c] = k
      /\ \A d \in Callers : d # c => cap'[d] = cap[d]
  BY <1>1, <1>2, <1>3, CaptureWrite
<1>8. CaptureTypeOK'
  BY <1>6, <1>7 DEF  CaptureInv, CaptureTypeOK
<1>9. HolderInv'
  BY <1>4, <1>5, <1>6, <1>7, NilIsNoCapture DEF CaptureInv, HolderInv
<1>10. ConnInv'
  BY <1>4, <1>5, <1>6, <1>7, NilIsNoCapture DEF CaptureInv, CaptureTypeOK, HolderInv, ConnInv
<1>11. FrameInv'
  <2>1. FrameIs(cap'[c], memory', c)
    BY <1>1, <1>4, <1>5, <1>6, <1>7, NilIsNoCapture, NilIsNoMemory DEF CaptureInv, CaptureTypeOK, FrameInv, FrameIs
  <2>2. memory' = memory
    BY <1>6
  <2>3. ASSUME NEW d \in Callers, d # c PROVE FrameIs(cap'[d], memory', d)
    BY <2>2, <2>3, <1>7 DEF CaptureInv, FrameInv, FrameIs
  <2> QED BY <2>1, <2>3 DEF FrameInv
<1>12. ShutInv'
  BY <1>1, <1>4, <1>5, <1>6, <1>7, NilIsNoCapture DEF CaptureInv, HolderInv, ShutInv, CaptureTypeOK
<1> QED BY <1>8, <1>9, <1>10, <1>11, <1>12 DEF CaptureInv

\* The caller's context ends (CancelCapture).
LEMMA CaptureCancelCaptureStep ==
    ASSUME CaptureInv, NEW c \in Callers, CancelCapture(c)
    PROVE  CaptureInv'
<1> DEFINE k == [cap[c] EXCEPT !.canceled = TRUE]
<1>1. cap \in [Callers -> CaptureRecords] /\ cap[c] \in CaptureRecords
  BY DEF CaptureInv, CaptureTypeOK
<1>2. k \in CaptureRecords
  BY <1>1, NilIsNoCapture DEF CaptureRecords, CaptureFrames, CapturePlaces, CaptureEvents, NewFrame
<1>3. cap' = [cap EXCEPT ![c] = k]
  BY <1>1 DEF CancelCapture, At, Go, Leave, CaptureRecords
<1>4. cap[c].at \notin {"idle", "returned"}
  BY DEF CancelCapture, At
<1>5. /\ k.at = cap[c].at
      /\ k.frame = cap[c].frame /\ k.result = cap[c].result /\ k.pixels = cap[c].pixels
  BY <1>1 DEF CaptureRecords, CaptureFrames, NewFrame
<1>6. /\ (UNCHANGED <<holder, active, conn, conns, proxies, idle, memory, shut, closer>>)
  BY DEF CancelCapture, Leave, Go, CaptureInv, CaptureTypeOK
<1> HIDE DEF k
<1>7. /\ cap' \in [Callers -> CaptureRecords] /\ cap'[c] = k
      /\ \A d \in Callers : d # c => cap'[d] = cap[d]
  BY <1>1, <1>2, <1>3, CaptureWrite
<1>8. CaptureTypeOK'
  BY <1>6, <1>7 DEF  CaptureInv, CaptureTypeOK
<1>9. HolderInv'
  BY <1>4, <1>5, <1>6, <1>7, NilIsNoCapture DEF CaptureInv, HolderInv
<1>10. ConnInv'
  BY <1>4, <1>5, <1>6, <1>7, NilIsNoCapture DEF CaptureInv, CaptureTypeOK, HolderInv, ConnInv
<1>11. FrameInv'
  <2>1. FrameIs(cap'[c], memory', c)
    BY <1>1, <1>4, <1>5, <1>6, <1>7, NilIsNoCapture, NilIsNoMemory DEF CaptureInv, CaptureTypeOK, FrameInv, FrameIs
  <2>2. memory' = memory
    BY <1>6
  <2>3. ASSUME NEW d \in Callers, d # c PROVE FrameIs(cap'[d], memory', d)
    BY <2>2, <2>3, <1>7 DEF CaptureInv, FrameInv, FrameIs
  <2> QED BY <2>1, <2>3 DEF FrameInv
<1>12. ShutInv'
  BY <1>1, <1>4, <1>5, <1>6, <1>7, NilIsNoCapture DEF CaptureInv, HolderInv, ShutInv, CaptureTypeOK
<1> QED BY <1>8, <1>9, <1>10, <1>11, <1>12 DEF CaptureInv

\* The captures' initial state.
LEMMA CaptureStart ==
    ASSUME CaptureInit PROVE CaptureInv
<1> DEFINE k == NewCapture
<1>1. NewFrame \in CaptureFrames /\ k \in CaptureRecords
  BY DEF CaptureRecords, CaptureFrames, CapturePlaces, CaptureEvents, NewFrame, NewCapture
<1>2. k.at = "idle" /\ k.result = Nil
  BY DEF NewCapture
<1> HIDE DEF k
<1>3. cap = [c \in Callers |-> k]
  BY DEF CaptureInit, k
<1>4. cap \in [Callers -> CaptureRecords] /\ \A c \in Callers : cap[c] = k
  BY <1>1, <1>3
<1>5. CaptureTypeOK /\ HolderInv
  BY <1>2, <1>4, NilIsNoCapture DEF CaptureInit, CaptureTypeOK, HolderInv
<1>6. ConnInv /\ ShutInv
  BY <1>2, <1>4 DEF CaptureInit, ConnInv, ShutInv
<1>7. FrameInv
  BY <1>2, <1>4, NilIsNoCapture DEF FrameInv, FrameIs
<1> QED BY <1>5, <1>6, <1>7 DEF CaptureInv

\* The steps that write no capture: the connection expires or is closed, or Close
\* goes on (Expire, Janitor, CloseBegins, CloseReleases).
LEMMA CaptureOtherSteps ==
    ASSUME CaptureInv, Expire \/ Janitor \/ CloseBegins \/ CloseReleases
    PROVE  CaptureInv'
<1>1. CASE Expire
  BY <1>1 DEF Expire, CaptureInv, CaptureTypeOK, HolderInv, ConnInv, FrameInv, FrameIs, ShutInv
<1>2. CASE CloseBegins
  BY <1>2 DEF CloseBegins, CaptureInv, CaptureTypeOK, HolderInv, ConnInv, FrameInv, FrameIs, ShutInv
<1>3. CASE Janitor \/ CloseReleases
  <2>1. /\ holder = Nil /\ conn' = Nil /\ shut' = shut
        /\ UNCHANGED <<cap, holder, active, proxies, idle>>
        /\ memory' \in {memory, Nil} /\ closer' \in {"idle", "cancels", "waits", "returned"}
        /\ closer' # closer => memory' = Nil /\ closer = "waits"
        /\ closer' = closer => memory' = memory \/ closer' # "returned"
    BY <1>3 DEF Janitor, CloseReleases, CaptureInv, CaptureTypeOK
  <2>2. conns \in [made : Nat, open : SUBSET Nat] /\ conns.open \subseteq {conn}
    BY DEF CaptureInv, CaptureTypeOK, ConnInv
  <2>3. conns' \in [made : Nat, open : SUBSET Nat] /\ conns'.open = {}
    <3>1. conns' = [conns EXCEPT !.open = @ \ {conn}]
      BY <1>3 DEF Janitor, CloseReleases
    <3> QED BY <2>2, <3>1
  <2>4. \A c \in Callers : cap[c].at \in {"idle", "waits", "returned"}
    BY <2>1, NilIsNoCapture DEF CaptureInv, HolderInv
  <2>5. CaptureTypeOK' /\ HolderInv'
    BY <2>1, <2>3 DEF CaptureInv, CaptureTypeOK, HolderInv
  <2>6. ConnInv' /\ FrameInv'
    BY <2>1, <2>3, <2>4 DEF CaptureInv, ConnInv, FrameInv, FrameIs
  <2>7. ShutInv'
    BY <2>1 DEF CaptureInv, ShutInv
  <2> QED BY <2>5, <2>6, <2>7 DEF CaptureInv
<1> QED BY <1>1, <1>2, <1>3

\* Close cancels the capture that is active (CloseCancels).
LEMMA CaptureCloseCancelsStep ==
    ASSUME CaptureInv, CloseCancels
    PROVE  CaptureInv'
<1>0. cap \in [Callers -> CaptureRecords] /\ active \in Callers \cup {Nil}
  BY DEF CaptureInv, CaptureTypeOK
<1>1. CASE active = Nil
  <2>1. closer' = "waits" /\ closer = "cancels"
        /\ UNCHANGED <<cap, holder, active, conn, conns, proxies, idle, memory, shut>>
    BY <1>1 DEF CloseCancels
  <2> QED BY <2>1 DEF CaptureInv, CaptureTypeOK, HolderInv, ConnInv, FrameInv, FrameIs, ShutInv
<1>2. CASE active # Nil
  <2> DEFINE k == [cap[active] EXCEPT !.canceled = TRUE]
  <2>1. cap[active] \in CaptureRecords /\ active \in Callers
    BY <1>0, <1>2
  <2>2. k \in CaptureRecords
    BY <2>1 DEF CaptureRecords
  <2>3. closer' = "waits" /\ closer = "cancels" /\ cap' = [cap EXCEPT ![active] = k]
        /\ UNCHANGED <<holder, active, conn, conns, proxies, idle, memory, shut>>
    BY <1>0, <1>2, <2>1 DEF CloseCancels
  <2>4. k.at = cap[active].at /\ k.frame = cap[active].frame /\ k.result = cap[active].result
        /\ k.pixels = cap[active].pixels
    BY <2>1 DEF CaptureRecords
  <2> HIDE DEF k
  <2>5. /\ cap' \in [Callers -> CaptureRecords] /\ cap'[active] = k
        /\ \A d \in Callers : d # active => cap'[d] = cap[d]
    BY <1>0, <2>1, <2>2, <2>3, CaptureWrite
  <2>6. CaptureTypeOK' /\ HolderInv'
    BY <2>1, <2>3, <2>4, <2>5 DEF CaptureInv, CaptureTypeOK, HolderInv
  <2>7. ConnInv' /\ ShutInv'
    BY <2>1, <2>3, <2>4, <2>5 DEF CaptureInv, ConnInv, ShutInv
  <2>8. FrameInv'
    BY <2>1, <2>3, <2>4, <2>5 DEF CaptureInv, FrameInv, FrameIs
  <2> QED BY <2>6, <2>7, <2>8 DEF CaptureInv
<1> QED BY <1>1, <1>2

\* Every step keeps the invariant.
LEMMA CaptureStep ==
    ASSUME CaptureInv, [CaptureNext]_cvars
    PROVE  CaptureInv'
<1>1. CASE UNCHANGED cvars
  BY <1>1 DEF cvars, CaptureInv, CaptureTypeOK, HolderInv, ConnInv, FrameInv, FrameIs, ShutInv
<1>2. CASE \E c \in Callers :
              \/ Enter(c) \/ Lock(c) \/ Arm(c) \/ Connect(c) \/ SetUp(c) \/ HalfSetUp(c) \/ Fails(c)
              \/ \E g \in Geometries : BeginFrame(c, g)
  BY <1>2, CaptureEnterStep, CaptureLockStep, CaptureArmStep, CaptureConnectStep, CaptureSetUpStep,
     CaptureHalfSetUpStep, CaptureFailsStep, CaptureBeginFrameStep
<1>3. CASE \E c \in Callers :
              \/ Dispatch(c) \/ Described(c) \/ Map(c) \/ MapFails(c) \/ Copy(c) \/ Ready(c)
              \/ Process(c) \/ CancelCapture(c)
  BY <1>3, CaptureDispatchStep, CaptureDescribedStep, CaptureMapStep, CaptureMapFailsStep,
     CaptureCopyStep, CaptureReadyStep, CaptureProcessStep, CaptureCancelCaptureStep
<1>4. CASE Expire \/ Janitor \/ CloseBegins \/ CloseReleases
  BY <1>4, CaptureOtherSteps
<1>5. CASE CloseCancels
  BY <1>5, CaptureCloseCancelsStep
<1> QED BY <1>1, <1>2, <1>3, <1>4, <1>5 DEF CaptureNext

\* The captures' types (ScreenCapture), for any number of callers, connections
\* and geometries.
THEOREM CaptureTypes == CaptureSpec => []CaptureTypeOK
<1>1. CaptureInv => CaptureTypeOK
  BY DEF CaptureInv
<1> QED BY <1>1, CaptureStart, CaptureStep, PTL DEF CaptureSpec

\* A capture returns the pixels of its own frame, over the one connection that the
\* backend owns, and Close leaves nothing (wlrscreencopy.go).
THEOREM Captures == CaptureSpec => []CapturesAreExact
<1>1. ASSUME CaptureInv PROVE CapturesAreExact
  <2>1. PixelsAreThisFrame
    <3> SUFFICES ASSUME NEW c \in Callers
                 PROVE  /\ At(c, "processes") => memory = [geometry |-> cap[c].frame.geometry, pixels |-> c]
                        /\ cap[c].result = "ok" => cap[c].pixels = c
      BY DEF PixelsAreThisFrame
    <3>1. FrameIs(cap[c], memory, c)
      BY <1>1 DEF CaptureInv, FrameInv
    <3>2. memory # Nil => memory \in [geometry : Geometries, pixels : Callers \cup {Nil}]
      BY <1>1 DEF CaptureInv, CaptureTypeOK
    <3> QED BY <3>1, <3>2 DEF FrameIs, At
  <2>2. OneConnection
    BY <1>1 DEF CaptureInv, ConnInv, ShutInv, OneConnection
  <2> QED BY <2>1, <2>2 DEF CapturesAreExact
<1> QED BY <1>1, CaptureStart, CaptureStep, PTL DEF CaptureSpec


-----------------------------------------------------------------------------
(* Locator.                                                                *)

\* Where a call is before anything of its last attempt can have reached the
\* provider, or when the provider has certainly refused it.
BeforeSent == {"observe", "scope", "snapshot", "metadata", "dispatch", "rescope"}
Errors == {"unobserved", "scope", "not found", "ambiguous", "incomplete", "stale", "changed",
           "failed", "canceled", "retired", "invalid", "scope changed", "not verified"}

\* Nothing has been sent twice, and the receipt and the error that are kept are
\* those of the place the call has reached.
LocatorInv ==
    /\ step \in BeforeSent \cup {"accepted", "rejected", "unsupported", "lost", "wait", "done"}
    /\ acted = <<>> \/ Len(acted) = 1
    /\ step \in BeforeSent \cup {"rejected", "unsupported"} => acted = <<>>
    /\ step \in {"accepted", "wait"} => Len(acted) = 1
    /\ step \notin {"wait", "done"} => receipt \in {None, "not-sent"}
    /\ step # "done" => err = None
    /\ step = "wait" => receipt = "accepted"
    /\ step = "done" =>
          /\ receipt = "accepted" => Len(acted) = 1
          /\ receipt \in {"not-sent", "rejected"} => acted = <<>>
          /\ receipt = None /\ err # "canceled" => acted = <<>>
          /\ err = None => receipt = "accepted"

\* A call that returns before it has sent anything (Returns).
LEMMA LocatorReturns ==
    ASSUME LocatorInv, NEW e \in Errors, step \in BeforeSent, Returns(e), acted' = acted
    PROVE  LocatorInv'
  BY NoneIsNoOutcome DEF Returns, LocatorInv, BeforeSent, Errors

\* A resolution attempt fails, and may be made again (Unresolved).
LEMMA LocatorUnresolved ==
    ASSUME LocatorInv, NEW e \in {"stale", "changed", "failed"}, step \in BeforeSent, Unresolved(e),
           acted' = acted
    PROVE  LocatorInv'
<1>1. CASE Returns(e)
  <2>1. e \in Errors
    BY DEF Errors
  <2> QED BY <1>1, <2>1, LocatorReturns
<1>2. CASE step' = "observe" /\ tries' = tries + 1 /\ UNCHANGED <<attempt, first, target, receipt, err>>
  BY <1>2 DEF LocatorInv, BeforeSent
<1> QED BY <1>1, <1>2 DEF Unresolved

\* A dispatch whose outcome is an error: it is retried only when nothing was
\* sent, and the receipt says no less than what the provider did (Dispatched).
LEMMA LocatorDispatchFails ==
    ASSUME LocatorInv, NEW e \in Errors, NEW r \in {None, "not-sent", "rejected", "unknown", "accepted"},
           step \in BeforeSent \cup {"accepted", "rejected", "unsupported", "lost"},
           Dispatched(r, e), acted' = acted,
           r \in {"not-sent", "rejected"} => acted = <<>>,
           r = None /\ e # "canceled" => acted = <<>>,
           r = "accepted" => Len(acted) = 1
    PROVE  LocatorInv'
<1>1. e # None /\ receipt' = r
  BY NoneIsNoOutcome DEF Errors, Dispatched
<1>2. CASE step' = "rescope" /\ UNCHANGED err /\ RetryAllowed(r, e)
  <2>1. r \in {None, "not-sent"} /\ e = "stale"
    BY <1>2 DEF RetryAllowed, MayRetryStale
  <2>2. acted = <<>>
    BY <2>1
  <2> QED BY <1>1, <1>2, <2>1, <2>2 DEF LocatorInv, BeforeSent
<1>3. CASE step' = "done" /\ err' = e
  BY <1>1, <1>3, NoneIsNoOutcome DEF LocatorInv, BeforeSent
<1> QED BY <1>1, <1>2, <1>3 DEF Dispatched

\* The desktop changes, the backend notices and the context ends.
LEMMA LocatorWorld ==
    ASSUME LocatorInv, NodeAppears \/ NodeVanishes \/ ApplicationRestarts \/ Notice \/ ContextEnds
    PROVE  LocatorInv'
<1>1. UNCHANGED <<step, receipt, err, acted>>
  BY DEF NodeAppears, NodeVanishes, ApplicationRestarts, DesktopChange, Notice, ContextEnds, call
<1> QED BY <1>1 DEF LocatorInv

\* The target is resolved (Observe, ResolveScope, Snapshot, Matches).
LEMMA LocatorResolves ==
    ASSUME LocatorInv, Observe \/ ResolveScope \/ Snapshot
    PROVE  LocatorInv'
<1>0. step \in BeforeSent /\ acted' = acted
  BY DEF Observe, ResolveScope, Snapshot, BeforeSent
<1>1. CASE \E e \in Errors : Returns(e)
  BY <1>0, <1>1, LocatorReturns
<1>2. CASE \E e \in {"stale", "changed", "failed"} : Unresolved(e)
  BY <1>0, <1>2, LocatorUnresolved
<1>3. CASE step' \in BeforeSent /\ UNCHANGED <<receipt, err>>
  BY <1>0, <1>3 DEF LocatorInv, BeforeSent
<1>4. CASE Observe
  <2>1. \/ step' = "scope" /\ UNCHANGED <<receipt, err>>
        \/ Returns("canceled") \/ Returns("unobserved")
    BY <1>4 DEF Observe, call
  <2> QED BY <1>1, <1>3, <2>1 DEF Errors, BeforeSent
<1>5. CASE ResolveScope
  <2>1. \/ step' = "snapshot" /\ UNCHANGED <<receipt, err>>
        \/ Returns("canceled") \/ Returns("scope")
        \/ \E e \in {"stale", "changed", "failed"} : Unresolved(e)
    BY <1>5 DEF ResolveScope
  <2> QED BY <1>1, <1>2, <1>3, <2>1 DEF Errors, BeforeSent
<1>6. CASE Snapshot
  <2>1. \/ Returns("canceled") \/ Returns("incomplete") \/ Matches(world.nodes)
        \/ \E e \in {"stale", "changed", "failed"} : Unresolved(e)
    BY <1>6 DEF Snapshot
  <2>2. CASE Matches(world.nodes)
    <3>1. \/ Returns("not found") \/ Returns("ambiguous")
          \/ step' \in {"metadata", "dispatch"} /\ UNCHANGED <<receipt, err>>
      BY <2>2 DEF Matches
    <3> QED BY <1>1, <1>3, <3>1 DEF Errors, BeforeSent
  <2> QED BY <1>1, <1>2, <2>1, <2>2 DEF Errors
<1> QED BY <1>4, <1>5, <1>6

\* The call is sent, or it is not (ReadMetadata, NotSent, Send).
LEMMA LocatorSends ==
    ASSUME LocatorInv, ReadMetadata \/ NotSent \/ Send
    PROVE  LocatorInv'
<1>0. step \in BeforeSent /\ acted = <<>>
  BY DEF ReadMetadata, NotSent, Send, BeforeSent, LocatorInv
<1>1. ASSUME NEW r \in {None, "not-sent", "unknown"}, NEW e \in Errors, Dispatched(r, e), acted' = acted
      PROVE  LocatorInv'
  <2>1. r # "accepted"
    BY NoneIsNoOutcome
  <2> QED BY <1>0, <1>1, <2>1, LocatorDispatchFails
<1>2. CASE ReadMetadata
  <2>1. /\ acted' = acted
        /\ \/ Dispatched(None, "canceled") \/ Dispatched(None, "stale") \/ Dispatched(None, "failed")
           \/ step' = "dispatch" /\ UNCHANGED <<receipt, err>>
    BY <1>2 DEF ReadMetadata, call
  <2>2. CASE step' = "dispatch" /\ UNCHANGED <<receipt, err>>
    BY <1>0, <2>1, <2>2 DEF LocatorInv, BeforeSent
  <2> QED BY <1>1, <2>1, <2>2 DEF Errors
<1>3. CASE NotSent
  <2>1. acted' = acted /\ \E r \in {None, "not-sent", "unknown"}, e \in Errors : Dispatched(r, e)
    BY <1>3 DEF NotSent, Withdrawn, Errors
  <2> QED BY <1>1, <2>1
<1>4. CASE Send
  <2>1. UNCHANGED <<receipt, err>> /\ step = "dispatch"
    BY <1>4 DEF Send, call
  <2>2. CASE acted' = Append(acted, target) /\ step' \in {"accepted", "lost"}
    <3>1. Len(Append(<<>>, target)) = 1
      OBVIOUS
    <3> QED BY <1>0, <2>1, <2>2, <3>1 DEF LocatorInv, BeforeSent
  <2>3. CASE acted' = acted /\ step' \in {"rejected", "unsupported", "lost"}
    BY <1>0, <2>1, <2>3 DEF LocatorInv, BeforeSent
  <2> QED BY <1>4, <2>2, <2>3 DEF Send
<1> QED BY <1>2, <1>3, <1>4

\* The answer arrives (Answer).
LEMMA LocatorAnswers ==
    ASSUME LocatorInv, Answer
    PROVE  LocatorInv'
<1>0. step \in {"accepted", "rejected", "unsupported", "lost"} /\ acted' = acted
  BY DEF Answer
<1>1. CASE Dispatched(Withdrawn, "canceled")
  <2>1. Withdrawn \in {None, "unknown"} /\ "canceled" \in Errors
    BY DEF Withdrawn, Errors
  <2> QED BY <1>0, <1>1, <2>1, NoneIsNoOutcome, LocatorDispatchFails
<1>2. CASE Dispatched("unknown", "retired")
  <2>1. "retired" \in Errors
    BY DEF Errors
  <2> QED BY <1>0, <1>2, <2>1, NoneIsNoOutcome, LocatorDispatchFails
<1>3. CASE Dispatched(ReceiptOf(step), IF step = "accepted" THEN None ELSE "failed")
  <2>1. CASE step = "accepted"
    <3>1. step' = "wait" /\ receipt' = "accepted" /\ err' = err
      BY <1>3, <2>1 DEF Dispatched, ReceiptOf
    <3> QED BY <1>0, <2>1, <3>1 DEF LocatorInv, BeforeSent
  <2>2. CASE step # "accepted"
    <3>1. Dispatched(ReceiptOf(step), "failed")
      BY <1>3, <2>2
    <3>2. ReceiptOf(step) \in {"rejected", "not-sent", "unknown"} /\ "failed" \in Errors
      BY <1>0, <2>2 DEF ReceiptOf, Errors
    <3>3. ReceiptOf(step) \in {"rejected", "not-sent"} => acted = <<>>
      BY <1>0, <2>2 DEF ReceiptOf, LocatorInv
    <3> QED BY <1>0, <3>1, <3>2, <3>3, NoneIsNoOutcome, LocatorDispatchFails
  <2> QED BY <2>1, <2>2
<1> QED BY <1>1, <1>2, <1>3 DEF Answer

\* The scope is checked before a second attempt, or the postcondition has been
\* waited for (Rescope, Wait).
LEMMA LocatorEnds ==
    ASSUME LocatorInv, Rescope \/ Wait
    PROVE  LocatorInv'
<1>1. CASE Rescope
  <2>0. step \in BeforeSent /\ acted' = acted
    BY <1>1 DEF Rescope, BeforeSent
  <2>1. \/ Returns("scope changed") \/ Returns("canceled") \/ Returns("failed")
        \/ step' = "observe" /\ UNCHANGED <<receipt, err>>
    BY <1>1 DEF Rescope
  <2>2. CASE \E e \in Errors : Returns(e)
    BY <2>0, <2>2, LocatorReturns
  <2>3. CASE step' = "observe" /\ UNCHANGED <<receipt, err>>
    BY <2>0, <2>3 DEF LocatorInv, BeforeSent
  <2> QED BY <2>1, <2>2, <2>3 DEF Errors
<1>2. CASE Wait
  BY <1>2, NoneIsNoOutcome DEF Wait, Returns, call, LocatorInv, BeforeSent
<1> QED BY <1>1, <1>2

\* Every step keeps the invariant.
LEMMA LocatorStep ==
    ASSUME LocatorInv, [LocatorNext]_lvars
    PROVE  LocatorInv'
<1>1. CASE UNCHANGED lvars
  BY <1>1 DEF lvars, call, LocatorInv
<1> QED BY <1>1, LocatorWorld, LocatorResolves, LocatorSends, LocatorAnswers, LocatorEnds
        DEF LocatorNext

\* The provider performs a call at most once, and the receipt is true, for any
\* number of changes of the desktop and any tasks (accessibility_locator.go).
THEOREM Dispatches == LocatorSpec => []DispatchesAreExact
<1>1. LocatorInit => LocatorInv
  BY NoneIsNoOutcome DEF LocatorInit, LocatorInv, BeforeSent
<1>2. ASSUME LocatorInv PROVE DispatchesAreExact
  <2>1. Len(acted) <= 1
    <3>1. Len(<<>>) = 0 /\ 0 <= 1 /\ 1 <= 1
      OBVIOUS
    <3> QED BY <1>2, <3>1 DEF LocatorInv
  <2>2. None # "accepted"
    BY NoneIsNoOutcome
  <2> QED BY <1>2, <2>1, <2>2 DEF LocatorInv, DispatchesAreExact
<1> QED BY <1>1, <1>2, LocatorStep, PTL DEF LocatorSpec

-----------------------------------------------------------------------------
(* Visual waits.                                                           *)

Loops == {"top", "grab", "judge", "sleep", "returned"}
Conditions == {"for", "change", "stable", "holds", "before"}

ScreenTypes ==
    /\ wait \in [kind : {"for", "change", "stable", "settle", "holds"}, want : Nat, initial : Nat,
                 stable : Int, fast : BOOLEAN]
    /\ screen \in [hash : Nat, corner : Nat]
    /\ over \in BOOLEAN /\ polled \in Conditions /\ loop \in Loops
    /\ streak \in [last : Nat, count : Nat] /\ corner \in Int
    /\ res \in [hash : Nat, done : BOOLEAN, err : BOOLEAN]
    /\ seen \in Seq(Nat)
    /\ waited \in [as : {"pending", "ok", "timeout", "error"}, hash : Nat]

\* The hash that the caller began with, if it gave one, and those of this loop.
History == (IF wait.initial = 0 THEN <<>> ELSE <<wait.initial>>) \o seen

\* What hash h, with which a wait ends, must be.
Claim(h) ==
    /\ seen # <<>>
    /\ polled = "change" => Last(seen) = h /\ h # wait.initial
    /\ polled = "stable" => LastAre(Needed, History, h)
    /\ polled \in {"for", "holds"} => Last(seen) = wait.want

\* The streak is that of the captures, and what decides is what was captured.
ScreenInv ==
    /\ ScreenTypes
    /\ polled = "stable" => LastAre(streak.count, History, streak.last)
    /\ loop = "judge" /\ res.done => polled = "before" \/ Claim(res.hash)
    /\ waited.as = "ok" => loop = "returned" /\ polled # "before" /\ Claim(waited.hash)
    /\ waited.as = "timeout" => over

\* One more equal capture makes a run of them longer.
LEMMA RunGrows ==
    ASSUME NEW s \in Seq(Nat), NEW n \in Nat, NEW h \in Nat, LastAre(n, s, h)
    PROVE  LastAre(n + 1, Append(s, h), h)
  BY DEF LastAre

\* A capture is a run of one.
LEMMA RunBegins ==
    ASSUME NEW s \in Seq(Nat), NEW h \in Nat
    PROVE  LastAre(1, Append(s, h), h)
  BY DEF LastAre

\* A run has shorter ones at its end.
LEMMA RunShrinks ==
    ASSUME NEW s \in Seq(Nat), NEW n \in Nat, NEW m \in Nat, m <= n, NEW h \in Nat, LastAre(n, s, h)
    PROVE  LastAre(m, s, h)
  BY DEF LastAre

\* A hash that is captured is the last of the history.
LEMMA HistoryGrows ==
    ASSUME ScreenTypes, NEW h \in Nat, seen' = Append(seen, h), UNCHANGED wait
    PROVE  /\ History \in Seq(Nat) /\ History' = Append(History, h)
           /\ seen' \in Seq(Nat) /\ seen' # <<>> /\ Last(seen') = h
<1>1. seen \in Seq(Nat) /\ seen' \in Seq(Nat) /\ seen' # <<>> /\ Last(seen') = h
  BY DEF ScreenTypes, Last
<1>2. CASE wait.initial = 0
  <2>1. History = seen /\ History' = seen'
    BY <1>1, <1>2 DEF History
  <2> QED BY <1>1, <2>1
<1>3. CASE wait.initial # 0
  <2>1. wait.initial \in Nat
    BY DEF ScreenTypes
  <2>2. History = <<wait.initial>> \o seen /\ History' = <<wait.initial>> \o Append(seen, h)
    BY <1>3 DEF History
  <2>3. <<wait.initial>> \o Append(seen, h) = Append(<<wait.initial>> \o seen, h)
    BY <1>1, <2>1
  <2> QED BY <1>1, <2>1, <2>2, <2>3
<1> QED BY <1>2, <1>3

\* A capture.
LEMMA GrabKeeps ==
    ASSUME ScreenInv, Grab
    PROVE  ScreenInv'
<1> DEFINE h == screen.hash
           skip == polled = "stable" /\ Skips(screen)
<1>1. ScreenTypes /\ h \in Nat /\ seen' = Append(seen, h)
  BY DEF ScreenInv, ScreenTypes, Grab
<1>2. /\ UNCHANGED <<wait, screen, over, polled, waited>> /\ loop' = "judge" /\ loop = "grab"
  BY DEF Grab
<1>3. /\ res'.hash = (IF skip THEN streak.last ELSE h)
      /\ res'.done = CASE polled = "change" -> h # wait.initial
                       [] polled = "stable" -> ~skip /\ Settled(streak, h)
                       [] polled = "before" -> TRUE
                       [] OTHER -> h = wait.want
      /\ res'.err = FALSE /\ res' \in [hash : Nat, done : BOOLEAN, err : BOOLEAN]
  BY <1>1 DEF Grab, Nothing, ScreenTypes, Conditions, Settled
<1>4. /\ polled # "stable" => streak' = streak
      /\ polled = "stable" /\ skip => streak' = [streak EXCEPT !.count = 0]
      /\ polled = "stable" /\ ~skip => streak' = Advance(streak, h)
  BY DEF Grab
<1>5. streak' \in [last : Nat, count : Nat] /\ corner' \in Int
  <2>1. streak' \in [last : Nat, count : Nat]
    BY <1>1, <1>4 DEF ScreenTypes, Advance
  <2>2. corner' \in Int
    BY <1>1 DEF Grab, ScreenTypes
  <2> QED BY <2>1, <2>2
<1>6. /\ History \in Seq(Nat) /\ History' = Append(History, h)
      /\ seen' \in Seq(Nat) /\ seen' # <<>> /\ Last(seen') = h
  BY <1>1, <1>2, HistoryGrows
<1>7. ScreenTypes'
  BY <1>1, <1>2, <1>3, <1>5, <1>6 DEF ScreenTypes, Loops
<1>8. ASSUME polled = "stable"
      PROVE  LastAre(streak'.count, History', streak'.last)
  <2>1. streak \in [last : Nat, count : Nat] /\ LastAre(streak.count, History, streak.last)
    BY <1>1, <1>8 DEF ScreenInv, ScreenTypes
  <2>2. CASE skip
    <3>1. streak'.count = 0 /\ streak'.last = streak.last
      BY <1>4, <1>8, <2>1, <2>2
    <3>2. Append(History, h) \in Seq(Nat)
      BY <1>1, <1>6
    <3> QED BY <1>6, <3>1, <3>2 DEF LastAre
  <2>3. CASE ~skip /\ streak.count > 0 /\ h = streak.last
    <3>1. streak'.count = streak.count + 1 /\ streak'.last = h
      BY <1>4, <1>8, <2>1, <2>3 DEF Advance
    <3> QED BY <1>1, <1>6, <2>1, <2>3, <3>1, RunGrows
  <2>4. CASE ~skip /\ ~(streak.count > 0 /\ h = streak.last)
    <3>1. streak'.count = 1 /\ streak'.last = h
      BY <1>4, <1>8, <2>4 DEF Advance
    <3> QED BY <1>1, <1>6, <3>1, RunBegins
  <2> QED BY <2>2, <2>3, <2>4
<1>9. ASSUME res'.done, polled # "before"
      PROVE  Claim(res.hash)'
  <2>1. CASE polled = "change"
    BY <1>2, <1>3, <1>6, <1>9, <2>1 DEF Claim
  <2>2. CASE polled = "stable"
    <3>1. ~skip /\ Settled(streak, h)
      BY <1>3, <1>9, <2>2
    <3>2. streak'.count >= Needed /\ res'.hash = h /\ streak'.last = h
      BY <1>1, <1>3, <1>4, <2>2, <3>1 DEF Settled, Advance, ScreenTypes
    <3>3. Needed \in Nat /\ Needed' = Needed
      BY <1>1, <1>2 DEF Needed, ScreenTypes
    <3>4. History' \in Seq(Nat) /\ streak'.count \in Nat
      BY <1>1, <1>5, <1>6
    <3>5. LastAre(Needed, History', h)
      BY <1>1, <1>8, <2>2, <3>2, <3>3, <3>4, RunShrinks
    <3> QED BY <1>2, <1>6, <2>2, <3>2, <3>3, <3>5 DEF Claim
  <2>3. CASE polled \in {"for", "holds"}
    BY <1>2, <1>3, <1>6, <1>9, <2>3 DEF Claim
  <2> QED BY <1>1, <1>9, <2>1, <2>2, <2>3 DEF ScreenTypes, Conditions
<1>10. waited.as # "ok" /\ (waited.as = "timeout" => over)
  BY <1>2 DEF ScreenInv
<1> QED BY <1>2, <1>7, <1>8, <1>9, <1>10 DEF ScreenInv

\* Where neither the wait, its streak nor its captures change and nothing is
\* decided anew.
LEMMA PollingKeeps ==
    ASSUME ScreenInv, UNCHANGED <<wait, polled, streak, seen, res>>, ScreenTypes',
           loop' = "judge" => loop = "judge" /\ waited' = waited,
           \/ waited' = waited /\ (loop' = loop \/ loop # "returned")
           \/ waited'.as = "timeout" /\ over'
           \/ waited'.as = "error"
           \/ waited'.as = "ok" /\ loop' = "returned" /\ loop = "judge" /\ res.done /\ polled # "before"
              /\ waited'.hash = res.hash,
           over => over'
    PROVE  ScreenInv'
<1>1. Needed' = Needed /\ History' = History /\ \A h : Claim(h)' = Claim(h)
  BY DEF Needed, History, Claim
<1> QED BY <1>1 DEF ScreenInv

\* The screen changes and the caller gives up.
LEMMA OutsideKeeps ==
    ASSUME ScreenInv, Repaint \/ CancelPolling
    PROVE  ScreenInv'
<1>1. ScreenTypes'
  BY ContentsAreHashed DEF ScreenInv, ScreenTypes, Repaint, CancelPolling
<1> QED BY <1>1, PollingKeeps DEF Repaint, CancelPolling

\* The top of the loop, a failed capture and the interval.
LEMMA LoopKeeps ==
    ASSUME ScreenInv, Top \/ GrabFails \/ Sleep
    PROVE  ScreenInv'
<1>1. CASE Top \/ Sleep
  <2>1. ScreenTypes'
    BY <1>1 DEF ScreenInv, ScreenTypes, Top, Sleep, Initial, Loops, Conditions
  <2>2. UNCHANGED <<wait, polled, streak, seen, res, over>>
    BY <1>1 DEF Top, Sleep
  <2>3. loop' # "judge" /\ loop # "returned"
    BY <1>1 DEF Top, Sleep
  <2>4. \/ waited' = waited
        \/ waited'.as = "timeout" /\ over'
    BY <1>1, <2>2 DEF Top, Sleep
  <2> QED BY <2>1, <2>2, <2>3, <2>4, PollingKeeps
<1>2. CASE GrabFails
  <2>1. ScreenTypes'
    BY <1>2 DEF ScreenInv, ScreenTypes, GrabFails, Nothing, Loops
  <2>2. ~res'.done /\ UNCHANGED <<wait, polled, streak, seen, waited, over>> /\ loop = "grab"
    BY <1>2 DEF GrabFails, Nothing
  <2>3. Needed' = Needed /\ History' = History
    BY <2>2 DEF Needed, History
  <2>4. waited.as # "ok"
    BY <2>2 DEF ScreenInv
  <2> QED BY <2>1, <2>2, <2>3, <2>4 DEF ScreenInv
<1> QED BY <1>1, <1>2

\* The next wait of WaitForSettle begins with what the last one found.
LEMMA NextWaitKeeps ==
    ASSUME ScreenInv, NEW next \in {"change", "stable"}, NextWait(next, res.hash), over' = over,
           screen' = screen, loop = "judge"
    PROVE  ScreenInv'
<1>1. ScreenTypes /\ waited' = waited /\ waited.as # "ok" /\ res.hash \in Nat
  BY DEF ScreenInv, ScreenTypes, NextWait
<1>2. /\ wait' = [wait EXCEPT !.initial = res.hash] /\ polled' = next /\ loop' = "top" /\ seen' = <<>>
      /\ streak' = NewStreak(res.hash) /\ corner' = -1 /\ res' = Nothing
  BY DEF NextWait
<1>3. ScreenTypes'
  <2>1. wait' \in [kind : {"for", "change", "stable", "settle", "holds"}, want : Nat, initial : Nat,
                  stable : Int, fast : BOOLEAN]
    BY <1>1, <1>2 DEF ScreenTypes
  <2>2. streak' \in [last : Nat, count : Nat]
    BY <1>1, <1>2 DEF NewStreak
  <2>3. corner' \in Int /\ seen' \in Seq(Nat)
    BY <1>2
  <2>4. res' \in [hash : Nat, done : BOOLEAN, err : BOOLEAN]
    BY <1>2 DEF Nothing
  <2> QED BY <1>1, <1>2, <2>1, <2>2, <2>3, <2>4 DEF ScreenTypes, Conditions, Loops
<1>4. LastAre(streak'.count, History', streak'.last)
  <2>1. wait'.initial = res.hash /\ streak'.last = res.hash
    BY <1>1, <1>2 DEF NewStreak, ScreenTypes
  <2>2. CASE res.hash = 0
    BY <1>2, <2>1, <2>2 DEF History, LastAre, NewStreak
  <2>3. CASE res.hash # 0
    <3>1. streak'.count = 1 /\ History' = <<res.hash>>
      BY <1>1, <1>2, <2>1, <2>3 DEF History, NewStreak
    <3> QED BY <2>1, <3>1 DEF LastAre
  <2> QED BY <2>2, <2>3
<1> QED BY <1>1, <1>2, <1>3, <1>4 DEF ScreenInv

\* What follows a capture.
LEMMA JudgeKeeps ==
    ASSUME ScreenInv, Judge
    PROVE  ScreenInv'
<1>1. ScreenTypes /\ loop = "judge" /\ UNCHANGED <<screen, over>>
  BY DEF ScreenInv, Judge
<1>2. CASE ~res.err /\ ~over /\ res.done /\ polled = "before"
  BY <1>1, <1>2, NextWaitKeeps DEF Judge
<1>3. CASE ~res.err /\ ~over /\ res.done /\ polled = "change" /\ wait.kind = "settle"
  BY <1>1, <1>3, NextWaitKeeps DEF Judge
<1>4. CASE res.err \/ over
  <2>1. /\ UNCHANGED <<wait, polled, streak, seen, res, corner>> /\ loop' = "returned"
        /\ waited' = [as |-> IF over THEN "timeout" ELSE "error", hash |-> res.hash]
    BY <1>4 DEF Judge
  <2>2. ScreenTypes'
    BY <1>1, <2>1 DEF ScreenTypes, Loops
  <2>3. (waited'.as = "timeout" /\ over') \/ waited'.as = "error"
    BY <1>1, <2>1
  <2> QED BY <1>1, <2>1, <2>2, <2>3, PollingKeeps
<1>5. CASE ~res.err /\ ~over /\ ~res.done
  <2>1. UNCHANGED <<wait, polled, streak, seen, res, corner, waited>> /\ loop' = "sleep"
    BY <1>5 DEF Judge
  <2>2. ScreenTypes'
    BY <1>1, <2>1 DEF ScreenTypes, Loops
  <2> QED BY <1>1, <2>1, <2>2, PollingKeeps
<1>6. CASE ~res.err /\ ~over /\ res.done /\ polled # "before" /\ ~(polled = "change" /\ wait.kind = "settle")
  <2>1. /\ UNCHANGED <<wait, polled, streak, seen, res, corner>> /\ loop' = "returned"
        /\ waited' = [as |-> "ok", hash |-> res.hash]
    BY <1>6 DEF Judge
  <2>2. ScreenTypes'
    BY <1>1, <2>1 DEF ScreenTypes, Loops
  <2>3. waited'.as = "ok" /\ waited'.hash = res.hash
    BY <2>1
  <2> QED BY <1>1, <1>6, <2>1, <2>2, <2>3, PollingKeeps
<1> QED BY <1>2, <1>3, <1>4, <1>5, <1>6

\* The streak begins with the hash that the caller gave.
LEMMA ScreenInitInv ==
    ASSUME ScreenInit
    PROVE  ScreenInv
<1>1. ScreenTypes
  <2>1. wait \in [kind : {"for", "change", "stable", "settle", "holds"}, want : Nat, initial : Nat,
                 stable : Int, fast : BOOLEAN]
    BY WaitsAreWaits DEF ScreenInit
  <2>2. screen \in [hash : Nat, corner : Nat]
    BY ContentsAreHashed DEF ScreenInit
  <2>3. streak \in [last : Nat, count : Nat]
    BY <2>1 DEF ScreenInit, NewStreak
  <2>4. res \in [hash : Nat, done : BOOLEAN, err : BOOLEAN]
    BY DEF ScreenInit, Nothing
  <2>5. polled \in Conditions
    BY <2>1 DEF ScreenInit, Conditions
  <2>6. corner \in Int /\ seen \in Seq(Nat) /\ over \in BOOLEAN /\ loop \in Loops
    <3>1. corner = -1 /\ seen = <<>> /\ over = FALSE /\ loop = "top"
      BY DEF ScreenInit
    <3>2. corner \in Int
      BY <3>1
    <3>3. seen \in Seq(Nat)
      BY <3>1
    <3>4. over \in BOOLEAN
      BY <3>1
    <3> QED BY <3>1, <3>2, <3>3, <3>4 DEF Loops
  <2>7. waited \in [as : {"pending", "ok", "timeout", "error"}, hash : Nat]
    BY DEF ScreenInit
  <2> QED BY <2>1, <2>2, <2>3, <2>4, <2>5, <2>6, <2>7 DEF ScreenTypes
<1>2. LastAre(streak.count, History, streak.last)
  <2>1. seen = <<>> /\ wait.initial \in Nat /\ streak = NewStreak(wait.initial)
    BY <1>1 DEF ScreenInit, ScreenTypes
  <2>2. CASE wait.initial = 0
    BY <2>1, <2>2 DEF History, LastAre, NewStreak
  <2>3. CASE wait.initial # 0
    <3>1. streak.count = 1 /\ streak.last = wait.initial /\ History = <<wait.initial>>
      BY <2>1, <2>3 DEF History, NewStreak
    <3> QED BY <2>1, <3>1 DEF LastAre
  <2> QED BY <2>1, <2>2, <2>3
<1> QED BY <1>1, <1>2 DEF ScreenInv, ScreenInit

\* Every step keeps the invariant.
LEMMA ScreenNextInv == ScreenInv /\ [ScreenNext]_screenVars => ScreenInv'
<1> SUFFICES ASSUME ScreenInv, [ScreenNext]_screenVars PROVE ScreenInv'
  OBVIOUS
<1>1. CASE UNCHANGED screenVars
  <2>1. ScreenTypes' /\ UNCHANGED <<wait, polled, streak, seen, res, over, waited, loop>>
    BY <1>1 DEF screenVars, ScreenInv, ScreenTypes
  <2> QED BY <2>1, PollingKeeps
<1> QED BY <1>1, GrabKeeps, OutsideKeeps, LoopKeeps, JudgeKeeps DEF ScreenNext

\* A visual wait that succeeds has captured what it claims, and a timeout is
\* reported only when the context has ended (poll, stableStreak.advance,
\* grabHashProbe, WaitForSettle), for any screens, waits and number of captures.
THEOREM ScreenWaits == ScreenSpec => []WaitsAreTrue
<1>1. ScreenInv => WaitsAreTrue
  BY DEF ScreenInv, WaitsAreTrue, Claim, History, ScreenTypes, Conditions
<1> QED BY <1>1, ScreenInitInv, ScreenNextInv, PTL DEF ScreenSpec

-----------------------------------------------------------------------------
(* ScreenSearch: numbers and points.                                       *)

\* A set of natural numbers has a least one.
LEMMA LeastNat ==
    ASSUME NEW T \in SUBSET Nat, T # {}
    PROVE  \E x \in T : \A y \in T : x <= y
<1> DEFINE R == OpToRel(<, Nat)
<1>1. IsWellFoundedOn(R, Nat)
  BY NatLessThanWellFounded
<1>2. \A x, y \in Nat : x < y => <<x, y>> \in R
  BY DEF OpToRel
<1> HIDE DEF R
<1>3. PICK x \in T : \A y \in T : ~(<<y, x>> \in R)
  BY <1>1, WFMin
<1>4. \A y \in T : ~(y < x)
  BY <1>2, <1>3
<1> QED
  BY <1>3, <1>4

\* So has a set of integers that are not below some integer.
LEMMA LeastInt ==
    ASSUME NEW T \in SUBSET Int, T # {}, NEW m \in Int, \A x \in T : m <= x
    PROVE  \E x \in T : \A y \in T : x <= y
<1> DEFINE U == {x - m : x \in T}
<1>1. U \in SUBSET Nat /\ U # {}
  <2>1. \A x \in T : x - m \in Nat
    OBVIOUS
  <2> QED
    BY <2>1
<1>2. PICK u \in U : \A v \in U : u <= v
  BY <1>1, LeastNat
<1>3. PICK x \in T : u = x - m
  BY <1>2
<1>4. \A y \in T : x - m <= y - m
  BY <1>2, <1>3
<1> QED
  BY <1>4

\* A set of integers that are not above some integer has a greatest one.
LEMMA GreatestInt ==
    ASSUME NEW T \in SUBSET Int, T # {}, NEW m \in Int, \A x \in T : x <= m
    PROVE  \E x \in T : \A y \in T : y <= x
<1> DEFINE U == {m - x : x \in T}
<1>1. U \in SUBSET Nat /\ U # {}
  <2>1. \A x \in T : m - x \in Nat
    OBVIOUS
  <2> QED
    BY <2>1
<1>2. PICK u \in U : \A v \in U : u <= v
  BY <1>1, LeastNat
<1>3. PICK x \in T : u = m - x
  BY <1>2
<1>4. \A y \in T : m - x <= m - y
  BY <1>2, <1>3
<1> QED
  BY <1>4

\* Finitely many numbers lie between two of them.
LEMMA SeqIsBounded ==
    ASSUME NEW n \in Nat, NEW s, \A i \in 1..n : s[i] \in Int
    PROVE  \E a, b \in Int : \A i \in 1..n : a <= s[i] /\ s[i] <= b
<1> DEFINE Bounded(k) == \E a, b \in Int : \A i \in 1..k : a <= s[i] /\ s[i] <= b
           B == {k \in 0..n : ~Bounded(k)}
<1>1. Bounded(0)
  BY 0 \in Int, \A i \in 1..0 : FALSE
<1>2. ASSUME NEW k \in Nat, k + 1 <= n, Bounded(k) PROVE Bounded(k + 1)
  <2>1. PICK a, b \in Int : \A i \in 1..k : a <= s[i] /\ s[i] <= b
    BY <1>2
  <2>2. s[k + 1] \in Int
    BY <1>2
  <2> DEFINE c == Smaller(a, s[k + 1])
             d == Larger(b, s[k + 1])
  <2>3. c \in Int /\ d \in Int /\ c <= a /\ c <= s[k + 1] /\ b <= d /\ s[k + 1] <= d
    BY <2>1, <2>2 DEF Smaller, Larger
  <2> HIDE DEF c, d
  <2>4. \A i \in 1..(k + 1) : c <= s[i] /\ s[i] <= d
    <3> TAKE i \in 1..(k + 1)
    <3>1. CASE i = k + 1
      BY <2>3, <3>1
    <3>2. CASE i # k + 1
      <4>1. i \in 1..k /\ i \in 1..n
        BY <1>2, <3>2
      <4>2. s[i] \in Int /\ a <= s[i] /\ s[i] <= b
        BY <2>1, <4>1
      <4> QED
        BY <2>1, <2>3, <4>2
    <3> QED
      BY <3>1, <3>2
  <2> QED
    BY <2>3, <2>4
<1> HIDE DEF Bounded
<1>3. B = {}
  <2>1. SUFFICES ASSUME B # {} PROVE FALSE
    OBVIOUS
  <2>2. B \in SUBSET Nat
    OBVIOUS
  <2>3. PICK k \in B : \A j \in B : k <= j
    BY <2>1, <2>2, LeastNat
  <2>4. k \in 0..n /\ ~Bounded(k) /\ k # 0
    BY <1>1, <2>3
  <2>5. k - 1 \in Nat /\ (k - 1) + 1 = k /\ k - 1 \in 0..n /\ ~(k <= k - 1)
    BY <2>4
  <2>6. Bounded(k - 1)
    BY <2>3, <2>5
  <2>7. Bounded((k - 1) + 1)
    BY <1>2, <2>4, <2>5, <2>6
  <2> QED
    BY <2>4, <2>5, <2>7
<1>4. Bounded(n)
  BY <1>3
<1> QED
  BY <1>4 DEF Bounded

\* A finite set of integers has a least and a greatest one: Min and Max.
LEMMA FiniteIsBounded ==
    ASSUME NEW T \in SUBSET Int, IsFiniteSet(T), T # {}
    PROVE  /\ Min(T) \in T /\ \A y \in T : Min(T) <= y
           /\ Max(T) \in T /\ \A y \in T : y <= Max(T)
<1>1. PICK s \in Seq(T) : \A x \in T : \E n \in 1..Len(s) : s[n] = x
  BY DEF IsFiniteSet
<1>2. Len(s) \in Nat
  BY <1>1
<1>3. \A n \in 1..Len(s) : s[n] \in Int
  <2>1. \A n \in 1..Len(s) : s[n] \in T
    BY <1>1, ElementOfSeq
  <2> QED
    BY <2>1
<1>4. PICK a, b \in Int : \A x \in T : a <= x /\ x <= b
  <2>1. PICK a, b \in Int : \A n \in 1..Len(s) : a <= s[n] /\ s[n] <= b
    BY <1>2, <1>3, SeqIsBounded
  <2>2. \A x \in T : a <= x /\ x <= b
    BY <1>1, <2>1
  <2> QED
    BY <2>2
<1>5. PICK x \in T : \A y \in T : x <= y
  BY <1>4, LeastInt
<1>6. PICK z \in T : \A y \in T : y <= z
  BY <1>4, GreatestInt
<1> QED
  BY <1>5, <1>6 DEF Min, Max

\* First is the first of the points.
LEMMA FirstIs ==
    ASSUME NEW ps \in SUBSET (Int \X Int), NEW p \in ps, \A q \in ps \ {p} : Before(p, q)
    PROVE  First(ps) = p
<1>1. \A q \in ps : (\A r \in ps \ {q} : Before(q, r)) => q = p
  <2> SUFFICES ASSUME NEW q \in ps, q # p, \A r \in ps \ {q} : Before(q, r) PROVE FALSE
    OBVIOUS
  <2>1. Before(p, q) /\ Before(q, p)
    OBVIOUS
  <2>2. p[1] \in Int /\ p[2] \in Int /\ q[1] \in Int /\ q[2] \in Int
    OBVIOUS
  <2> QED
    BY <2>1, <2>2 DEF Before
<1> QED
  BY <1>1 DEF First

\* Points that are not left of and not above some place have a first one.
LEMMA FirstExists ==
    ASSUME NEW ps \in SUBSET (Int \X Int), ps # {}, NEW a \in Int, NEW b \in Int,
           \A p \in ps : a <= p[1] /\ b <= p[2]
    PROVE  First(ps) \in ps /\ \A q \in ps \ {First(ps)} : Before(First(ps), q)
<1> DEFINE Ys == {p[2] : p \in ps}
<1>1. \A p \in ps : p[1] \in Int /\ p[2] \in Int /\ p = <<p[1], p[2]>>
  OBVIOUS
<1>2. PICK y \in Ys : \A z \in Ys : y <= z
  <2>1. Ys \in SUBSET Int /\ Ys # {} /\ \A z \in Ys : b <= z
    BY <1>1
  <2> QED
    BY <2>1, LeastInt
<1> DEFINE Xs == {p[1] : p \in {r \in ps : r[2] = y}}
<1>3. PICK x \in Xs : \A z \in Xs : x <= z
  <2>1. Xs \in SUBSET Int /\ Xs # {} /\ \A z \in Xs : a <= z
    BY <1>1, <1>2
  <2> QED
    BY <2>1, LeastInt
<1>4. PICK p \in ps : p[1] = x /\ p[2] = y
  BY <1>3
<1>5. \A q \in ps \ {p} : Before(p, q)
  <2> TAKE q \in ps \ {p}
  <2>1. y <= q[2] /\ q[1] \in Int /\ q[2] \in Int /\ p[1] \in Int /\ p[2] \in Int
    BY <1>1, <1>2, <1>4
  <2>2. q[2] = y => x <= q[1] /\ q[1] # x
    BY <1>1, <1>3, <1>4
  <2> QED
    BY <1>4, <2>1, <2>2 DEF Before
<1>6. First(ps) = p
  BY <1>5, FirstIs
<1> QED
  BY <1>5, <1>6

\* Finitely many points lie in a rectangle.
LEMMA PointsAreBounded ==
    ASSUME NEW ps \in SUBSET (Int \X Int), IsFiniteSet(ps)
    PROVE  \E a, b, c, d \in Int : \A p \in ps : a <= p[1] /\ p[1] <= b /\ c <= p[2] /\ p[2] <= d
<1>1. PICK s \in Seq(ps) : \A p \in ps : \E n \in 1..Len(s) : s[n] = p
  BY DEF IsFiniteSet
<1>2. Len(s) \in Nat
  BY <1>1
<1>3. \A n \in 1..Len(s) : s[n][1] \in Int /\ s[n][2] \in Int
  <2>1. \A n \in 1..Len(s) : s[n] \in ps
    BY <1>1, ElementOfSeq
  <2> QED
    BY <2>1
<1> DEFINE xs == [n \in 1..Len(s) |-> s[n][1]]
           ys == [n \in 1..Len(s) |-> s[n][2]]
<1>4. \A n \in 1..Len(s) : xs[n] = s[n][1] /\ xs[n] \in Int /\ ys[n] = s[n][2] /\ ys[n] \in Int
  BY <1>3
<1> HIDE DEF xs, ys
<1>5. PICK a, b \in Int : \A n \in 1..Len(s) : a <= xs[n] /\ xs[n] <= b
  BY <1>2, <1>4, SeqIsBounded
<1>6. PICK c, d \in Int : \A n \in 1..Len(s) : c <= ys[n] /\ ys[n] <= d
  BY <1>2, <1>4, SeqIsBounded
<1>7. \A p \in ps : a <= p[1] /\ p[1] <= b /\ c <= p[2] /\ p[2] <= d
  <2> TAKE p \in ps
  <2>1. PICK n \in 1..Len(s) : s[n] = p
    BY <1>1
  <2> QED
    BY <1>4, <1>5, <1>6, <2>1
<1> QED
  BY <1>7

\* Finitely many points have a last one.
LEMMA LastExists ==
    ASSUME NEW ps \in SUBSET (Int \X Int), ps # {}, IsFiniteSet(ps)
    PROVE  \E p \in ps : \A q \in ps \ {p} : Before(q, p)
<1>0. PICK a, b, c, d \in Int : \A p \in ps : a <= p[1] /\ p[1] <= b /\ c <= p[2] /\ p[2] <= d
  BY PointsAreBounded
<1> DEFINE Ys == {p[2] : p \in ps}
<1>1. \A p \in ps : p[1] \in Int /\ p[2] \in Int /\ p = <<p[1], p[2]>>
  OBVIOUS
<1>2. PICK y \in Ys : \A z \in Ys : z <= y
  <2>1. Ys \in SUBSET Int /\ Ys # {} /\ \A z \in Ys : z <= d
    BY <1>0, <1>1
  <2> QED
    BY <2>1, GreatestInt
<1> DEFINE Xs == {p[1] : p \in {r \in ps : r[2] = y}}
<1>3. PICK x \in Xs : \A z \in Xs : z <= x
  <2>1. Xs \in SUBSET Int /\ Xs # {} /\ \A z \in Xs : z <= b
    BY <1>0, <1>1, <1>2
  <2> QED
    BY <2>1, GreatestInt
<1>4. PICK p \in ps : p[1] = x /\ p[2] = y
  BY <1>3
<1>5. \A q \in ps \ {p} : Before(q, p)
  <2> TAKE q \in ps \ {p}
  <2>1. q[2] <= y /\ q[1] \in Int /\ q[2] \in Int /\ p[1] \in Int /\ p[2] \in Int
    BY <1>1, <1>2, <1>4
  <2>2. q[2] = y => q[1] <= x /\ q[1] # x
    BY <1>1, <1>3, <1>4
  <2> QED
    BY <1>4, <2>1, <2>2 DEF Before
<1> QED
  BY <1>5

\* Of more than n points, one has exactly n points before it.
LEMMA NthExists ==
    ASSUME NEW ps \in SUBSET (Int \X Int), IsFiniteSet(ps), NEW n \in Nat, Cardinality(ps) > n
    PROVE  \E p \in ps : Cardinality({q \in ps : Before(q, p)}) = n
<1> DEFINE Earlier(p) == {q \in ps : Before(q, p)}
           Ranks == {Cardinality(Earlier(p)) : p \in ps}
           High == {k \in Ranks : k >= n}
<1>1. \A p \in ps : p[1] \in Int /\ p[2] \in Int /\ p = <<p[1], p[2]>>
  OBVIOUS
<1>2. \A p \in ps : IsFiniteSet(Earlier(p)) /\ Cardinality(Earlier(p)) \in Nat
  BY FS_Subset, FS_CardinalityType
<1>3. High \in SUBSET Nat /\ High # {}
  <2>1. ps # {}
    BY FS_EmptySet
  <2>2. PICK p \in ps : \A q \in ps \ {p} : Before(q, p)
    BY <2>1, LastExists
  <2>3. Earlier(p) = ps \ {p}
    <3>1. ~Before(p, p)
      BY <1>1 DEF Before
    <3> QED
      BY <2>2, <3>1
  <2>4. Cardinality(Earlier(p)) = Cardinality(ps) - 1 /\ Cardinality(ps) \in Nat
    BY <2>3, FS_RemoveElement, FS_CardinalityType
  <2>5. Cardinality(Earlier(p)) >= n
    BY <2>4
  <2> HIDE DEF Earlier
  <2>6. Cardinality(Earlier(p)) \in High
    BY <2>5
  <2>7. High \in SUBSET Nat
    BY <1>2
  <2> QED
    BY <2>6, <2>7
<1>4. PICK k \in High : \A j \in High : k <= j
  BY <1>3, LeastNat
<1>5. PICK p \in ps : Cardinality(Earlier(p)) = k
  BY <1>4
<1>6. k \in Nat /\ k >= n
  BY <1>3, <1>4
<1>7. k = n
  <2> SUFFICES ASSUME k > n PROVE FALSE
    BY <1>6
  <2>1. Earlier(p) # {} /\ Earlier(p) \in SUBSET (Int \X Int)
    BY <1>5, <1>6, FS_EmptySet
  <2>2. PICK q \in Earlier(p) : \A r \in Earlier(p) \ {q} : Before(r, q)
    BY <1>2, <2>1, LastExists
  <2>3. q \in ps /\ Before(q, p)
    BY <2>2
  <2>4. \A r \in ps : Before(r, q) => Before(r, p)
    BY <1>1, <2>3 DEF Before
  <2>5. ~Before(q, q)
    BY <1>1, <2>3 DEF Before
  <2>6. Earlier(q) = Earlier(p) \ {q}
    BY <2>2, <2>4, <2>5
  <2>7. Cardinality(Earlier(q)) = k - 1
    BY <1>2, <1>5, <2>2, <2>6, FS_RemoveElement
  <2> HIDE DEF Earlier
  <2>8. k - 1 \in High
    BY <1>6, <2>3, <2>7
  <2> QED
    BY <1>4, <1>6, <2>8
<1> QED
  BY <1>5, <1>7

\* The best score of an interval is a score.
LEMMA BestIs ==
    ASSUME NEW a \in Int, NEW b \in Int, a <= b, NEW score \in [a..b -> Int]
    PROVE  Best(score) \in a..b
<1> DEFINE scores == {score[i] : i \in a..b}
           s == [n \in 1..(b - a + 1) |-> score[a + n - 1]]
<1>1. b - a + 1 \in Nat /\ \A n \in 1..(b - a + 1) : s[n] \in Int
  OBVIOUS
<1>2. \A i \in a..b : (i - a + 1) \in 1..(b - a + 1) /\ s[i - a + 1] = score[i]
  OBVIOUS
<1> HIDE DEF s
<1>3. PICK c, d \in Int : \A n \in 1..(b - a + 1) : c <= s[n] /\ s[n] <= d
  BY <1>1, SeqIsBounded
<1>4. PICK top \in scores : \A x \in scores : x <= top
  <2>1. scores \in SUBSET Int /\ scores # {}
    OBVIOUS
  <2>2. \A x \in scores : x <= d
    BY <1>2, <1>3
  <2> QED
    BY <2>1, <2>2, GreatestInt
<1> DEFINE best == {i \in a..b : score[i] = top}
<1>5. PICK i \in best : \A j \in best : i <= j
  <2>1. best \in SUBSET Int /\ best # {} /\ \A j \in best : a <= j
    BY <1>4
  <2> QED
    BY <2>1, LeastInt
<1>6. \A j \in a..b : score[j] < score[i] \/ (score[j] = score[i] /\ j >= i)
  <2> TAKE j \in a..b
  <2>1. score[j] \in Int /\ score[i] = top /\ top \in Int /\ score[j] <= top
    BY <1>4, <1>5
  <2>2. score[j] = top => i <= j
    BY <1>5
  <2> QED
    BY <1>5, <2>1, <2>2
<1>7. DOMAIN score = a..b /\ i \in a..b
  BY <1>5
<1> QED
  BY <1>6, <1>7 DEF Best

\* Whole pixels of a row: where byte n of it is.
LEMMA PixelOf ==
    ASSUME NEW w \in Int, NEW c \in Nat \ {0}, NEW n \in 0..(w * c - 1)
    PROVE  n \div c \in 0..(w - 1) /\ n % c \in 0..(c - 1)
<1>1. n = c * (n \div c) + (n % c) /\ n % c \in 0..(c - 1) /\ n \div c \in Int
  OBVIOUS
<1>2. n \div c >= 0
  <2>1. SUFFICES ASSUME n \div c <= -1 PROVE FALSE
    BY <1>1
  <2> DEFINE k == n \div c
  <2>2. k \in Int /\ k <= -1 /\ c \in Int /\ c >= 1
    BY <1>1, <2>1
  <2> HIDE DEF k
  <2>3. c * k <= -c
    BY <2>2
  <2> QED
    BY <1>1, <2>3 DEF k
<1>3. n \div c <= w - 1
  <2>1. SUFFICES ASSUME n \div c >= w PROVE FALSE
    BY <1>1
  <2> DEFINE k == n \div c
  <2>2. k \in Int /\ k >= w /\ c \in Int /\ c >= 1
    BY <1>1, <2>1
  <2> HIDE DEF k
  <2>3. c * k >= c * w
    BY <2>2
  <2>4. c * w = w * c
    BY <2>2
  <2> QED
    BY <1>1, <2>3, <2>4 DEF k
<1> QED
  BY <1>1, <1>2, <1>3

\* Whole pixels further on in a row
LEMMA PixelsOn ==
    ASSUME NEW d \in Int, NEW c \in Nat \ {0}, NEW n \in Int
    PROVE  (d * c + n) \div c = d + n \div c /\ (d * c + n) % c = n % c
<1> DEFINE m == d * c + n
<1>1. n = c * (n \div c) + (n % c) /\ n % c \in 0..(c - 1) /\ n \div c \in Int
  OBVIOUS
<1>2. m \in Int
  OBVIOUS
<1>3. m = c * (m \div c) + (m % c) /\ m % c \in 0..(c - 1) /\ m \div c \in Int
  BY <1>2
<1> DEFINE e == m \div c - d - n \div c
<1>4. e \in Int /\ c * e = (n % c) - (m % c)
  BY <1>1, <1>3
<1> HIDE DEF e
<1>5. e = 0
  <2>1. (n % c) - (m % c) < c /\ (n % c) - (m % c) > -c
    BY <1>1, <1>3
  <2>2. c * e < c /\ c * e > -c
    BY <1>4, <2>1
  <2> QED
    BY <1>4, <2>2
<1> QED
  BY <1>1, <1>3, <1>4, <1>5 DEF e

-----------------------------------------------------------------------------
(* ScreenSearch: the exact search.                                         *)

\* A part of a sequence
LEMMA PartOf ==
    ASSUME NEW s \in Seq(Int), NEW a \in Nat, NEW n \in Nat \ {0}, a + n <= Len(s)
    PROVE  /\ SubSeq(s, a + 1, a + n) \in Seq(Int) /\ Len(SubSeq(s, a + 1, a + n)) = n
           /\ \A k \in 1..n : SubSeq(s, a + 1, a + n)[k] = s[a + k]
<1> DEFINE i == a + 1
           j == a + n
<1>1. i \in Int /\ j \in Int /\ i <= j /\ j - i + 1 = n /\ \A k \in 1..n : i + k - 1 = a + k
  OBVIOUS
<1>2. \A k \in i..j : s[k] \in Int
  <2>1. \A k \in i..j : k \in 1..Len(s)
    BY LenProperties
  <2> QED
    BY <2>1, ElementOfSeq
<1> HIDE DEF i, j
<1>3. /\ SubSeq(s, i, j) \in Seq(Int)
      /\ Len(SubSeq(s, i, j)) = IF i <= j THEN j - i + 1 ELSE 0
      /\ \A k \in 1..(j - i + 1) : SubSeq(s, i, j)[k] = s[i + k - 1]
  BY <1>1, <1>2, SubSeqProperties
<1>4. /\ SubSeq(s, i, j) \in Seq(Int) /\ Len(SubSeq(s, i, j)) = n
      /\ \A k \in 1..n : SubSeq(s, i, j)[k] = s[a + k]
  BY <1>1, <1>3
<1> QED
  BY <1>4 DEF i, j

\* Two images one of which is no larger than the other
Located(src, ref) ==
    /\ IsImage(src, Channels) /\ IsImage(ref, Channels)
    /\ Dx(ref.b) <= Dx(src.b) /\ Dy(ref.b) <= Dy(src.b)

\* A part of a row of the reference
IsAnchor(ref, anchor) ==
    /\ anchor.row \in 0..(Dy(ref.b) - 1)
    /\ anchor.start \in Nat /\ anchor.len \in Nat \ {0}
    /\ anchor.start + anchor.len <= Dx(ref.b) * Channels

\* The limits of the search are positive.
LEMMA ChannelsPositive == Channels \in Nat \ {0} /\ Fallback \in Nat \ {0} /\ Window \in Nat \ {0}
BY SearchLimitsArePositive

\* The sides of an image are numbers, and it is not empty.
LEMMA SidesOf ==
    ASSUME NEW img, NEW n, IsImage(img, n)
    PROVE  /\ img.b.x0 \in Int /\ img.b.y0 \in Int /\ img.b.x1 \in Int /\ img.b.y1 \in Int
           /\ Dx(img.b) \in Nat \ {0} /\ Dy(img.b) \in Nat \ {0}
           /\ Dx(img.b) = img.b.x1 - img.b.x0 /\ Dy(img.b) = img.b.y1 - img.b.y0
<1>1. img.b.x0 \in Int /\ img.b.y0 \in Int /\ img.b.x1 \in Int /\ img.b.y1 \in Int
  BY DEF IsImage, Rects
<1> QED
  BY <1>1 DEF IsImage, Empty, Dx, Dy

\* A row has a number in each of its bytes.
LEMMA BytesAre ==
    ASSUME NEW img, IsImage(img, Channels), NEW y \in img.b.y0 .. img.b.y1 - 1
    PROVE  /\ Bytes(img, y) \in Seq(Int) /\ Len(Bytes(img, y)) = Dx(img.b) * Channels
           /\ Dx(img.b) * Channels \in Nat \ {0}
           /\ \A i \in 1..(Dx(img.b) * Channels) :
                /\ Bytes(img, y)[i] =
                        img.px[<<img.b.x0 + (i - 1) \div Channels, y>>][((i - 1) % Channels) + 1]
                /\ Bytes(img, y)[i] \in Int
<1> DEFINE w == Dx(img.b)
<1>1. Channels \in Nat \ {0} /\ w \in Nat \ {0} /\ img.b.x0 \in Int /\ img.b.y0 \in Int
      /\ img.b.x1 = img.b.x0 + w
  BY ChannelsPositive, SidesOf
<1>2. w * Channels \in Nat \ {0}
  BY <1>1
<1>3. \A i \in 1..(w * Channels) :
        img.px[<<img.b.x0 + (i - 1) \div Channels, y>>][((i - 1) % Channels) + 1] \in Int
  <2> TAKE i \in 1..(w * Channels)
  <2> DEFINE n == i - 1
             d == n \div Channels
             e == n % Channels
  <2>1. n \in 0..(w * Channels - 1)
    BY <1>2
  <2>2. w \in Int /\ Channels \in Nat \ {0}
    BY <1>1
  <2> HIDE DEF n, w
  <2>3. d \in 0..(w - 1) /\ e \in 0..(Channels - 1)
    BY <2>1, <2>2, PixelOf
  <2> HIDE DEF d, e
  <2>4. <<img.b.x0 + d, y>> \in Points(img.b)
    BY <1>1, <2>3 DEF Points, w
  <2>5. img.px[<<img.b.x0 + d, y>>] \in [1..Channels -> Int]
    BY <2>4 DEF IsImage
  <2>6. e + 1 \in 1..Channels
    BY <1>1, <2>3
  <2>7. img.px[<<img.b.x0 + d, y>>][e + 1] \in Int
    BY <2>5, <2>6
  <2> QED
    BY <2>7 DEF d, e, n
<1> HIDE DEF w
<1>4. Bytes(img, y) = [i \in 1..(w * Channels) |->
          img.px[<<img.b.x0 + (i - 1) \div Channels, y>>][((i - 1) % Channels) + 1]]
  BY DEF Bytes, w
<1>5. Bytes(img, y) \in [1..(w * Channels) -> Int]
  BY <1>3, <1>4
<1>6. Bytes(img, y) \in Seq(Int) /\ Len(Bytes(img, y)) = w * Channels
  BY <1>2, <1>5, LenProperties, SeqDef
<1> QED
  BY <1>2, <1>3, <1>4, <1>6 DEF w

\* Where all of the reference is, the anchor is.
LEMMA AnchorIsThere ==
    ASSUME NEW src, NEW ref, Located(src, ref), NEW anchor, IsAnchor(ref, anchor),
           NEW p \in Places(src, ref), MatchAt(src, ref, p)
    PROVE  p \in Candidates(src, ref, anchor)
<1> DEFINE C == Channels
           w == Dx(ref.b)
           v == Dx(src.b)
           dx == p[1] - src.b.x0
           at == dx * C + anchor.start
           ry == ref.b.y0 + anchor.row
           sy == p[2] + anchor.row
           start == anchor.start
           len == anchor.len
<1>1. C \in Nat \ {0} /\ w \in Nat \ {0} /\ v \in Nat \ {0} /\ w <= v
  BY ChannelsPositive, SidesOf DEF Located
<1>2. /\ src.b.x0 \in Int /\ src.b.y0 \in Int /\ ref.b.x0 \in Int /\ ref.b.y0 \in Int
      /\ src.b.x1 = src.b.x0 + v /\ src.b.y1 = src.b.y0 + Dy(src.b) /\ Dy(src.b) \in Nat
      /\ ref.b.x1 = ref.b.x0 + w /\ ref.b.y1 = ref.b.y0 + Dy(ref.b) /\ Dy(ref.b) \in Nat
  BY SidesOf DEF Located
<1>3. /\ p[1] \in Int /\ p[2] \in Int /\ dx \in 0..(v - w)
      /\ p[2] >= src.b.y0 /\ p[2] <= src.b.y1 - Dy(ref.b)
  BY <1>1, <1>2 DEF Places
<1>4. start \in Nat /\ len \in Nat \ {0} /\ start + len <= w * C /\ anchor.row \in 0..(Dy(ref.b) - 1)
  BY DEF IsAnchor
<1>5. sy \in src.b.y0 .. src.b.y1 - 1 /\ ry \in ref.b.y0 .. ref.b.y1 - 1
  BY <1>2, <1>3, <1>4
<1> DEFINE row == Bytes(src, sy)
           mark == Bytes(ref, ry)
<1>6. /\ row \in Seq(Int) /\ Len(row) = v * C
      /\ \A i \in 1..(v * C) : row[i] = src.px[<<src.b.x0 + (i - 1) \div C, sy>>][((i - 1) % C) + 1]
  BY <1>5, BytesAre DEF Located
<1>7. /\ mark \in Seq(Int) /\ Len(mark) = w * C
      /\ \A i \in 1..(w * C) : mark[i] = ref.px[<<ref.b.x0 + (i - 1) \div C, ry>>][((i - 1) % C) + 1]
  BY <1>5, BytesAre DEF Located
<1> HIDE DEF row, mark, w, v, C, len, start
<1>8. dx * C \in Nat /\ at \in Nat /\ v * C \in Nat /\ w * C \in Nat /\ dx * C <= v * C - w * C
  <2>1. dx \in Int /\ dx >= 0 /\ dx <= v - w
    BY <1>1, <1>3
  <2> HIDE DEF dx
  <2>2. dx * C \in Nat /\ dx * C <= (v - w) * C
    BY <1>1, <2>1
  <2>3. (v - w) * C = v * C - w * C
    BY <1>1
  <2>4. v * C \in Nat /\ w * C \in Nat
    BY <1>1
  <2>5. dx * C + anchor.start \in Nat
    BY <1>4, <2>2 DEF start
  <2> QED
    BY <2>2, <2>3, <2>4, <2>5
<1>9. at + len <= v * C /\ at \in 0..(Len(row) - len) /\ at = dx * C + start
  <2>1. at = dx * C + start
    BY DEF start
  <2> HIDE DEF at, dx
  <2>2. at + len <= v * C
    BY <1>4, <1>8, <2>1
  <2> QED
    BY <1>4, <1>6, <1>8, <2>1, <2>2
<1>10. dx \in Int /\ p[1] = src.b.x0 + dx /\ sy = p[2] + anchor.row /\ ry \in Int /\ sy \in Int
  BY <1>2, <1>3, <1>4
<1> HIDE DEF at, dx, sy, ry
<1>11. ASSUME NEW k \in 1..len
       PROVE  row[at + k] = mark[start + k]
  <2> DEFINE n == start + k - 1
             d == n \div C
             e == n % C
  <2>1. n \in 0..(w * C - 1) /\ start + k \in 1..(w * C) /\ at + k \in 1..(v * C)
    <3> DEFINE W == w * C
               V == v * C
    <3>1. W \in Nat /\ V \in Nat /\ start + len <= W /\ at + len <= V /\ at \in Nat /\ start \in Nat /\ len \in Nat
      BY <1>4, <1>8, <1>9
    <3> HIDE DEF W, V
    <3>2. n \in 0..(W - 1) /\ start + k \in 1..W /\ at + k \in 1..V
      BY <3>1
    <3> QED
      BY <3>2 DEF W, V
  <2>2. at + k - 1 = dx * C + n /\ (start + k) - 1 = n /\ n \in Int
    <3> DEFINE far == dx * C
    <3>1. far \in Nat /\ at = far + start /\ start \in Nat
      BY <1>4, <1>8, <1>9
    <3> HIDE DEF far
    <3>2. at + k - 1 = far + n /\ (start + k) - 1 = n /\ n \in Int
      BY <3>1
    <3> QED
      BY <3>2 DEF far
  <2>3. C \in Nat \ {0} /\ w \in Int
    BY <1>1
  <2> HIDE DEF n
  <2>4. d \in 0..(w - 1) /\ e \in 0..(C - 1)
    BY <2>1, <2>3, PixelOf
  <2>5. (dx * C + n) \div C = dx + d /\ (dx * C + n) % C = e
    BY <1>10, <2>2, <2>3, PixelsOn
  <2> HIDE DEF d, e
  <2>6. mark[start + k] = ref.px[<<ref.b.x0 + d, ry>>][e + 1]
    BY <1>7, <2>1, <2>2 DEF d, e
  <2>7. row[at + k] = src.px[<<src.b.x0 + (dx + d), sy>>][e + 1]
    <3>1. row[at + k] = src.px[<<src.b.x0 + (at + k - 1) \div C, sy>>][((at + k - 1) % C) + 1]
      <4>1. \A i \in 1..(v * C) : row[i] = src.px[<<src.b.x0 + (i - 1) \div C, sy>>][((i - 1) % C) + 1]
        BY <1>6
      <4>2. at + k \in 1..(v * C)
        BY <2>1
      <4> DEFINE m == at + k
      <4> HIDE DEF m
      <4>3. row[m] = src.px[<<src.b.x0 + (m - 1) \div C, sy>>][((m - 1) % C) + 1]
        BY <4>1, <4>2 DEF m
      <4>4. m = at + k /\ m - 1 = at + k - 1
        BY <1>4, <1>8 DEF m
      <4> QED
        BY <4>3, <4>4, Zenon
    <3>2. (at + k - 1) \div C = dx + d /\ (at + k - 1) % C = e
      BY <2>2, <2>5
    <3> QED
      BY <3>1, <3>2
  <2> DEFINE q == <<ref.b.x0 + d, ry>>
  <2>8. q \in Points(ref.b)
    BY <1>1, <1>2, <1>5, <1>10, <2>4 DEF Points
  <2>9. src.px[<<p[1] + q[1] - ref.b.x0, p[2] + q[2] - ref.b.y0>>] = ref.px[q]
    BY <2>8 DEF MatchAt
  <2>10. p[1] + q[1] - ref.b.x0 = src.b.x0 + (dx + d) /\ p[2] + q[2] - ref.b.y0 = sy
    BY <1>2, <1>3, <1>4, <1>10, <2>4 DEF ry
  <2> QED
    BY <2>6, <2>7, <2>9, <2>10
<1>12. SubSeq(row, at + 1, at + len) = SubSeq(mark, start + 1, start + len)
  <2>1. at \in Nat /\ start \in Nat /\ len \in Nat \ {0} /\ at + len <= Len(row) /\ start + len <= Len(mark)
    BY <1>4, <1>6, <1>7, <1>8, <1>9
  <2>2. /\ SubSeq(row, at + 1, at + len) \in Seq(Int) /\ Len(SubSeq(row, at + 1, at + len)) = len
        /\ \A k \in 1..len : SubSeq(row, at + 1, at + len)[k] = row[at + k]
    BY <1>6, <2>1, PartOf
  <2>3. /\ SubSeq(mark, start + 1, start + len) \in Seq(Int) /\ Len(SubSeq(mark, start + 1, start + len)) = len
        /\ \A k \in 1..len : SubSeq(mark, start + 1, start + len)[k] = mark[start + k]
    BY <1>7, <2>1, PartOf
  <2> QED
    BY <1>11, <2>2, <2>3, SeqEqual
<1>13. at \in Occurrences(src, ref, anchor, p[2])
  BY <1>9, <1>12 DEF Occurrences, Anchored, row, mark, start, len, sy, ry
<1>14. at >= start /\ (at - start) % C = 0 /\ (at - start) \div C = dx
  <2>1. at - start = dx * C + 0 /\ at - start = dx * C /\ at >= start
    BY <1>4, <1>8, <1>9
  <2>2. 0 % C = 0 /\ 0 \div C = 0 /\ C \in Nat \ {0} /\ 0 \in Int
    BY <1>1
  <2>3. (dx * C + 0) \div C = dx + 0 \div C /\ (dx * C + 0) % C = 0 % C
    BY <1>10, <2>2, PixelsOn
  <2> QED
    BY <1>10, <2>1, <2>2, <2>3
<1>15. p[1] = src.b.x0 + (at - start) \div C
  BY <1>10, <1>14
<1> QED
  BY <1>13, <1>14, <1>15 DEF Candidates, C, start

\* The first anchor, the reference's first pixel, is one.
LEMMA FirstIsAnchor ==
    ASSUME NEW ref, IsImage(ref, Channels)
    PROVE  IsAnchor(ref, FirstAnchor(ref))
<1>1. Channels \in Nat \ {0} /\ Dx(ref.b) \in Nat \ {0} /\ Dy(ref.b) \in Nat \ {0}
  BY ChannelsPositive, SidesOf
<1>2. Channels <= Dx(ref.b) * Channels
  BY <1>1
<1> QED
  BY <1>1, <1>2 DEF IsAnchor, FirstAnchor

\* The changes between neighbours are counted.
LEMMA Counted ==
    ASSUME NEW a \in Int, NEW b \in Int, NEW T \in SUBSET (a..b)
    PROVE  Cardinality(T) \in Nat
BY FS_Interval, FS_Subset, FS_CardinalityType

\* selectLocateAnchor chooses a row of the reference.
LEMMA RowIsChosen ==
    ASSUME NEW ref, IsImage(ref, Channels), Dy(ref.b) > 1
    PROVE  Best(RowScores(ref)) \in 1..(Dy(ref.b) - 1)
<1> DEFINE top == Dy(ref.b) - 1
           changes(r) == {x \in ref.b.x0 + 1 .. ref.b.x1 - 1 :
                            ref.px[<<x, ref.b.y0 + r>>] # ref.px[<<x - 1, ref.b.y0 + r>>]}
<1>1. top \in Int /\ 1 <= top /\ 1 \in Int
  BY SidesOf
<1>2. \A r : Cardinality(changes(r)) \in Int
  <2> TAKE r
  <2>1. ref.b.x0 + 1 \in Int /\ ref.b.x1 - 1 \in Int
    BY SidesOf
  <2>2. changes(r) \in SUBSET (ref.b.x0 + 1 .. ref.b.x1 - 1)
    OBVIOUS
  <2> HIDE DEF changes
  <2>3. Cardinality(changes(r)) \in Nat
    BY <2>1, <2>2, Counted
  <2> QED
    BY <2>3
<1>3. RowScores(ref) = [r \in 1..top |-> Cardinality(changes(r))]
  BY DEF RowScores
<1> HIDE DEF changes, top
<1>4. RowScores(ref) \in [1..top -> Int]
  BY <1>2, <1>3
<1>5. Best(RowScores(ref)) \in 1..top
  BY <1>1, <1>4, BestIs
<1> QED
  BY <1>5 DEF top

\* selectLocateAnchor chooses a window inside its row.
LEMMA WindowIsChosen ==
    ASSUME NEW bytes \in Seq(Int), NEW len \in 1..Len(bytes), NEW pixel \in [1..Channels -> Int]
    PROVE  Best(WindowScores(bytes, len, pixel)) \in 0..(Len(bytes) - len)
<1> DEFINE top == Len(bytes) - len
           changes(s) == {i \in 1..(len - 1) : bytes[s + i + 1] # bytes[s + i]}
           score(s) == Abs(bytes[s + 1] - pixel[(s % Channels) + 1]) * len + Cardinality(changes(s))
<1>0. Len(bytes) \in Nat /\ len \in Nat /\ len >= 1 /\ len <= Len(bytes)
  BY LenProperties
<1>1. top \in Int /\ 0 <= top /\ 0 \in Int
  BY <1>0
<1>2. \A s \in 0..top : score(s) \in Int
  <2> TAKE s \in 0..top
  <2>1. changes(s) \in SUBSET (1..(len - 1)) /\ 1 \in Int /\ len - 1 \in Int
    BY <1>0
  <2> HIDE DEF changes
  <2>2. Cardinality(changes(s)) \in Int
    <3>1. Cardinality(changes(s)) \in Nat
      BY <2>1, Counted
    <3> QED
      BY <3>1
  <2>3. bytes[s + 1] \in Int
    <3>1. s + 1 \in 1..Len(bytes)
      BY <1>0
    <3> QED
      BY <3>1, ElementOfSeq
  <2>4. pixel[(s % Channels) + 1] \in Int
    <3>1. s \in Int /\ Channels \in Nat \ {0}
      BY <1>1, ChannelsPositive
    <3>2. s % Channels \in 0..(Channels - 1)
      BY <3>1
    <3>3. (s % Channels) + 1 \in 1..Channels
      BY <3>1, <3>2
    <3> QED
      BY <3>3
  <2>5. Abs(bytes[s + 1] - pixel[(s % Channels) + 1]) \in Int
    BY <2>3, <2>4 DEF Abs
  <2>6. Abs(bytes[s + 1] - pixel[(s % Channels) + 1]) * len \in Int
    BY <1>0, <2>5
  <2> QED
    BY <2>2, <2>6
<1>3. WindowScores(bytes, len, pixel) = [s \in 0..top |-> score(s)]
  BY DEF WindowScores
<1> HIDE DEF score, top
<1>4. WindowScores(bytes, len, pixel) \in [0..top -> Int]
  BY <1>2, <1>3
<1>5. Best(WindowScores(bytes, len, pixel)) \in 0..top
  BY <1>1, <1>4, BestIs
<1> QED
  BY <1>5 DEF top

\* The anchor that is chosen is one.
LEMMA SelectedIsAnchor ==
    ASSUME NEW ref, IsImage(ref, Channels), NEW pixel \in [1..Channels -> Int]
    PROVE  IsAnchor(ref, SelectLocateAnchor(ref, pixel))
<1> DEFINE row == IF Dy(ref.b) > 1 THEN Best(RowScores(ref)) ELSE 0
           bytes == Bytes(ref, ref.b.y0 + row)
           len == Smaller(Len(bytes), Window)
           start == Best(WindowScores(bytes, len, pixel))
<1>1. row \in 0..(Dy(ref.b) - 1)
  BY RowIsChosen, SidesOf
<1> HIDE DEF row
<1>2. ref.b.y0 + row \in ref.b.y0 .. ref.b.y1 - 1
  BY <1>1, SidesOf
<1>3. bytes \in Seq(Int) /\ Len(bytes) = Dx(ref.b) * Channels /\ Len(bytes) \in Nat \ {0}
  BY <1>2, BytesAre
<1> HIDE DEF bytes
<1>4. len \in 1..Len(bytes)
  BY <1>3, ChannelsPositive DEF Smaller
<1> HIDE DEF len
<1>5. start \in 0..(Len(bytes) - len)
  BY <1>3, <1>4, WindowIsChosen
<1>6. SelectLocateAnchor(ref, pixel) = [row |-> row, start |-> start, len |-> len]
  BY DEF SelectLocateAnchor, row, bytes, len
<1> HIDE DEF start
<1>7. start \in Nat /\ len \in Nat \ {0} /\ start + len <= Len(bytes)
  BY <1>3, <1>4, <1>5
<1> QED
  BY <1>1, <1>3, <1>6, <1>7 DEF IsAnchor

\* The places at which all of the reference is
Hits(src, ref) == {p \in Places(src, ref) : MatchAt(src, ref, p)}

\* What a pass finds does not depend on its anchor.
LEMMA PassFinds ==
    ASSUME NEW src, NEW ref, Located(src, ref), NEW anchor, IsAnchor(ref, anchor)
    PROVE  Pass(src, ref, anchor) = IF Hits(src, ref) = {} THEN NotFound ELSE First(Hits(src, ref))
<1>1. Candidates(src, ref, anchor) \subseteq Places(src, ref)
  BY DEF Candidates
<1>2. {p \in Candidates(src, ref, anchor) : MatchAt(src, ref, p)} = Hits(src, ref)
  BY <1>1, AnchorIsThere DEF Hits
<1> QED
  BY <1>2 DEF Pass

\* The places are finitely many points of the image.
LEMMA PlacesAre ==
    ASSUME NEW src, NEW ref, Located(src, ref)
    PROVE  /\ Places(src, ref) \in SUBSET (Int \X Int) /\ IsFiniteSet(Places(src, ref))
           /\ \A p \in Places(src, ref) : /\ p \in Points(src.b)
                                          /\ src.b.x0 <= p[1] /\ src.b.y0 <= p[2]
<1>1. /\ src.b.x0 \in Int /\ src.b.y0 \in Int /\ src.b.x1 \in Int /\ src.b.y1 \in Int
      /\ Dx(ref.b) \in Nat \ {0} /\ Dy(ref.b) \in Nat \ {0}
  BY SidesOf DEF Located
<1>2. src.b.x1 - Dx(ref.b) \in Int /\ src.b.y1 - Dy(ref.b) \in Int
  BY <1>1
<1>3. IsFiniteSet(src.b.x0 .. src.b.x1 - Dx(ref.b)) /\ IsFiniteSet(src.b.y0 .. src.b.y1 - Dy(ref.b))
  BY <1>1, <1>2, FS_Interval
<1>4. IsFiniteSet(Places(src, ref))
  BY <1>3, FS_Product DEF Places
<1>5. Places(src, ref) \in SUBSET (Int \X Int)
  BY <1>1 DEF Places
<1>6. \A p \in Places(src, ref) : p \in Points(src.b) /\ src.b.x0 <= p[1] /\ src.b.y0 <= p[2]
  BY <1>1 DEF Places, Points
<1> QED
  BY <1>4, <1>5, <1>6

\* The search finds the first place at which the reference is.
LEMMA LocateFinds ==
    ASSUME NEW src, NEW ref, Located(src, ref)
    PROVE  LocateExactInImage(src, ref) = IF Hits(src, ref) = {} THEN NotFound ELSE First(Hits(src, ref))
<1> DEFINE anchor == FirstAnchor(ref)
           falsely == FalseCandidates(src, ref, anchor)
           eighth == CHOOSE p \in falsely : Cardinality({q \in falsely : Before(q, p)}) = Fallback - 1
           other == SelectLocateAnchor(ref, src.px[eighth])
           answer == IF Hits(src, ref) = {} THEN NotFound ELSE First(Hits(src, ref))
<1>1. Dx(ref.b) <= Dx(src.b) /\ Dy(ref.b) <= Dy(src.b)
      /\ ~(Dx(ref.b) > Dx(src.b)) /\ ~(Dy(ref.b) > Dy(src.b))
  <2>1. Dx(ref.b) \in Nat /\ Dx(src.b) \in Nat /\ Dy(ref.b) \in Nat /\ Dy(src.b) \in Nat
    BY SidesOf DEF Located
  <2> QED
    BY <2>1 DEF Located
<1>2. Pass(src, ref, anchor) = answer
  BY FirstIsAnchor, PassFinds DEF Located
<1>3. falsely \in SUBSET Places(src, ref)
  BY DEF FalseCandidates, Candidates
<1>4. IsFiniteSet(falsely) /\ Cardinality(falsely) \in Nat
  BY <1>3, PlacesAre, FS_Subset, FS_CardinalityType
<1>5. ASSUME ~(Cardinality(falsely) < Fallback)
      PROVE  Pass(src, ref, other) = answer
  <2> HIDE DEF falsely, answer
  <2>1. Fallback - 1 \in Nat /\ Cardinality(falsely) > Fallback - 1
    BY <1>4, <1>5, ChannelsPositive
  <2>2. falsely \in SUBSET (Int \X Int)
    BY <1>3, PlacesAre
  <2>3. \E p \in falsely : Cardinality({q \in falsely : Before(q, p)}) = Fallback - 1
    BY <1>4, <2>1, <2>2, NthExists
  <2>4. eighth \in falsely
    BY <2>3
  <2> HIDE DEF eighth
  <2>5. eighth \in Points(src.b)
    BY <1>3, <2>4, PlacesAre
  <2>6. src.px[eighth] \in [1..Channels -> Int]
    BY <2>5 DEF Located, IsImage
  <2>7. IsAnchor(ref, other)
    BY <2>6, SelectedIsAnchor DEF Located
  <2> HIDE DEF other
  <2> QED
    BY <2>7, PassFinds DEF answer
<1>6. LocateExactInImage(src, ref) =
        IF Dx(ref.b) > Dx(src.b) \/ Dy(ref.b) > Dy(src.b) THEN Refused
        ELSE IF Cardinality(falsely) < Fallback \/ other = anchor THEN Pass(src, ref, anchor)
        ELSE Pass(src, ref, other)
  BY DEF LocateExactInImage
<1> HIDE DEF anchor, falsely, eighth, other
<1> QED
  BY <1>1, <1>2, <1>5, <1>6

\* A query to locate an image is answered exactly.
LEMMA Locates ==
    ASSUME IsQuery(query), query.kind = "locate", found = Result(query)
    PROVE  IsLocated(query)
<1> DEFINE src == query.src
           ref == query.ref
           area == query.area
           p == LocateExactInImage(src, ref)
<1>1. area \in Rects /\ IsImage(src, Channels) /\ IsImage(ref, Channels)
  BY DEF IsQuery
<1>2. found = LocateExact(src, area, ref)
  BY DEF Result
<1>3. CASE Dx(ref.b) > Dx(src.b) \/ Dy(ref.b) > Dy(src.b)
  <2>1. p = Refused
    BY <1>3 DEF LocateExactInImage
  <2>2. found = Refused
    BY <1>2, <2>1 DEF LocateExact
  <2> QED
    BY <1>3, <2>2 DEF IsLocated
<1>4. CASE ~(Dx(ref.b) > Dx(src.b) \/ Dy(ref.b) > Dy(src.b))
  <2>1. Located(src, ref)
    <3>1. Dx(ref.b) \in Nat /\ Dx(src.b) \in Nat /\ Dy(ref.b) \in Nat /\ Dy(src.b) \in Nat
      BY <1>1, SidesOf
    <3> QED
      BY <1>1, <1>4, <3>1 DEF Located
  <2>2. p = IF Hits(src, ref) = {} THEN NotFound ELSE First(Hits(src, ref))
    BY <2>1, LocateFinds
  <2>3. CASE Hits(src, ref) = {}
    <3>1. found = NotFound
      BY <1>2, <2>2, <2>3 DEF LocateExact
    <3> QED
      BY <1>4, <2>3, <3>1 DEF IsLocated, Hits
  <2>4. CASE Hits(src, ref) # {}
    <3>1. Hits(src, ref) \in SUBSET (Int \X Int) /\ \A q \in Hits(src, ref) : src.b.x0 <= q[1] /\ src.b.y0 <= q[2]
      BY <2>1, PlacesAre DEF Hits
    <3>2. src.b.x0 \in Int /\ src.b.y0 \in Int
      BY <1>1, SidesOf
    <3>3. First(Hits(src, ref)) \in Hits(src, ref)
      BY <2>4, <3>1, <3>2, FirstExists
    <3>4. p \in Int \X Int /\ p = First(Hits(src, ref))
      BY <2>2, <2>4, <3>1, <3>3
    <3>5. p \notin {Refused, NotFound}
      BY <3>4, ErrorsAreNoAnswers
    <3>6. found = <<p[1] + area.x0 - src.b.x0, p[2] + area.y0 - src.b.y0>>
      BY <1>2, <3>5 DEF LocateExact
    <3> QED
      BY <1>4, <2>4, <3>4, <3>6 DEF IsLocated, Hits
  <2> QED
    BY <2>3, <2>4
<1> QED
  BY <1>3, <1>4

-----------------------------------------------------------------------------
(* ScreenSearch: rectangles, captures and hashes.                          *)

\* The sides of a rectangle are numbers, and say which rectangle it is.
LEMMA RectFields ==
    ASSUME NEW r \in Rects
    PROVE  r.x0 \in Int /\ r.y0 \in Int /\ r.x1 \in Int /\ r.y1 \in Int /\ r = Rect(r.x0, r.y0, r.x1, r.y1)
BY DEF Rects, Rect

\* On an unscaled output a region is its own physical region.
LEMMA Unscaled ==
    ASSUME NEW r \in Rects
    PROVE  Physical(r, 1) = r
<1>1. r.x0 * 1 = r.x0 /\ r.y0 * 1 = r.y0 /\ r.x1 * 1 = r.x1 /\ r.y1 * 1 = r.y1
  BY RectFields
<1> QED
  BY <1>1, RectFields DEF Physical

\* A rectangle inside another is what they have in common.
LEMMA InsideIs ==
    ASSUME NEW r \in Rects, NEW s \in Rects, ~Empty(r), In(r, s)
    PROVE  Intersect(r, s) = r
<1>1. Larger(r.x0, s.x0) = r.x0 /\ Larger(r.y0, s.y0) = r.y0 /\ Smaller(r.x1, s.x1) = r.x1 /\ Smaller(r.y1, s.y1) = r.y1
  BY RectFields DEF In, Larger, Smaller
<1> QED
  BY <1>1, RectFields DEF Intersect

\* The points of a rectangle inside another are points of the other.
LEMMA PointsInside ==
    ASSUME NEW r \in Rects, NEW s \in Rects, ~Empty(r), In(r, s)
    PROVE  Points(r) \subseteq Points(s)
<1>1. r.x0 >= s.x0 /\ r.y0 >= s.y0 /\ r.x1 <= s.x1 /\ r.y1 <= s.y1
  BY DEF In
<1> QED
  BY <1>1, RectFields DEF Points

\* What two rectangles have in common is a rectangle.
LEMMA IntersectIsRect ==
    ASSUME NEW r \in Rects, NEW s \in Rects
    PROVE  Intersect(r, s) \in Rects /\ Intersect(Intersect(r, s), Intersect(r, s)) = Intersect(r, s)
<1> DEFINE c == Intersect(r, s)
<1>1. c.x0 \in Int /\ c.y0 \in Int /\ c.x1 \in Int /\ c.y1 \in Int /\ c = Rect(c.x0, c.y0, c.x1, c.y1)
  BY RectFields DEF Intersect, Rect, Larger, Smaller
<1> HIDE DEF c
<1>2. c \in Rects /\ Intersect(c, c) = c
  BY <1>1 DEF Intersect, Rect, Rects, Larger, Smaller
<1> QED
  BY <1>2 DEF c

\* The parts of an image
LEMMA ImageFields ==
    ASSUME NEW r, NEW px
    PROVE  Image(r, px).b = r /\ Image(r, px).px = px
BY DEF Image

\* What is captured of a region on an unscaled output is the region, wherever the
\* capture's own bounds are.
LEMMA Grabbed ==
    ASSUME NEW frame, IsImage(frame, 3), NEW r \in Rects, ~Empty(r), In(r, frame.b), NEW style
    PROVE  LET img == GrabImage(frame, r, 1, style)
           IN  /\ img.b \in Rects /\ Dx(img.b) = Dx(r) /\ Dy(img.b) = Dy(r)
               /\ \A p \in Points(r) :
                    img.px[<<p[1] + img.b.x0 - r.x0, p[2] + img.b.y0 - r.y0>>] = Swap(frame.px[p])
<1> DEFINE img == GrabImage(frame, r, 1, style)
<1>1. frame.b \in Rects /\ Physical(r, 1) = r
  BY Unscaled DEF IsImage
<1>2. r.x0 \in Int /\ r.y0 \in Int /\ r.x1 \in Int /\ r.y1 \in Int
  BY RectFields
<1>3. CASE style = "crop"
  <2> DEFINE b == Rect(0, 0, Dx(r), Dy(r))
             px == [p \in Points(b) |->
                LET q == <<p[1] + r.x0, p[2] + r.y0>>
                IN  IF q \in Points(frame.b) THEN Swap(frame.px[q]) ELSE <<0, 0, 0>>]
  <2>1. img = Image(b, px)
    BY <1>1, <1>3 DEF GrabImage, Crop
  <2>2. img.b = b /\ img.px = px
    BY <2>1, ImageFields
  <2>3. b \in Rects /\ Dx(b) = Dx(r) /\ Dy(b) = Dy(r) /\ b.x0 = 0 /\ b.y0 = 0
    BY <1>2 DEF Rect, Rects, Dx, Dy
  <2>4. \A p \in Points(r) : px[<<p[1] + 0 - r.x0, p[2] + 0 - r.y0>>] = Swap(frame.px[p])
    <3> TAKE p \in Points(r)
    <3> DEFINE o == <<p[1] + 0 - r.x0, p[2] + 0 - r.y0>>
    <3>1. p \in Points(frame.b)
      BY <1>1, PointsInside
    <3>2. p[1] \in Int /\ p[2] \in Int /\ p = <<p[1], p[2]>>
          /\ r.x0 <= p[1] /\ p[1] < r.x1 /\ r.y0 <= p[2] /\ p[2] < r.y1
      BY <1>2 DEF Points
    <3>3. o \in Points(b)
      BY <1>2, <3>2 DEF Points, Rect, Dx, Dy
    <3>4. <<o[1] + r.x0, o[2] + r.y0>> = p
      BY <1>2, <3>2
    <3> HIDE DEF o, b
    <3>5. px[o] = LET q == <<o[1] + r.x0, o[2] + r.y0>>
                  IN  IF q \in Points(frame.b) THEN Swap(frame.px[q]) ELSE <<0, 0, 0>>
      BY <3>3
    <3>6. px[o] = Swap(frame.px[p])
      BY <3>1, <3>4, <3>5
    <3> QED
      BY <3>6 DEF o
  <2> HIDE DEF img, b, px
  <2>5. /\ img.b \in Rects /\ Dx(img.b) = Dx(r) /\ Dy(img.b) = Dy(r)
        /\ \A p \in Points(r) :
              img.px[<<p[1] + img.b.x0 - r.x0, p[2] + img.b.y0 - r.y0>>] = Swap(frame.px[p])
    BY <2>2, <2>3, <2>4
  <2> QED
    BY <2>5 DEF img
<1>4. CASE style # "crop"
  <2> DEFINE px == [p \in Points(r) |-> Swap(frame.px[p])]
  <2>1. img = Image(r, px)
    BY <1>1, <1>4, InsideIs DEF GrabImage, Decode
  <2> HIDE DEF img
  <2>2. img.b = r /\ img.px = px
    BY <2>1, ImageFields
  <2>3. \A p \in Points(r) : px[<<p[1] + r.x0 - r.x0, p[2] + r.y0 - r.y0>>] = Swap(frame.px[p])
    <3> TAKE p \in Points(r)
    <3>1. <<p[1] + r.x0 - r.x0, p[2] + r.y0 - r.y0>> = p
      BY <1>2 DEF Points
    <3> QED
      BY <3>1
  <2> HIDE DEF px
  <2>4. /\ img.b \in Rects /\ Dx(img.b) = Dx(r) /\ Dy(img.b) = Dy(r)
        /\ \A p \in Points(r) :
              img.px[<<p[1] + img.b.x0 - r.x0, p[2] + img.b.y0 - r.y0>>] = Swap(frame.px[p])
    BY <2>2, <2>3
  <2> QED
    BY <2>4 DEF img
<1> QED
  BY <1>3, <1>4

\* A hash that a backend takes from its frame is the hash of the captured image.
LEMMA Hashes ==
    ASSUME IsQuery(query), query.kind = "hash", found = Result(query)
    PROVE  IsCanonical(query)
<1> DEFINE frame == query.frame
           P == Physical(query.rect, query.scale)
           c == Intersect(P, frame.b)
           px == [p \in Points(c) |-> Swap(frame.px[p])]
           img == GrabImage(frame, query.rect, query.scale, "decode")
<1>1. IsImage(frame, 3) /\ query.rect \in Rects /\ query.scale \in Nat
  BY DEF IsQuery
<1>2. P \in Rects /\ frame.b \in Rects
  BY <1>1, RectFields DEF Physical, Rect, Rects, IsImage
<1>3. found = IF Empty(c) THEN Refused ELSE PixelHashBGRA(frame, c)
  BY DEF Result, GrabRegionHash
<1>4. img = Image(c, px)
  BY DEF GrabImage, Decode
<1>5. c \in Rects /\ Intersect(c, c) = c
  BY <1>2, IntersectIsRect
<1>6. img.b = c /\ img.px = px
  BY <1>4, ImageFields
<1> HIDE DEF img, c
<1>7. PixelHash(img, img.b) = Content(img, c)
  BY <1>5, <1>6 DEF PixelHash
<1>8. Content(img, c) = PixelHashBGRA(frame, c)
  <2>1. \A y \in 1..Dy(c) : \A x \in 1..Dx(c) : <<c.x0 + x - 1, c.y0 + y - 1>> \in Points(c)
    BY <1>5, RectFields DEF Points, Dx, Dy
  <2>2. \A y \in 1..Dy(c) : \A x \in 1..Dx(c) :
          img.px[<<c.x0 + x - 1, c.y0 + y - 1>>] = Swap(frame.px[<<c.x0 + x - 1, c.y0 + y - 1>>])
    BY <1>6, <2>1
  <2> QED
    BY <2>2 DEF Content, PixelHashBGRA
<1> QED
  BY <1>3, <1>6, <1>7, <1>8 DEF IsCanonical, img, c

\* The pixels of region r of a frame, as a hash reads them
Shown(frame, r) ==
    [y \in 1..Dy(r) |-> [x \in 1..Dx(r) |-> Swap(frame.px[<<r.x0 + x - 1, r.y0 + y - 1>>])]]

\* An image that shows region r of a frame, moved by its own bounds
Shows(img, frame, r) ==
    /\ img.b \in Rects
    /\ \A p \in Points(r) : img.px[<<p[1] + img.b.x0 - r.x0, p[2] + img.b.y0 - r.y0>>] = Swap(frame.px[p])

\* Part r of what an image shows of region s has the content of r.
LEMMA PartIsShown ==
    ASSUME NEW frame, NEW s \in Rects, NEW img, Shows(img, frame, s),
           NEW r \in Rects, ~Empty(r), In(r, s), NEW t \in Rects,
           t = Shift(r, img.b.x0 - s.x0, img.b.y0 - s.y0)
    PROVE  Content(img, t) = Shown(frame, r)
<1>1. /\ r.x0 \in Int /\ r.y0 \in Int /\ r.x1 \in Int /\ r.y1 \in Int
      /\ s.x0 \in Int /\ s.y0 \in Int /\ s.x1 \in Int /\ s.y1 \in Int
      /\ img.b.x0 \in Int /\ img.b.y0 \in Int
  BY RectFields DEF Shows
<1>2. t.x0 = r.x0 + (img.b.x0 - s.x0) /\ t.y0 = r.y0 + (img.b.y0 - s.y0) /\ Dx(t) = Dx(r) /\ Dy(t) = Dy(r)
  BY <1>1 DEF Shift, Rect, Dx, Dy
<1>3. ASSUME NEW y \in 1..Dy(r), NEW x \in 1..Dx(r)
      PROVE  img.px[<<t.x0 + x - 1, t.y0 + y - 1>>] = Swap(frame.px[<<r.x0 + x - 1, r.y0 + y - 1>>])
  <2> DEFINE p == <<r.x0 + x - 1, r.y0 + y - 1>>
  <2>1. p \in Points(r)
    BY <1>1 DEF Points, Dx, Dy
  <2>2. p \in Points(s)
    BY <2>1, PointsInside
  <2>3. img.px[<<p[1] + img.b.x0 - s.x0, p[2] + img.b.y0 - s.y0>>] = Swap(frame.px[p])
    BY <2>2 DEF Shows
  <2>4. p[1] + img.b.x0 - s.x0 = t.x0 + x - 1 /\ p[2] + img.b.y0 - s.y0 = t.y0 + y - 1
    <3>1. x \in Int /\ y \in Int
      BY <1>1 DEF Dx, Dy
    <3> QED
      BY <1>1, <1>2, <3>1
  <2> QED
    BY <2>3, <2>4
<1> QED
  BY <1>2, <1>3 DEF Content, Shown

\* A function on 1..n is a sequence.
LEMMA FunctionIsSeq ==
    ASSUME NEW S, NEW n \in Nat, NEW f \in [1..n -> S]
    PROVE  f \in Seq(S)
BY SeqDef

\* A region of a frame is content, and no error.
LEMMA ShownIsNoError ==
    ASSUME NEW frame, IsImage(frame, 3), NEW r \in Rects, ~Empty(r), In(r, frame.b)
    PROVE  Shown(frame, r) # Refused
<1>1. r.x0 \in Int /\ r.y0 \in Int /\ r.x1 \in Int /\ r.y1 \in Int /\ Dx(r) \in Nat /\ Dy(r) \in Nat
  BY RectFields DEF Empty, Dx, Dy
<1>2. \A y \in 1..Dy(r) : \A x \in 1..Dx(r) :
        Swap(frame.px[<<r.x0 + x - 1, r.y0 + y - 1>>]) \in Seq(Int)
  <2> TAKE y \in 1..Dy(r)
  <2> TAKE x \in 1..Dx(r)
  <2> DEFINE p == <<r.x0 + x - 1, r.y0 + y - 1>>
  <2>1. p \in Points(r)
    BY <1>1 DEF Points, Dx, Dy
  <2>2. p \in Points(frame.b)
    BY <2>1, PointsInside DEF IsImage
  <2> HIDE DEF p
  <2>3. frame.px[p] \in [1..3 -> Int]
    BY <2>2 DEF IsImage
  <2>4. frame.px[p][1] \in Int /\ frame.px[p][2] \in Int
    BY <2>3
  <2>5. Swap(frame.px[p]) \in Seq(Int)
    BY <2>4 DEF Swap
  <2> QED
    BY <2>5 DEF p
<1>3. \A y \in 1..Dy(r) : [x \in 1..Dx(r) |-> Swap(frame.px[<<r.x0 + x - 1, r.y0 + y - 1>>])] \in Seq(Seq(Int))
  <2> TAKE y \in 1..Dy(r)
  <2> DEFINE row == [x \in 1..Dx(r) |-> Swap(frame.px[<<r.x0 + x - 1, r.y0 + y - 1>>])]
             S == Seq(Int)
  <2>1. row \in [1..Dx(r) -> S]
    BY <1>2
  <2>2. Dx(r) \in Nat
    BY <1>1
  <2> HIDE DEF row, S
  <2>3. row \in Seq(S)
    BY <2>1, <2>2, FunctionIsSeq
  <2> QED
    BY <2>3 DEF row, S
<1>4. Shown(frame, r) \in Seq(Seq(Seq(Int)))
  <2> DEFINE S == Seq(Seq(Int))
  <2>1. Shown(frame, r) \in [1..Dy(r) -> S]
    BY <1>3 DEF Shown
  <2>2. Dy(r) \in Nat
    BY <1>1
  <2> HIDE DEF S
  <2>3. Shown(frame, r) \in Seq(S)
    BY <2>1, <2>2, FunctionIsSeq
  <2> QED
    BY <2>3 DEF S
<1> QED
  BY <1>4, ErrorsAreNoAnswers

-----------------------------------------------------------------------------
(* ScreenSearch: scans.                                                    *)

\* The least and the greatest of the numbers in a sequence
LEMMA EndsOf ==
    ASSUME NEW n \in Nat \ {0}, NEW f \in [1..n -> Int], NEW T,
           \A i \in 1..n : f[i] \in T, \A x \in T : \E i \in 1..n : x = f[i]
    PROVE  /\ Min(T) \in Int /\ Max(T) \in Int
           /\ \E i \in 1..n : Min(T) = f[i]
           /\ \E i \in 1..n : Max(T) = f[i]
           /\ \A i \in 1..n : Min(T) <= f[i] /\ f[i] <= Max(T)
<1>1. f \in Surjection(1..n, T)
  <2>1. f \in [1..n -> T]
    OBVIOUS
  <2> QED
    BY <2>1 DEF Surjection
<1>2. IsFiniteSet(1..n)
  <2>1. 1 \in Int /\ n \in Int
    OBVIOUS
  <2> QED
    BY <2>1, FS_Interval
<1>3. IsFiniteSet(T)
  BY <1>1, <1>2, FS_Surjection
<1>4. T \in SUBSET Int /\ T # {}
  <2>1. 1 \in 1..n
    OBVIOUS
  <2>2. \A i \in 1..n : f[i] \in Int
    OBVIOUS
  <2> QED
    BY <2>1, <2>2
<1>5. Min(T) \in T /\ Max(T) \in T /\ \A y \in T : Min(T) <= y /\ y <= Max(T)
  BY <1>3, <1>4, FiniteIsBounded
<1> QED
  BY <1>4, <1>5

\* The bounding rectangle holds the regions, and lies where all of them lie.
LEMMA BoundingHolds ==
    ASSUME NEW rects \in Seq(Rects), rects # <<>>, NEW b \in Rects,
           \A i \in DOMAIN rects : ~Empty(rects[i]) /\ In(rects[i], b)
    PROVE  /\ Bounding(rects) \in Rects /\ ~Empty(Bounding(rects)) /\ In(Bounding(rects), b)
           /\ \A i \in DOMAIN rects : In(rects[i], Bounding(rects))
<1> DEFINE n == Len(rects)
           sides(side) == {rects[i][side] : i \in DOMAIN rects}
           box == Bounding(rects)
<1>1. n \in Nat \ {0} /\ DOMAIN rects = 1..n
  BY LenProperties, EmptySeq
<1>2. \A i \in 1..n : rects[i] \in Rects
  BY ElementOfSeq
<1> HIDE DEF n
<1>3. \A i \in 1..n : /\ rects[i].x0 \in Int /\ rects[i].y0 \in Int
                      /\ rects[i].x1 \in Int /\ rects[i].y1 \in Int
                      /\ rects[i].x0 < rects[i].x1 /\ rects[i].y0 < rects[i].y1
                      /\ rects[i].x0 >= b.x0 /\ rects[i].y0 >= b.y0
                      /\ rects[i].x1 <= b.x1 /\ rects[i].y1 <= b.y1
  <2> TAKE i \in 1..n
  <2>1. rects[i].x0 \in Int /\ rects[i].y0 \in Int /\ rects[i].x1 \in Int /\ rects[i].y1 \in Int
    BY <1>2, RectFields
  <2>2. ~Empty(rects[i]) /\ In(rects[i], b)
    BY <1>1
  <2> QED
    BY <2>1, <2>2 DEF Empty, In
<1>4. box = Rect(Min(sides("x0")), Min(sides("y0")), Max(sides("x1")), Max(sides("y1")))
  BY DEF Bounding
<1>5. ASSUME NEW side, \A i \in 1..n : rects[i][side] \in Int
      PROVE  /\ Min(sides(side)) \in Int /\ Max(sides(side)) \in Int
             /\ \E i \in 1..n : Min(sides(side)) = rects[i][side]
             /\ \E i \in 1..n : Max(sides(side)) = rects[i][side]
             /\ \A i \in 1..n : Min(sides(side)) <= rects[i][side] /\ rects[i][side] <= Max(sides(side))
  <2> DEFINE f == [i \in 1..n |-> rects[i][side]]
             T == sides(side)
  <2>1. f \in [1..n -> Int] /\ \A i \in 1..n : f[i] = rects[i][side]
    BY <1>5
  <2>2. (\A i \in 1..n : f[i] \in T) /\ \A x \in T : \E i \in 1..n : x = f[i]
    BY <1>1, <2>1
  <2> HIDE DEF f, T
  <2>3. /\ Min(T) \in Int /\ Max(T) \in Int
        /\ \E i \in 1..n : Min(T) = f[i]
        /\ \E i \in 1..n : Max(T) = f[i]
        /\ \A i \in 1..n : Min(T) <= f[i] /\ f[i] <= Max(T)
    <3>1. n \in Nat \ {0} /\ f \in [1..n -> Int] 
      BY <1>1, <2>1
    <3> QED
      BY <2>2, <3>1, EndsOf
  <2>4. /\ Min(T) \in Int /\ Max(T) \in Int
        /\ \E i \in 1..n : Min(T) = rects[i][side]
        /\ \E i \in 1..n : Max(T) = rects[i][side]
        /\ \A i \in 1..n : Min(T) <= rects[i][side] /\ rects[i][side] <= Max(T)
    BY <2>1, <2>3
  <2> QED
    BY <2>4 DEF T
<1> HIDE DEF sides
<1>6. /\ Min(sides("x0")) \in Int /\ \E i \in 1..n : Min(sides("x0")) = rects[i].x0
      /\ \A i \in 1..n : Min(sides("x0")) <= rects[i].x0
  BY <1>3, <1>5
<1>7. /\ Min(sides("y0")) \in Int /\ \E i \in 1..n : Min(sides("y0")) = rects[i].y0
      /\ \A i \in 1..n : Min(sides("y0")) <= rects[i].y0
  BY <1>3, <1>5
<1>8. /\ Max(sides("x1")) \in Int /\ \E i \in 1..n : Max(sides("x1")) = rects[i].x1
      /\ \A i \in 1..n : rects[i].x1 <= Max(sides("x1"))
  BY <1>3, <1>5
<1>9. /\ Max(sides("y1")) \in Int /\ \E i \in 1..n : Max(sides("y1")) = rects[i].y1
      /\ \A i \in 1..n : rects[i].y1 <= Max(sides("y1"))
  BY <1>3, <1>5
<1>10. /\ box.x0 = Min(sides("x0")) /\ box.y0 = Min(sides("y0"))
       /\ box.x1 = Max(sides("x1")) /\ box.y1 = Max(sides("y1"))
       /\ box \in Rects
  BY <1>4, <1>6, <1>7, <1>8, <1>9 DEF Rect, Rects
<1> HIDE DEF box
<1>11. /\ \A i \in 1..n : /\ box.x0 <= rects[i].x0 /\ box.y0 <= rects[i].y0
                          /\ rects[i].x1 <= box.x1 /\ rects[i].y1 <= box.y1
       /\ box.x0 >= b.x0 /\ box.y0 >= b.y0 /\ box.x1 <= b.x1 /\ box.y1 <= b.y1
       /\ box.x0 \in Int /\ box.y0 \in Int /\ box.x1 \in Int /\ box.y1 \in Int
  <2>1. b.x0 \in Int /\ b.y0 \in Int /\ b.x1 \in Int /\ b.y1 \in Int
    BY RectFields
  <2>2. box.x0 >= b.x0
    BY <1>3, <1>6, <1>10
  <2>3. box.y0 >= b.y0
    BY <1>3, <1>7, <1>10
  <2>4. box.x1 <= b.x1
    BY <1>3, <1>8, <1>10
  <2>5. box.y1 <= b.y1
    BY <1>3, <1>9, <1>10
  <2> QED
    BY <1>6, <1>7, <1>8, <1>9, <1>10, <2>2, <2>3, <2>4, <2>5
<1>12. \A i \in 1..n : In(rects[i], box)
  BY <1>3, <1>11 DEF In
<1>13. ~Empty(box) /\ In(box, b)
  <2>1. 1 \in 1..n
    BY <1>1
  <2>2. box.x0 < box.x1 /\ box.y0 < box.y1
    BY <1>3, <1>11, <2>1
  <2> QED
    BY <1>11, <2>2 DEF Empty, In
<1> QED
  BY <1>1, <1>10, <1>12, <1>13 DEF box

\* A rectangle that is moved keeps its size.
LEMMA SameRect ==
    ASSUME NEW r \in Rects, NEW a \in Int, NEW b \in Int
    PROVE  /\ Shift(r, a, b) \in Rects /\ Dx(Shift(r, a, b)) = Dx(r) /\ Dy(Shift(r, a, b)) = Dy(r)
           /\ Empty(Shift(r, a, b)) = Empty(r) /\ Shift(r, 0, 0) = r
<1>1. r.x0 \in Int /\ r.y0 \in Int /\ r.x1 \in Int /\ r.y1 \in Int /\ r = Rect(r.x0, r.y0, r.x1, r.y1)
  BY RectFields
<1>2. Shift(r, a, b) \in Rects /\ Dx(Shift(r, a, b)) = Dx(r) /\ Dy(Shift(r, a, b)) = Dy(r)
  BY <1>1 DEF Shift, Rect, Rects, Dx, Dy
<1>3. Empty(Shift(r, a, b)) = Empty(r)
  BY <1>1 DEF Shift, Rect, Empty
<1>4. Shift(r, 0, 0) = r
  BY <1>1 DEF Shift
<1> QED
  BY <1>2, <1>3, <1>4

\* The three ways to hash a region agree: out of a larger capture, out of one of
\* its own, and out of the frame.
LEMMA HashesAgree ==
    ASSUME NEW frame, IsImage(frame, 3), NEW s \in Rects, ~Empty(s), In(s, frame.b),
           NEW r \in Rects, ~Empty(r), In(r, s), NEW style
    PROVE  LET img == GrabImage(frame, s, 1, style)
           IN  PixelHash(img, TranslateToImage(r, s, img)) = Shown(frame, r)
<1> DEFINE img == GrabImage(frame, s, 1, style)
           t == TranslateToImage(r, s, img)
<1>1. Shows(img, frame, s) /\ img.b \in Rects /\ Dx(img.b) = Dx(s) /\ Dy(img.b) = Dy(s)
  BY Grabbed DEF Shows
<1> HIDE DEF img
<1>2. /\ r.x0 \in Int /\ r.y0 \in Int /\ r.x1 \in Int /\ r.y1 \in Int
      /\ s.x0 \in Int /\ s.y0 \in Int /\ s.x1 \in Int /\ s.y1 \in Int
      /\ img.b.x0 \in Int /\ img.b.y0 \in Int /\ img.b.x1 \in Int /\ img.b.y1 \in Int
  BY <1>1, RectFields
<1> DEFINE a == img.b.x0 - s.x0
           b == img.b.y0 - s.y0
<1>3. a \in Int /\ b \in Int /\ t = Shift(r, a, b)
  BY <1>2 DEF TranslateToImage
<1>4. t \in Rects /\ Empty(t) = Empty(r)
  BY <1>3, SameRect
<1>5. In(t, img.b)
  <2>1. t.x0 = r.x0 + a /\ t.y0 = r.y0 + b /\ t.x1 = r.x1 + a /\ t.y1 = r.y1 + b
    BY <1>3 DEF Shift, Rect
  <2>2. r.x0 >= s.x0 /\ r.y0 >= s.y0 /\ r.x1 <= s.x1 /\ r.y1 <= s.y1
    BY DEF In
  <2>3. img.b.x1 - img.b.x0 = s.x1 - s.x0 /\ img.b.y1 - img.b.y0 = s.y1 - s.y0
    BY <1>1 DEF Dx, Dy
  <2>4. t.x0 >= img.b.x0 /\ t.y0 >= img.b.y0 /\ t.x1 <= img.b.x1 /\ t.y1 <= img.b.y1
    <3> HIDE DEF t
    <3> QED
      BY <1>2, <2>1, <2>2, <2>3
  <2> QED
    BY <2>4 DEF In
<1> HIDE DEF t
<1>6. Intersect(t, img.b) = t
  BY <1>1, <1>4, <1>5, InsideIs
<1>7. Content(img, t) = Shown(frame, r)
  BY <1>1, <1>3, <1>4, PartIsShown
<1>8. PixelHash(img, t) = Shown(frame, r)
  BY <1>6, <1>7 DEF PixelHash
<1> QED
  BY <1>8 DEF img, t

\* A rectangle is inside itself.
LEMMA InItself ==
    ASSUME NEW r \in Rects, ~Empty(r)
    PROVE  In(r, r)
BY RectFields DEF In

\* The hash of a capture of the region alone (grabImageHash)
LEMMA OwnHash ==
    ASSUME NEW frame, IsImage(frame, 3), NEW r \in Rects, ~Empty(r), In(r, frame.b), NEW style
    PROVE  GrabImageHash(GrabImage(frame, r, 1, style), r) = Shown(frame, r)
<1> DEFINE img == GrabImage(frame, r, 1, style)
<1>1. Shows(img, frame, r) /\ img.b \in Rects /\ Dx(img.b) = Dx(r) /\ Dy(img.b) = Dy(r)
  BY Grabbed DEF Shows
<1>2. PixelHash(img, TranslateToImage(r, r, img)) = Shown(frame, r)
  BY InItself, HashesAgree
<1> HIDE DEF img
<1>3. /\ r.x0 \in Int /\ r.y0 \in Int /\ r.x1 \in Int /\ r.y1 \in Int
      /\ img.b.x0 \in Int /\ img.b.y0 \in Int /\ img.b.x1 \in Int /\ img.b.y1 \in Int
      /\ img.b = Rect(img.b.x0, img.b.y0, img.b.x1, img.b.y1)
  BY <1>1, RectFields
<1>4. img.b.x1 - img.b.x0 = r.x1 - r.x0 /\ img.b.y1 - img.b.y0 = r.y1 - r.y0
  BY <1>1 DEF Dx, Dy
<1>5. TranslateToImage(r, r, img) = img.b
  <2>1. /\ r.x0 + (img.b.x0 - r.x0) = img.b.x0 /\ r.x1 + (img.b.x0 - r.x0) = img.b.x1
        /\ r.y0 + (img.b.y0 - r.y0) = img.b.y0 /\ r.y1 + (img.b.y0 - r.y0) = img.b.y1
    <3>1. r.x0 \in Int /\ r.x1 \in Int /\ img.b.x0 \in Int /\ img.b.x1 \in Int
      BY <1>3
    <3>2. r.x0 + (img.b.x0 - r.x0) = img.b.x0 /\ r.x1 + (img.b.x0 - r.x0) = img.b.x1
      BY <1>4, <3>1
    <3>3. r.y0 \in Int /\ r.y1 \in Int /\ img.b.y0 \in Int /\ img.b.y1 \in Int
      BY <1>3
    <3>4. r.y0 + (img.b.y0 - r.y0) = img.b.y0 /\ r.y1 + (img.b.y0 - r.y0) = img.b.y1
      BY <1>4, <3>3
    <3> QED
      BY <3>2, <3>4
  <2> QED
    BY <1>3, <2>1 DEF TranslateToImage, Shift
<1>6. ~Empty(img.b)
  BY <1>3, <1>4 DEF Empty
<1> QED
  BY <1>1, <1>2, <1>5, <1>6 DEF GrabImageHash, img

\* The hash of the region in the decoded frame
LEMMA FrameHash ==
    ASSUME NEW frame, IsImage(frame, 3), NEW r \in Rects, ~Empty(r), In(r, frame.b)
    PROVE  PixelHash(Decode(frame, r), r) = Shown(frame, r)
<1> DEFINE img == GrabImage(frame, r, 1, "decode")
<1>1. img = Decode(frame, r)
  BY Unscaled DEF GrabImage
<1>2. frame.b \in Rects
  BY DEF IsImage
<1>3. img.b = r
  BY <1>1, <1>2, InsideIs, ImageFields DEF Decode
<1>4. PixelHash(img, TranslateToImage(r, r, img)) = Shown(frame, r)
  BY InItself, HashesAgree
<1> HIDE DEF img
<1>5. TranslateToImage(r, r, img) = r
  <2>1. r.x0 - r.x0 = 0 /\ r.y0 - r.y0 = 0
    BY RectFields
  <2>2. Shift(r, 0, 0) = r
    BY SameRect
  <2> QED
    BY <1>3, <2>1, <2>2 DEF TranslateToImage
<1> QED
  BY <1>1, <1>4, <1>5

\* A scan is answered exactly.
LEMMA Scans ==
    ASSUME IsQuery(query), query.kind = "scan", found = Result(query)
    PROVE  IsScanned(query)
<1> DEFINE frame == query.frame
           rects == query.rects
           style == query.style
           wants == Wanted(query)
           bbox == Bounding(rects)
           img == GrabImage(frame, bbox, 1, style)
           hash(i) == IF UseBbox(rects) THEN PixelHash(img, TranslateToImage(rects[i], bbox, img))
                      ELSE GrabImageHash(GrabImage(frame, rects[i], 1, style), rects[i])
           decided == {i \in DOMAIN rects : hash(i) \in {wants[i], Refused}}
           shows(i) == wants[i] = PixelHash(Decode(frame, rects[i]), rects[i])
           matches == {i \in DOMAIN rects : shows(i)}
<1>1. /\ IsImage(frame, 3) /\ rects \in Seq(Rects) /\ rects # <<>>
      /\ \A i \in DOMAIN rects : ~Empty(rects[i]) /\ In(rects[i], frame.b)
  BY DEF IsQuery
<1>2. found = ScanFor(frame, rects, wants, style)
  BY DEF Result
<1>3. found = IF UseBbox(rects) /\ (Dx(img.b) # Dx(bbox) \/ Dy(img.b) # Dy(bbox)) THEN Refused
              ELSE IF decided = {} THEN NotFound
              ELSE IF hash(Min(decided)) = Refused THEN Refused ELSE Min(decided)
  BY <1>2 DEF ScanFor
<1>4. IsScanned(query) = IF matches = {} THEN found = NotFound ELSE found = Min(matches)
  BY DEF IsScanned
<1>5. DOMAIN rects \in SUBSET Nat /\ \A i \in DOMAIN rects : rects[i] \in Rects
  <2>1. DOMAIN rects = 1..Len(rects) /\ Len(rects) \in Nat
    BY <1>1, LenProperties
  <2> QED
    BY <1>1, <2>1, ElementOfSeq
<1> HIDE DEF rects, frame, style, wants
<1>6. frame.b \in Rects
  BY <1>1 DEF IsImage
<1>7. /\ bbox \in Rects /\ ~Empty(bbox) /\ In(bbox, frame.b)
      /\ \A i \in DOMAIN rects : In(rects[i], bbox)
  BY <1>1, <1>6, BoundingHolds
<1> HIDE DEF bbox
<1>8. Dx(img.b) = Dx(bbox) /\ Dy(img.b) = Dy(bbox)
  BY <1>1, <1>7, Grabbed
<1>9. \A i \in DOMAIN rects : hash(i) = Shown(frame, rects[i])
  <2> TAKE i \in DOMAIN rects
  <2>1. rects[i] \in Rects /\ ~Empty(rects[i]) /\ In(rects[i], bbox) /\ In(rects[i], frame.b)
    BY <1>1, <1>5, <1>7
  <2>2. PixelHash(img, TranslateToImage(rects[i], bbox, img)) = Shown(frame, rects[i])
    BY <1>1, <1>7, <2>1, HashesAgree
  <2>3. GrabImageHash(GrabImage(frame, rects[i], 1, style), rects[i]) = Shown(frame, rects[i])
    BY <1>1, <2>1, OwnHash
  <2> QED
    BY <2>2, <2>3
<1>10. \A i \in DOMAIN rects :
        Shown(frame, rects[i]) # Refused /\ PixelHash(Decode(frame, rects[i]), rects[i]) = Shown(frame, rects[i])
  BY <1>1, <1>5, ShownIsNoError, FrameHash
<1> HIDE DEF hash, img
<1>11. decided = matches
  BY <1>9, <1>10
<1>12. matches # {} => Min(matches) \in matches
  <2> SUFFICES ASSUME matches # {} PROVE Min(matches) \in matches
    OBVIOUS
  <2>1. matches \in SUBSET Nat
    BY <1>5
  <2>2. \E i \in matches : \A j \in matches : i <= j
    BY <2>1, LeastNat
  <2> QED
    BY <2>2 DEF Min
<1>13. matches # {} => hash(Min(matches)) # Refused
  BY <1>9, <1>10, <1>12
<1> HIDE DEF matches, decided
<1> QED
  BY <1>3, <1>4, <1>8, <1>11, <1>13

-----------------------------------------------------------------------------
(* ScreenSearch: colours and points.                                       *)

\* A search for a colour is answered exactly.
LEMMA Colours ==
    ASSUME IsQuery(query), query.kind = "color", found = Result(query)
    PROVE  IsFound(query)
<1> DEFINE frame == query.frame
           r == query.rect
           colour == query.target
           tol == query.tolerance
           img == GrabImage(frame, r, 1, query.style)
           near(c) == ColorClose(c, colour, tol)
           close == {p \in Points(ScanBounds(img, r)) : near(img.px[p])}
           there == {p \in Points(r) : near(Swap(frame.px[p]))}
           origin == PointOrigin(img, r)
<1>1. IsImage(frame, 3) /\ r \in Rects /\ ~Empty(r) /\ In(r, frame.b) /\ query.scale = 1
  BY DEF IsQuery
<1>2. found = IF close = {} THEN NotFound
              ELSE <<origin[1] + First(close)[1] - img.b.x0, origin[2] + First(close)[2] - img.b.y0>>
  BY <1>1 DEF Result, PixelFound
<1>3. IsFound(query) = IF there = {} THEN found = NotFound ELSE found = First(there)
  <2>1. frame.b \in Rects
    BY <1>1 DEF IsImage
  <2>2. Intersect(r, frame.b) = r /\ Points(r) \subseteq Points(frame.b)
    BY <1>1, <2>1, InsideIs, PointsInside
  <2> DEFINE dots == (0 .. query.scale - 1) \X (0 .. query.scale - 1)
             raw(p, d) == <<p[1] * query.scale + d[1], p[2] * query.scale + d[2]>>
             ok(p) == \E d \in dots : raw(p, d) \in Points(frame.b) /\ near(Swap(frame.px[raw(p, d)]))
  <2>3. \A p \in Points(r) : \A d \in dots : raw(p, d) = p
    <3> TAKE p \in Points(r)
    <3> TAKE d \in dots
    <3>1. d[1] = 0 /\ d[2] = 0
      BY <1>1
    <3>2. p[1] \in Int /\ p[2] \in Int /\ p = <<p[1], p[2]>>
      BY <1>1, RectFields DEF Points
    <3> QED
      BY <1>1, <3>1, <3>2
  <2>4. <<0, 0>> \in dots
    BY <1>1
  <2> HIDE DEF dots, raw, near
  <2>5. \A p \in Points(r) : ok(p) <=> near(Swap(frame.px[p]))
    BY <2>2, <2>3, <2>4
  <2>6. {p \in Points(r) : ok(p)} = there
    BY <2>5
  <2>7. IsFound(query) =
          IF {p \in Points(Intersect(r, frame.b)) : ok(p)} = {} THEN found = NotFound
          ELSE found = First({p \in Points(Intersect(r, frame.b)) : ok(p)})
    BY DEF IsFound, ok, dots, raw, near
  <2> HIDE DEF ok, there
  <2> QED
    BY <2>2, <2>6, <2>7
<1>4. /\ img.b \in Rects /\ Dx(img.b) = Dx(r) /\ Dy(img.b) = Dy(r)
      /\ \A p \in Points(r) :
            img.px[<<p[1] + img.b.x0 - r.x0, p[2] + img.b.y0 - r.y0>>] = Swap(frame.px[p])
  BY <1>1, Grabbed
<1> HIDE DEF img, near
<1>5. /\ r.x0 \in Int /\ r.y0 \in Int /\ r.x1 \in Int /\ r.y1 \in Int /\ r = Rect(r.x0, r.y0, r.x1, r.y1)
      /\ img.b.x0 \in Int /\ img.b.y0 \in Int /\ img.b.x1 \in Int /\ img.b.y1 \in Int
      /\ img.b = Rect(img.b.x0, img.b.y0, img.b.x1, img.b.y1)
  BY <1>1, <1>4, RectFields
<1>6. /\ img.b.x1 = img.b.x0 + (r.x1 - r.x0) /\ img.b.y1 = img.b.y0 + (r.y1 - r.y0)
      /\ r.x0 < r.x1 /\ r.y0 < r.y1
  BY <1>1, <1>4, <1>5 DEF Dx, Dy, Empty
<1> DEFINE a == img.b.x0 - r.x0
           b == img.b.y0 - r.y0
<1>7. ScanBounds(img, r) = img.b /\ origin = <<r.x0, r.y0>>
  <2>1. CASE In(r, img.b)
    <3>1. r.x0 = img.b.x0 /\ r.y0 = img.b.y0 /\ r.x1 = img.b.x1 /\ r.y1 = img.b.y1
      BY <1>1, <1>5, <1>6, <2>1 DEF In
    <3>2. r = img.b
      BY <1>5, <3>1
    <3> QED
      BY <1>1, <2>1, <3>1, <3>2 DEF ScanBounds, PointOrigin
  <2>2. CASE ~In(r, img.b)
    <3>1. /\ img.b.x0 + Smaller(Dx(r), Dx(img.b)) = img.b.x1
          /\ img.b.y0 + Smaller(Dy(r), Dy(img.b)) = img.b.y1
      BY <1>4, <1>5, <1>6 DEF Smaller, Dx, Dy
    <3> QED
      BY <1>1, <1>5, <2>2, <3>1 DEF ScanBounds, PointOrigin
  <2> QED
    BY <2>1, <2>2
<1> HIDE DEF origin
<1>8. /\ \A p \in Points(r) : p[1] \in Int /\ p[2] \in Int /\ p = <<p[1], p[2]>> /\ r.x0 <= p[1] /\ r.y0 <= p[2]
      /\ \A p \in Points(img.b) : p[1] \in Int /\ p[2] \in Int /\ p = <<p[1], p[2]>>
      /\ \A p \in Points(r) : <<p[1] + a, p[2] + b>> \in Points(img.b)
      /\ \A p \in Points(img.b) : <<p[1] - a, p[2] - b>> \in Points(r)
  BY <1>5, <1>6 DEF Points
<1>9. a \in Int /\ b \in Int
  BY <1>5
<1>10. \A p \in Points(r) : img.px[<<p[1] + a, p[2] + b>>] = Swap(frame.px[p])
  <2> TAKE p \in Points(r)
  <2>1. p[1] + img.b.x0 - r.x0 = p[1] + a /\ p[2] + img.b.y0 - r.y0 = p[2] + b
    BY <1>5, <1>8
  <2> QED
    BY <1>4, <2>1
<1> HIDE DEF a, b
<1>11. \A p \in there : <<p[1] + a, p[2] + b>> \in close
  BY <1>7, <1>8, <1>10
<1>12. \A p \in close : <<p[1] - a, p[2] - b>> \in there
  <2> TAKE p \in close
  <2> DEFINE o == <<p[1] - a, p[2] - b>>
  <2>1. p \in Points(img.b) /\ near(img.px[p])
    BY <1>7
  <2>2. o \in Points(r) /\ <<o[1] + a, o[2] + b>> = p
    BY <1>8, <1>9, <2>1
  <2> QED
    BY <1>10, <2>1, <2>2
<1>13. \A p \in there : p \in Points(r)
  OBVIOUS
<1>14. \A p \in close : p \in Points(img.b)
  BY <1>7
<1> HIDE DEF there, close
<1>15. CASE there = {}
  BY <1>2, <1>3, <1>12, <1>15
<1>16. CASE there # {}
  <2> DEFINE f == First(there)
             g == <<f[1] + a, f[2] + b>>
  <2>1. there \in SUBSET (Int \X Int) /\ \A p \in there : r.x0 <= p[1] /\ r.y0 <= p[2]
    BY <1>8, <1>13
  <2>2. f \in there /\ \A q \in there \ {f} : Before(f, q)
    <3> DEFINE lx == r.x0
               ly == r.y0
    <3>1. lx \in Int /\ ly \in Int /\ there # {}
      BY <1>5, <1>16
    <3>2. there \in SUBSET (Int \X Int) /\ \A p \in there : lx <= p[1] /\ ly <= p[2]
      BY <2>1
    <3> HIDE DEF lx, ly
    <3>3. First(there) \in there /\ \A q \in there \ {First(there)} : Before(First(there), q)
      BY <3>1, <3>2, FirstExists
    <3> QED
      BY <3>3
  <2> HIDE DEF f
  <2>3. f[1] \in Int /\ f[2] \in Int /\ f = <<f[1], f[2]>>
    BY <1>8, <1>13, <2>2
  <2>4. g \in close /\ close \in SUBSET (Int \X Int)
    BY <1>8, <1>11, <1>14, <2>2
  <2>5. \A q \in close \ {g} : Before(g, q)
    <3> TAKE q \in close \ {g}
    <3> DEFINE o == <<q[1] - a, q[2] - b>>
    <3>1. q[1] \in Int /\ q[2] \in Int /\ q = <<q[1], q[2]>>
      BY <1>8, <1>14
    <3>2. o \in there
      BY <1>12
    <3>3. o # f
      <4> SUFFICES ASSUME o = f PROVE FALSE
        OBVIOUS
      <4>1. f[1] = q[1] - a /\ f[2] = q[2] - b
        OBVIOUS
      <4>2. f[1] + a = q[1] /\ f[2] + b = q[2]
        BY <1>9, <3>1, <4>1
      <4> QED
        BY <3>1, <4>2
    <3>4. Before(f, o)
      BY <2>2, <3>2, <3>3
    <3> QED
      BY <1>9, <2>3, <3>1, <3>4 DEF Before
  <2>6. First(close) = g
    BY <2>4, <2>5, FirstIs
  <2>7. r.x0 + g[1] - img.b.x0 = f[1] /\ r.y0 + g[2] - img.b.y0 = f[2]
    BY <1>5, <2>3 DEF a, b
  <2>8. found = <<f[1], f[2]>>
    BY <1>2, <1>7, <2>4, <2>6, <2>7
  <2>9. found = First(there)
    BY <2>3, <2>8 DEF f
  <2> QED
    BY <1>3, <1>16, <2>9
<1> QED
  BY <1>15, <1>16

\* Scaling up and back
LEMMA ScaledUp ==
    ASSUME NEW a \in Int, NEW b \in Nat \ {0}, NEW s \in Nat \ {0}
    PROVE  (a * (b * s)) \div b = a * s /\ ((a * s) * b) \div (b * s) = a
<1>1. \A d \in Int : \A c \in Nat \ {0} : (d * c) \div c = d
  <2> TAKE d \in Int
  <2> TAKE c \in Nat \ {0}
  <2>1. (d * c + 0) \div c = d + 0 \div c /\ 0 \div c = 0
    <3>1. 0 \in Int /\ 0 \div c = 0
      OBVIOUS
    <3> QED
      BY <3>1, PixelsOn
  <2>2. d * c \in Int /\ d * c + 0 = d * c /\ d + 0 = d
    OBVIOUS
  <2> QED
    BY <2>1, <2>2
<1>2. a * (b * s) = (a * s) * b /\ (a * s) * b = a * (b * s)
  OBVIOUS
<1>3. a * s \in Int /\ b * s \in Nat \ {0}
  OBVIOUS
<1>4. ((a * s) * b) \div b = a * s /\ (a * (b * s)) \div (b * s) = a
  BY <1>1, <1>3
<1> QED
  BY <1>2, <1>4

\* The rectangle of some points holds them.
LEMMA PointsBoundsHold ==
    ASSUME NEW ps \in SUBSET (Int \X Int), ps # {}, IsFiniteSet(ps)
    PROVE  /\ PointsBounds(ps) \in Rects /\ ~Empty(PointsBounds(ps))
           /\ \A p \in ps : p \in Points(PointsBounds(ps))
<1> DEFINE xs == {p[1] : p \in ps}
           ys == {p[2] : p \in ps}
           f == [p \in ps |-> p[1]]
           g == [p \in ps |-> p[2]]
           r == PointsBounds(ps)
<1>1. \A p \in ps : p[1] \in Int /\ p[2] \in Int /\ p = <<p[1], p[2]>>
  OBVIOUS
<1>2. xs \in SUBSET Int /\ ys \in SUBSET Int /\ xs # {} /\ ys # {}
  BY <1>1
<1>3. f \in Surjection(ps, xs) /\ g \in Surjection(ps, ys)
  BY DEF Surjection
<1>4. IsFiniteSet(xs) /\ IsFiniteSet(ys)
  <2> HIDE DEF f, g, xs, ys
  <2> QED
    BY <1>3, FS_Surjection
<1>5. r = Rect(Min(xs), Min(ys), Max(xs) + 1, Max(ys) + 1)
  BY DEF PointsBounds
<1>6. \A p \in ps : p[1] \in xs /\ p[2] \in ys
  OBVIOUS
<1> HIDE DEF xs, ys
<1>7. Min(xs) \in Int /\ Max(xs) \in Int /\ \A x \in xs : Min(xs) <= x /\ x <= Max(xs)
  BY <1>2, <1>4, FiniteIsBounded
<1>8. Min(ys) \in Int /\ Max(ys) \in Int /\ \A y \in ys : Min(ys) <= y /\ y <= Max(ys)
  BY <1>2, <1>4, FiniteIsBounded
<1>9. r.x0 = Min(xs) /\ r.y0 = Min(ys) /\ r.x1 = Max(xs) + 1 /\ r.y1 = Max(ys) + 1 /\ r \in Rects
  BY <1>5, <1>7, <1>8 DEF Rect, Rects
<1> HIDE DEF r
<1>10. \A p \in ps : p \in Points(r)
  <2> TAKE p \in ps
  <2>1. Min(xs) <= p[1] /\ p[1] <= Max(xs) /\ Min(ys) <= p[2] /\ p[2] <= Max(ys)
    BY <1>6, <1>7, <1>8
  <2>2. p[1] \in r.x0 .. r.x1 - 1 /\ p[2] \in r.y0 .. r.y1 - 1
    BY <1>1, <1>7, <1>8, <1>9, <2>1
  <2> QED
    BY <1>1, <2>2 DEF Points
<1>11. ~Empty(r)
  <2>1. PICK p \in ps : TRUE
    OBVIOUS
  <2>2. Min(xs) <= p[1] /\ p[1] <= Max(xs) /\ Min(ys) <= p[2] /\ p[2] <= Max(ys)
    BY <1>6, <1>7, <1>8
  <2> QED
    BY <1>1, <1>7, <1>8, <1>9, <2>2 DEF Empty
<1> QED
  BY <1>9, <1>10, <1>11 DEF r

\* A region of a scaled output has room for its points.
LEMMA PhysicalIs ==
    ASSUME NEW r \in Rects, ~Empty(r), NEW s \in Nat \ {0}
    PROVE  /\ Physical(r, s) \in Rects /\ ~Empty(Physical(r, s)) /\ Uniform(Physical(r, s), r)
           /\ Dx(Physical(r, s)) = Dx(r) * s /\ Dy(Physical(r, s)) = Dy(r) * s
           /\ Dx(r) \in Nat \ {0} /\ Dy(r) \in Nat \ {0}
           /\ Physical(r, s).x0 = r.x0 * s /\ Physical(r, s).y0 = r.y0 * s
<1> DEFINE P == Physical(r, s)
           w == Dx(r)
           h == Dy(r)
<1>1. r.x0 \in Int /\ r.y0 \in Int /\ r.x1 \in Int /\ r.y1 \in Int
  BY RectFields
<1>2. w \in Nat \ {0} /\ h \in Nat \ {0} /\ r.x1 = r.x0 + w /\ r.y1 = r.y0 + h
  BY <1>1 DEF Empty, Dx, Dy
<1>3. P.x0 = r.x0 * s /\ P.y0 = r.y0 * s /\ P.x1 = r.x1 * s /\ P.y1 = r.y1 * s /\ P \in Rects
  BY <1>1 DEF Physical, Rect, Rects
<1> HIDE DEF P, w, h
<1>4. Dx(P) = w * s /\ Dy(P) = h * s
  BY <1>1, <1>2, <1>3 DEF Dx, Dy
<1>5. w * s >= w /\ h * s >= h /\ w * s \in Nat /\ h * s \in Nat
  BY <1>2
<1>6. ~Empty(P)
  <2>1. P.x1 - P.x0 = w * s /\ P.y1 - P.y0 = h * s /\ P.x0 \in Int /\ P.x1 \in Int /\ P.y0 \in Int /\ P.y1 \in Int
    BY <1>3, <1>4, RectFields DEF Dx, Dy
  <2> QED
    BY <1>2, <1>5, <2>1 DEF Empty
<1>7. Dx(P) * h = Dy(P) * w
  BY <1>2, <1>4
<1>8. Uniform(P, r)
  BY <1>4, <1>5, <1>7 DEF Uniform, w, h
<1> QED
  BY <1>2, <1>3, <1>4, <1>6, <1>8 DEF P, w, h

\* Points are read where they are.
LEMMA Reads ==
    ASSUME IsQuery(query), query.kind = "points", found = Result(query)
    PROVE  AreRead(query)
<1> DEFINE frame == query.frame
           ps == query.points
           s == query.scale
           r == PointsBounds(ps)
           P == Physical(r, s)
           c == Intersect(P, frame.b)
           px == [p \in Points(c) |-> Swap(frame.px[p])]
           img == GrabImage(frame, r, s, "decode")
<1>1. /\ IsImage(frame, 3) /\ ps \in SUBSET (Int \X Int) /\ ps # {} /\ IsFiniteSet(ps)
      /\ s \in Nat \ {0} /\ (s = 1 \/ In(P, frame.b))
  BY DEF IsQuery
<1>2. r \in Rects /\ ~Empty(r) /\ \A p \in ps : p \in Points(r)
  BY <1>1, PointsBoundsHold
<1>3. found = IF Empty(img.b) \/ ~Uniform(img.b, r) THEN Refused
              ELSE [p \in ps |-> img.px[ToImage(p, r, img.b)]]
  BY DEF Result, GetMultiplePixels
<1>4. AreRead(query) =
        IF In(P, frame.b)
        THEN \A p \in ps :
                /\ found[p] = Swap(frame.px[<<p[1] * s, p[2] * s>>])
                /\ ScreenPoint(ToImage(p, r, c), r, c) = p
        ELSE found = Refused
  BY DEF AreRead
<1>5. img = Image(c, px)
  BY DEF GrabImage, Decode
<1>6. img.b = c /\ img.px = px
  BY <1>5, ImageFields
<1> HIDE DEF r, img, frame, ps, s
<1>7. frame.b \in Rects
  BY <1>1 DEF IsImage
<1>8. /\ P \in Rects /\ ~Empty(P) /\ Uniform(P, r) /\ Dx(P) = Dx(r) * s /\ Dy(P) = Dy(r) * s
      /\ Dx(r) \in Nat \ {0} /\ Dy(r) \in Nat \ {0} /\ P.x0 = r.x0 * s /\ P.y0 = r.y0 * s
  BY <1>1, <1>2, PhysicalIs
<1>9. r.x0 \in Int /\ r.y0 \in Int /\ r.x1 \in Int /\ r.y1 \in Int
  BY <1>2, RectFields
<1>10. CASE In(P, frame.b)
  <2>1. c = P
    BY <1>7, <1>8, <1>10, InsideIs
  <2>2. found = [p \in ps |-> px[ToImage(p, r, c)]]
    BY <1>3, <1>6, <1>8, <2>1
  <2> DEFINE w == Dx(r)
             h == Dy(r)
  <2>3. ASSUME NEW p \in ps
        PROVE  /\ found[p] = Swap(frame.px[<<p[1] * s, p[2] * s>>])
               /\ ScreenPoint(ToImage(p, r, c), r, c) = p
    <3> DEFINE a == p[1] - r.x0
               b == p[2] - r.y0
               t == <<p[1] * s, p[2] * s>>
    <3>1. /\ p[1] \in Int /\ p[2] \in Int /\ p = <<p[1], p[2]>>
          /\ a \in 0..(w - 1) /\ b \in 0..(h - 1)
      BY <1>2, <1>9 DEF Points, Dx, Dy
    <3>2. /\ (a * (w * s)) \div w = a * s /\ ((a * s) * w) \div (w * s) = a
          /\ (b * (h * s)) \div h = b * s /\ ((b * s) * h) \div (h * s) = b
      <4>1. a \in Int /\ b \in Int /\ w \in Nat \ {0} /\ h \in Nat \ {0} /\ s \in Nat \ {0}
        BY <1>1, <1>8, <3>1
      <4> HIDE DEF a, b, w, h
      <4> QED
        BY <4>1, ScaledUp
    <3>3. r.x0 * s + a * s = p[1] * s /\ r.y0 * s + b * s = p[2] * s
      BY <1>1, <1>9, <3>1
    <3>4. ToImage(p, r, P) = t
      BY <1>8, <3>2, <3>3 DEF ToImage, ScaleOffset
    <3>5. (p[1] * s) - r.x0 * s = a * s /\ (p[2] * s) - r.y0 * s = b * s
      BY <1>1, <1>9, <3>1
    <3>6. ScreenPoint(t, r, P) = <<r.x0 + a, r.y0 + b>>
      BY <1>8, <3>2, <3>5 DEF ScreenPoint, ScaleOffset
    <3>7. <<r.x0 + a, r.y0 + b>> = p
      BY <1>9, <3>1
    <3>8. t \in Points(P)
      <4>1. P.x0 \in Int /\ P.y0 \in Int /\ P.x1 = P.x0 + w * s /\ P.y1 = P.y0 + h * s
        <5>1. P.x0 \in Int /\ P.y0 \in Int /\ P.x1 \in Int /\ P.y1 \in Int
          BY <1>8, RectFields
        <5>2. P.x1 - P.x0 = w * s /\ P.y1 - P.y0 = h * s
          BY <1>8 DEF Dx, Dy
        <5>3. w * s \in Int /\ h * s \in Int
          BY <1>1, <1>8
        <5> HIDE DEF P, w, h
        <5> QED
          BY <5>1, <5>2, <5>3
      <4>2. a * s \in 0..(w * s - 1) /\ b * s \in 0..(h * s - 1)
        <5>1. a \in Int /\ b \in Int /\ w \in Int /\ h \in Int /\ a >= 0 /\ b >= 0 /\ a <= w - 1 /\ b <= h - 1 /\ s \in Int /\ s >= 1
          BY <1>1, <1>8, <3>1
        <5> HIDE DEF a, b, w, h
        <5>2. a * s >= 0 /\ b * s >= 0 /\ a * s <= (w - 1) * s /\ b * s <= (h - 1) * s
          BY <5>1
        <5>3. (w - 1) * s = w * s - s /\ (h - 1) * s = h * s - s
          BY <5>1
        <5> QED
          BY <5>1, <5>2, <5>3
      <4>3. p[1] * s = P.x0 + a * s /\ p[2] * s = P.y0 + b * s
        BY <1>8, <3>3
      <4>4. w * s \in Int /\ h * s \in Int /\ p[1] * s \in Int /\ p[2] * s \in Int /\ a * s \in Int /\ b * s \in Int
        BY <1>1, <1>8, <3>1
      <4> HIDE DEF P, w, h, a, b
      <4>5. p[1] * s \in P.x0 .. P.x1 - 1 /\ p[2] * s \in P.y0 .. P.y1 - 1
        BY <4>1, <4>2, <4>3, <4>4
      <4> QED
        BY <4>5 DEF Points
    <3>9. found[p] = px[t]
      BY <2>1, <2>2, <3>4
    <3>10. px[t] = Swap(frame.px[t])
      <4> HIDE DEF t, P
      <4> QED
        BY <2>1, <3>8
    <3> QED
      BY <2>1, <3>4, <3>6, <3>7, <3>9, <3>10
  <2> QED
    BY <1>4, <1>10, <2>3
<1>11. CASE ~In(P, frame.b)
  <2>1. P = r
    BY <1>1, <1>2, <1>11, Unscaled
  <2>2. Empty(c) \/ ~Uniform(c, r)
    <3>1. SUFFICES ASSUME ~Empty(c), Uniform(c, r) PROVE FALSE
      OBVIOUS
    <3>2. /\ frame.b.x0 \in Int /\ frame.b.y0 \in Int /\ frame.b.x1 \in Int /\ frame.b.y1 \in Int
      BY <1>7, RectFields
    <3>3. /\ c.x0 = Larger(r.x0, frame.b.x0) /\ c.y0 = Larger(r.y0, frame.b.y0)
          /\ c.x1 = Smaller(r.x1, frame.b.x1) /\ c.y1 = Smaller(r.y1, frame.b.y1)
      BY <2>1 DEF Intersect, Rect
    <3>4. c.x1 - c.x0 >= r.x1 - r.x0 /\ c.y1 - c.y0 >= r.y1 - r.y0
      BY <3>1 DEF Uniform, Dx, Dy
    <3>5. r.x0 >= frame.b.x0 /\ r.x1 <= frame.b.x1
      BY <1>9, <3>2, <3>3, <3>4 DEF Larger, Smaller
    <3>6. r.y0 >= frame.b.y0 /\ r.y1 <= frame.b.y1
      BY <1>9, <3>2, <3>3, <3>4 DEF Larger, Smaller
    <3>7. In(r, frame.b)
      BY <3>5, <3>6 DEF In
    <3> QED
      BY <1>11, <2>1, <3>7
  <2>3. found = Refused
    BY <1>3, <1>6, <2>2
  <2> QED
    BY <1>4, <1>11, <2>3
<1> QED
  BY <1>10, <1>11

-----------------------------------------------------------------------------
(* ScreenSearch: the theorem.                                              *)

\* What has been answered
Answered ==
    /\ query \in Queries
    /\ found # Unanswered => found = Result(query)

\* Every answer of the image searches is exact, whatever the images, the regions,
\* the anchors and the way of capturing: the first place where the reference is
\* (LocateExactInImage), the first region that shows what is wanted (ScanFor), the
\* canonical hash (PixelHashBGRA), the point where the colour is on the screen
\* (PixelFound), and the pixels of the points that are read (GetMultiplePixels).
THEOREM Searches == SearchSpec => []SearchesAreExact
<1>1. SearchInit => Answered
  BY DEF SearchInit, Answered
<1>2. Answered /\ [SearchNext]_searchVars => Answered'
  BY DEF Answered, SearchNext, Ask, searchVars
<1>3. Answered => SearchesAreExact
  <2> SUFFICES ASSUME Answered, found # Unanswered PROVE SearchesAreExact
    BY DEF SearchesAreExact
  <2>1. IsQuery(query) /\ found = Result(query)
    BY QueriesAreQueries DEF Answered
  <2>2. query.kind \in {"locate", "color", "hash", "scan", "points"}
    BY <2>1 DEF IsQuery
  <2>3. CASE query.kind = "locate"
    BY <2>1, <2>3, Locates DEF SearchesAreExact
  <2>4. CASE query.kind = "color"
    BY <2>1, <2>4, Colours DEF SearchesAreExact
  <2>5. CASE query.kind = "hash"
    BY <2>1, <2>5, Hashes DEF SearchesAreExact
  <2>6. CASE query.kind = "scan"
    BY <2>1, <2>6, Scans DEF SearchesAreExact
  <2>7. CASE query.kind = "points"
    BY <2>1, <2>7, Reads DEF SearchesAreExact
  <2> QED
    BY <2>2, <2>3, <2>4, <2>5, <2>6, <2>7
<1> QED
  BY <1>1, <1>2, <1>3, PTL DEF SearchSpec
=============================================================================
