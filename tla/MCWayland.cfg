SPECIFICATION FairPartSpec
CONSTANTS
    s1 = s1
    s2 = s2
    c1 = c1
    c2 = c2
    c3 = c3
    c4 = c4
    Calls = {c1, c2, c3, c4}
    Sockets = {s1, s2}
    SockOf <- ThreeAndOne
    NoConn = NoConn
    Trips = {t1, t2}
    Pumps = {p1}
    Bare = {}
    Names = {n1}
    MaxChanges = 1
    Cutters = {p1}
INVARIANTS
    HandlesAreSound
    NoConnectionLeaks
    RoundTripIsBarrier
    UnharmedUntilCut
PROPERTIES
    CallsReturn
CHECK_DEADLOCK FALSE
