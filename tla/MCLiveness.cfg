SPECIFICATION LiveSpec
CONSTANTS
    Ops = {o1, o2}
    Closers = {c1, c2}
    CloseCallers = {c1, c2}
    Errs = {e1}
    NoErr = nil
    Capabilities <- TwoCapabilities
    Required = {"input"}
    Managed = TRUE
    Apps = {a1}
    Opener = opener
    Helpers <- JustDbus
    Essential = {"dbus"}
    Stoppers = {p1}
    d1 = d1
    d2 = d2
    k1 = k1
    k2 = k2
    k3 = k3
    Dirs <- TwoDirs
    Foreign = {d1}
    Calls = {k1, k2, k3}
    Scenes <- OneScan
    Interval = 1
    Grace = 1
    MaxAge = 1
    MaxTime = 4
    MayFail = FALSE
    Nil = Nil
PROPERTIES
    EveryCallReturns
    WaitsEnd
CHECK_DEADLOCK FALSE
