SPECIFICATION Spec
CONSTANTS
    q1 = q1
    t1 = t1
    i1 = i1
    r1 = r1
    r2 = r2
    c1 = c1
    c2 = c2
    s1 = s1
    Queries = {q1}
    Streamers = {t1}
    Invalidators = {i1}
    Reopeners = {r1, r2}
    Closers = {c1, c2}
    Subs = {s1}
    Casts <- SafetyCasts
    MaxGens = 3
    MaxNumber = 2
INVARIANTS
    NoUseAfterClose
    ClosedOnceOrOwned
    CloseIsComplete
    NothingRevives
    StaleEventsEnd
