SPECIFICATION FairSpec
CONSTANTS
    s1 = s1
    s2 = s2
    c1 = c1
    c2 = c2
    c3 = c3
    dump = dump
    once = once
    twice = twice
    Threads = {s1, s2}
    Callbacks = {c1, c2, c3}
    Once = {once, twice}
    Every = {dump}
    Delta = 2
    Settings <- NodeAndPool
INVARIANTS QueueOrderly
PROPERTIES CallbacksRun ThreadsEnd
CHECK_DEADLOCK FALSE
