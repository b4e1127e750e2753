SPECIFICATION MiningFairSpec
CONSTANTS
    s1 = s1
    s2 = s2
    a1 = a1
    x1 = x1
    g1 = g1
    l1 = l1
    net = net
    Submit = {s1, s2}
    AuxSubmit = {a1}
    AuxCreate = {x1}
    Template = {g1, l1}
    Longpoll = {l1}
    Net = {net}
    MaxBlock = 2
    Scenes <- Together
    Interfaces <- MCInterfaces
    Walks = {s1, s2, a1, x1, g1, l1, net}
    MaxEntries = 4
    Threads = {"scheduler"}
    Callbacks = {s1, s2, a1}
    Once = {}
    Every = {}
    Delta = 1
    Settings <- MCSettings
INVARIANTS InterfacesServed
PROPERTIES CallsReturn LongpollWakes ShutdownEnds
CHECK_DEADLOCK FALSE
