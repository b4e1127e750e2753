SPECIFICATION SignalsSpec
CONSTANTS
    i1 = i1
    i2 = i2
    i3 = i3
    w1 = w1
    w2 = w2
    Interfaces = {i1, i2, i3}
    Walks = {w1, w2}
    MaxEntries = 5
SYMMETRY Symmetric
INVARIANTS Referenced NoneMissed
