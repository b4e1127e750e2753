SPECIFICATION CoinsSpec
CONSTANTS
    Txids = {t1, t2}
    Unspent = {u1, u2}
    Pruned = pruned
    Missing = missing
    Blocks = {b1, b2}
    NoHash = nohash
INVARIANTS FlagsSound
PROPERTY
    ImplementsStore
