SPECIFICATION RequestsFairSpec
CONSTANTS
    t1 = t1
    t2 = t2
    p1 = p1
    p2 = p2
    Txs = {t1, t2}
    Peers = {p1, p2}
    Preferred = {p1}
    Whitelisted = {p1}
    Hash <- HashTwo
    HashRange = 3
    Parent <- SecondHasParent
    NoTx = NoTx
    NONPREF_PEER_TX_DELAY = 1
    OVERLOADED_PEER_TX_DELAY = 1
    GETDATA_TX_INTERVAL = 2
    MAX_PEER_TX_ANNOUNCEMENTS = 1
    MAX_PEER_TX_IN_FLIGHT = 0
    MaxBack = 1
INVARIANTS SanityCheck Bookkeeping
PROPERTIES ImplementsRules EverythingForgotten
