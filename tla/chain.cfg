SPECIFICATION Spec
CONSTANTS
  g = g
  a1 = a1
  a2 = a2
  b1 = b1
  b2 = b2
  b3 = b3
  t1 = t1
  t2 = t2
  Blocks <- Tree
  Genesis = g
  Parent <- TreeParent
  Proof <- TreeProof
  Addr <- TreeAddr
  Threads = {t1, t2}
  NoBlock = NoBlock
  Settings <- All
  MaxSeq = 8
  MaxPairs = 1
  MaxPrecious = 1
INVARIANTS AssertsHold TipIsBest IndexConsistent CandidatesExact DiskConsistent
PROPERTY ActivationEnds
CHECK_DEADLOCK FALSE
