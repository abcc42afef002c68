CONSTANTS
  w1 = w1
  w2 = w2
  a = a
  b = b
  f1 = f1
  f2 = f2
  f3 = f3
  NULL = NULL
  Elem = {f1, f2, f3}
  Size = 2
  Worker = {w1, w2}
  Extra = x
  Candidate = {a, b}
  Ballots <- MCBallots
  Batch = 2
  MaxUsr1 = 1
SPECIFICATION FairSpec
INVARIANTS TypeOK NoOvercount PrintsSnapshot MissesAtMostOneFile OneReaderPerFile PlacesInOrder
PROPERTIES ImplementsFifo Terminates
CHECK_DEADLOCK FALSE
