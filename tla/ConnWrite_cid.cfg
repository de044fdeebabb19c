CONSTANTS
  w1 = w1
  w2 = w2
  Writers <- MCWriters
  u1 = u1
  u2 = u2
  UserClosers <- OneCloser
  MaxWrites = 1
  RemoteCID = TRUE
  NumFragments = 2
  MaxSeqNum = 6
  MaxFlightSends = 2
SPECIFICATION Spec
SYMMETRY WriterSymmetry
INVARIANTS
  SeqStrictlyIncreasing
