CONSTANTS
  w1 = w1
  w2 = w2
  Writers <- MCWriters
  u1 = u1
  u2 = u2
  UserClosers <- MCClosers
  MaxWrites = 1
  RemoteCID = FALSE
  NumFragments = 2
  MaxSeqNum = 4
  MaxFlightSends = 2
SPECIFICATION Spec
SYMMETRY WriterSymmetry
INVARIANTS
  TypeOK
  SeqStrictlyIncreasing
  SocketClosedOnce
  FirstUserCloseNoError
