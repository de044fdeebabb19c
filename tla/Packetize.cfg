CONSTANTS
  MTU = 64
  BodyLens <- MCBodyLens
  OtherLens <- MCOtherLens
  CIDLen = 2
  Padding = 1
  MaxPackets = 2
  MaxWrites = 2
SPECIFICATION Spec
INVARIANTS
  FragmentsReassemble
  RecordsInOrder
  CoalescedWithinMTU
