CONSTANTS
  a1 = a1
  a2 = a2
  Addrs <- MCAddrs
  InitAddr = a1
  IsClient = FALSE
  LocalCID = TRUE
  MaxSeq = 7
  ReplayWindow = 3
  QueueCap = 2
  Script <- ServerScript
  Forged <- OnlyGarbage
  FirstMsg = 2
  InstallMsgs = {2}
  FinishedMsg = 3
  MaxRetransmit = 1
  FairDgrams <- ServerFair
  UserCloses = FALSE
  CtxErrs = {}
  EpochMod = 4
SPECIFICATION Spec
INVARIANTS
  NoEncryptedEpochZeroAlert
\* The answer to a forged record ends the connection.
CHECK_DEADLOCK FALSE
