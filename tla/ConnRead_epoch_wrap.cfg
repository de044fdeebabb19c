CONSTANTS
  a1 = a1
  a2 = a2
  Addrs <- MCAddrs
  InitAddr = a1
  IsClient = FALSE
  LocalCID = FALSE
  MaxSeq = 7
  ReplayWindow = 3
  QueueCap = 2
  Script <- ServerScript
  Forged <- AllForgedCCS
  FirstMsg = 2
  InstallMsgs = {2}
  FinishedMsg = 3
  MaxRetransmit = 1
  FairDgrams <- ServerFair
  UserCloses = FALSE
  CtxErrs = {"deadline"}
  EpochMod = 4
SPECIFICATION Spec
PROPERTIES
  RemoteEpochMonotonic
CHECK_DEADLOCK FALSE
