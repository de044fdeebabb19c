CONSTANTS
  a1 = a1
  a2 = a2
  Addrs <- MCAddrs
  InitAddr = a1
  IsClient = TRUE
  LocalCID = TRUE
  MaxSeq = 7
  ReplayWindow = 3
  QueueCap = 2
  Script <- ClientScriptTwoRecords
  Forged <- HarmlessForged
  FirstMsg = 1
  InstallMsgs = {1, 2}
  FinishedMsg = 3
  MaxRetransmit = 1
  FairDgrams <- ClientFairTwoRecords
  UserCloses = FALSE
  CtxErrs = {}
  EpochMod = 4
SPECIFICATION FairSpec
INVARIANTS
  AppDataDeliveredOnce
PROPERTIES
  HandshakeCompletes
