CONSTANTS
  a1 = a1
  a2 = a2
  Addrs <- MCAddrs
  InitAddr = a1
  IsClient = TRUE
  LocalCID = TRUE
  MaxSeq = 7
  ReplayWindow = 3
  QueueCap = 2
  Script <- ClientScript
  Forged <- OnlyGarbage
  FirstMsg = 1
  InstallMsgs = {1, 2}
  FinishedMsg = 3
  MaxRetransmit = 1
  FairDgrams <- ClientFair
  UserCloses = FALSE
  CtxErrs = {"deadline"}
  EpochMod = 4
  EntryPoint = "dial"
  ConfigErrs = {}
SPECIFICATION ConnectSpec
INVARIANTS
  DialReleasesSocket
\* Dial returns an error and nothing is left to run.
CHECK_DEADLOCK FALSE
