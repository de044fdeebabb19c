CONSTANTS
  a1 = a1
  a2 = a2
  Addrs <- MCAddrs
  InitAddr = a1
  IsClient = FALSE
  LocalCID = TRUE
  MaxSeq = 7
  ReplayWindow = 3
  QueueCap = 2
  Script <- ServerScript
  Forged <- HarmlessForged
  FirstMsg = 2
  InstallMsgs = {2}
  FinishedMsg = 3
  MaxRetransmit = 1
  FairDgrams <- ServerFair
  UserCloses = TRUE
  CtxErrs = {}
  EpochMod = 4
SPECIFICATION FairSpec
INVARIANTS
  TypeOK
  AppDataDeliveredOnce
PROPERTIES
  AddressMovesForward
  HandshakeCompletes
  LoopsEndOnClose
\* close_notify from the peer ends the connection: the reader exits and no
\* step is left, which is the real end of the program.
CHECK_DEADLOCK FALSE
