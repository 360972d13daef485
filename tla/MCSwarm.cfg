CONSTANTS
  Hash = {h1}
  Peer = {p1, p2}
  IP = {i1, i2}
  Port = {o1}
  NoKey = NoKey
  Key = {NoKey, k1, k2}
  NoIP = NoIP
  NoPort = NoPort
  NoLeft = NoLeft
  Left = {0}
  m_bCountUniquePeers = TRUE
  m_bKeepDead = FALSE
  m_iDownloaderTimeOutInterval = 1
  m_iSaveDFileInterval = 9
  Slack = 0
  MaxTime = 6
  MaxDone = 0
  MaxCount = 4
SPECIFICATION Spec
SYMMETRY Interchangeable
CHECK_DEADLOCK FALSE
INVARIANTS
  TypeOK
  SilenceBounded
  NeverUnderCounted
PROPERTIES
  OnlySilentExpire
  KeepsPromises
