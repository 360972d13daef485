CONSTANTS
  Hash = {h1, h2}
  Peer = {p1}
  IP = {i1}
  Port = {o1}
  NoKey = NoKey
  Key = {NoKey, k1}
  NoIP = NoIP
  NoPort = NoPort
  NoLeft = NoLeft
  Left = {0}
  m_bCountUniquePeers = TRUE
  m_bKeepDead = TRUE
  m_iDownloaderTimeOutInterval = 1
  m_iSaveDFileInterval = 2
  Slack = 0
  MaxTime = 3
  MaxDone = 1
  MaxCount = 2
SPECIFICATION Spec
SYMMETRY Interchangeable
CHECK_DEADLOCK FALSE
INVARIANTS
  EveryPeerTimed
  DiskNeverAhead
  NeverUnderCounted
PROPERTIES
  ImplementsRoster
