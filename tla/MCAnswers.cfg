CONSTANTS
  Hash = {h1}
  Peer = {p1, p2, p3}
  IP = {i1, i2}
  Port = {o1}
  NoKey = NoKey
  Key = {NoKey}
  NoIP = NoIP
  NoPort = NoPort
  NoLeft = NoLeft
  Left = {0, 1}
  m_bCountUniquePeers = FALSE
  m_bKeepDead = FALSE
  m_iDownloaderTimeOutInterval = 0
  m_iSaveDFileInterval = 9
  Slack = 0
  MaxTime = 3
  MaxDone = 0
  MaxCount = 0
  BadIP = {i2}
  NoNumWant = NoNumWant
  NumWant <- Wanted
  m_iResponseSize = 1
  m_iMaxGive = 2
  m_iRefreshFastCacheInterval = 1
  ListsTime = 1
  MaxPeers = 1
SPECIFICATION AnswersSpec
SYMMETRY Peers
CHECK_DEADLOCK FALSE
INVARIANTS
  CacheTypeOK
  CacheBounded
  NeverStarved
  GiveBounded
  FastTypeOK
  FullyFresh
