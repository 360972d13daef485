CONSTANTS
  Hash = {h1}
  Peer = {p1, p2}
  IP = {i1, i2}
  Port = {o1}
  NoKey = NoKey
  Key = {NoKey}
  NoIP = NoIP
  NoPort = NoPort
  NoLeft = NoLeft
  Left = {1}
  m_bCountUniquePeers = FALSE
  m_bKeepDead = TRUE
  m_iDownloaderTimeOutInterval = 0
  m_iSaveDFileInterval = 9
  Slack = 0
  MaxTime = 1
  MaxDone = 0
  MaxCount = 0
  BadIP = {}
  NoNumWant = NoNumWant
  NumWant <- Wanted
  m_iResponseSize = 1
  m_iMaxGive = 2
SPECIFICATION CacheSpec
SYMMETRY Peers
CHECK_DEADLOCK FALSE
INVARIANTS
  NotOneself
