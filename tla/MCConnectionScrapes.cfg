CONSTANTS
  h1 = h1
  h2 = h2
  Hash = {h1, h2}
  Request <- Scrapes
  AllTorrents = AllTorrents
  Garbage = Garbage
  m_iTimeOut = 4
  giMaxRecvSize = 3
  MaxSend = 2
  Slack = 1
  MaxIn = 2
SPECIFICATION Spec
CHECK_DEADLOCK FALSE
INVARIANTS
  ScrapesAsAsked
