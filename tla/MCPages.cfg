CONSTANTS
  Base = 4
  HashSize = 2
  SizeRange = 64
  IntRange = 1024
  Infinite <- MCInfinite
  Tolerance = 1
  Torrent <- MCTorrent
  Renamed <- MCRenamed
  User <- MCUser
  Unknown <- MCUnknown
  Settings <- MCSettings
  Ask <- MCAsk
  MaxChanges = 2
  Radix = 3
  Uninitialised = 99
  Sample <- MCSample
  Atom <- MCAtom
  PeerList <- MCPeerList
  RatioUnit = 20
  m_bShowShareRatios = TRUE
  m_iMaxPeersDisplay = 2
SPECIFICATION MCSpec
INVARIANTS
  EveryEntryOnce
  MissedBounded
  SelectionKept
  TextsReadBack
  FilesReadBack
  CutFilesReadBack
  PeersListed
CHECK_DEADLOCK FALSE
