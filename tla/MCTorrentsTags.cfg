CONSTANTS
  f1 = f1
  f2 = f2
  h1 = h1
  h2 = h2
  File = {f1, f2}
  Other = {dot}
  Hash = {h1, h2}
  Named = {h1, h2}
  Junk = Junk
  Empty = Empty
  NoName = NoName
  Tag = {t1}
  NoTag = NoTag
  User = {u1}
  NoUser = NoUser
  m_vecTags = {}
  m_iMaxTorrents = 2
  Settings <- MCSettings
  InitialDirs <- MCInitialDirs
  MaxChanges = 2
SPECIFICATION Spec
PROPERTIES
  BlankMeansNoChange
