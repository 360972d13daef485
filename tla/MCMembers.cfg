CONSTANTS
  Client = {c1, c2}
  Login = {1, 2}
  NoLogin = NoLogin
  Pass = {p1, p2}
  NoPass = NoPass
  Access <- MCAccess
  m_iGuestAccess <- Guest
  m_iMemberAccess <- Poster
  NoRequest = NoRequest
  MaxComments = 2
SPECIFICATION Spec
SYMMETRY Interchangeable
INVARIANTS
  TypeOK
  FilesFollow
PROPERTIES
  NoneBecomesAdmin
  PasswordsKept
  ChosenCommentGoes
