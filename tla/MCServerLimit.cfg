CONSTANTS
  Conn = {k1, k2, k3}
  Listeners = 2
  giMaxConns = 1
  MaxFiles = 1
SPECIFICATION Spec
INVARIANT MaxConns
CHECK_DEADLOCK FALSE
