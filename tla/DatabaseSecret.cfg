SPECIFICATION Spec
CONSTANTS
  Conns = {c1, c2, c3}
  Keys = {k1, k2, k3}
  None = None
INVARIANT RowsReadable
PROPERTY SecretSettles
CHECK_DEADLOCK FALSE
