SPECIFICATION Spec
CONSTANT
  Sockets = {4, 5, 6}
CHECK_DEADLOCK FALSE
INVARIANT
  NeverKilled
