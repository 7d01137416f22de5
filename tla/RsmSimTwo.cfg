SPECIFICATION Spec
CONSTANTS
  Clients = {c1, c2}
  Workers = {w1, w2}
  None = None
SYMMETRY ThreadSymmetry
INVARIANTS OneWorker
