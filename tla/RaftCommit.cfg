SPECIFICATION Spec
CONSTANTS
  A = A
  B = B
  C = C
  Server = {A, B, C}
  MaxTerm = 4
  MaxIndex = 2
SYMMETRY ServerSymmetry
INVARIANTS
  TypeOK
  LeadersKeepCommitted
CHECK_DEADLOCK FALSE
