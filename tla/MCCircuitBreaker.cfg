SPECIFICATION Spec
CONSTANTS
  Workers = {w1, w2, w3}
  Admins = {a1}
  Max = 3
INVARIANTS TypeOK BreakerConsistent OvershootBounded
