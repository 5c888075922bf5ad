SPECIFICATION Spec
CONSTANTS
  Block = {b1, b2, b3, b4}
  Row = {r1, r2}
  Key = {k1, k2}
  Value = {v1, v2}
  NoValue = none
SYMMETRY Symmetry
INVARIANTS TypeOK RefExact OpenIsPrivate StoreIntact
