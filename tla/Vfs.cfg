CONSTANTS
  Users = {u1, u2, u3}
  NumSlots = 2
  Handles = {h1, h2}
  Files = {f1, f2}
  None = none
SPECIFICATION Spec
INVARIANTS
  TypeOK
  SlotsOwned
  HandlesOwned
