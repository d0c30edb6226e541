CONSTANTS
  Users = {u1, u2}
  Domains = {d1}
  Offered <- SomeRoles
  Requests = {r1, r2}
  MaxInvites = 2
  NoOne = NoOne
SPECIFICATION Spec
PROPERTIES
  OwnerControls
SYMMETRY Symmetry
CHECK_DEADLOCK FALSE
