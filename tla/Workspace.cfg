SPECIFICATION Spec
CONSTANTS
  People = {o, b}
  Owner = o
  Roles = {r}
  Grants <- MCGrants
  NoRole = NoRole
  OwnerRole = OwnerRole
  MaxSeats = 2
  Slots = {s1, p1, p2}
  Pages = {p1, p2}
  Elsewhere = {"invite"}
  Viewer = o
  Clicks = {"invite", "revoke"}
  Loads = {l1, l2}
SYMMETRY MCSymmetry
INVARIANTS
  OwnChangesShow
CHECK_DEADLOCK FALSE
VIEW MCView
