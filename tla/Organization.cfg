SPECIFICATION OrgSpec
CONSTANTS
  People = {o, a, b}
  Owner = o
  Roles = {r}
  Grants <- MCGrants
  NoRole = NoRole
  OwnerRole = OwnerRole
  MaxSeats = 2
  Slots = {s1, s2}
  Pages = {}
  Elsewhere <- MCElsewhere
SYMMETRY MCSymmetry
INVARIANTS
  RolesInUseAreThere
  MembersWithinSeats
CHECK_DEADLOCK FALSE
