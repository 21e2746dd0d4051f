\* Two requests at once, any number of them in sequence, over three users.
SPECIFICATION Spec
CONSTANTS
  Users = {u1, u2, u3}
  Nobody = Nobody
  Slots = {p, q}
  NewRooms <- AnyRoom
  NewRoles = {"admin", "member"}
  MaxRows = 3
  LowestCount = 1
SYMMETRY Alike
INVARIANTS CountNeverOverstates CalmCountExact OverrunBounded CalmAdminRemains
PROPERTIES CalmLeaversStayOut CalmRolesByAdmins
CHECK_DEADLOCK FALSE
