SPECIFICATION MCSpec
CONSTANTS
  Users = {"u1", "u2", "u3", "u4"}
  Roles = {"system", "admin", "operator", "new"}
  Profiles = {"p1", "p2", "p3", "p4"}
  Centres = {"c1", "c2"}
  Lines = {"l1", "l2"}
  None = None
  Tabs = {t1, t2}
  Edits = {e1, e2}
  InitialUsers <- MCUsers
  InitialRoles <- MCRoles
  InitialProfiles <- MCProfiles
  LineCentre <- MCLineCentre
  RoleCentres <- MCRoleCentres
  Patches <- MCPatches
  RolePatches <- MCRolePatches
  MaxTokens = 3
  CallLimit = 3
  EditLimit = 2
  FaultLimit = 1
  CaptureRows = {c}
  StashedRows = {u}
  ContextRows = {v}
  Values = {1, 2}
  Writers = {w1, w2}
  NoRow = NoRow
  WriteLimit = 3
  MishapLimit = 1
INVARIANT AccessInv
INVARIANT SessionsInv
 
PROPERTY RestoreIsTold
CHECK_DEADLOCK FALSE
