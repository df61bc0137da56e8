\* Two provisioners that change Keycloak, one that plans, one change by others.
SPECIFICATION Spec
CONSTANTS
  p1 = p1
  p2 = p2
  p3 = p3
  Provisioners = {p1, p2, p3}
  DryRuns = {p3}
  Realm = "realm"
  Client = "client"
  RealmRoles <- NoRoles
  ClientRoles <- TwiceRole
  MaxRuns = 1
  MaxDrift = 1
SYMMETRY Symmetry
INVARIANTS
  TypeOK
  EveryItemIsReported
  ReportedIsCurrent
  RerunIsIdle
CHECK_DEADLOCK FALSE
