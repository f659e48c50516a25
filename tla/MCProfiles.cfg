SPECIFICATION Spec
CONSTANTS
  builtin = builtin
  own = own
  edit = edit
  tv = tv
  a1 = a1
  a2 = a2
  r1 = r1
  r2 = r2
  Nothing = Nothing
  Torn = Torn
  Ids <- MCIds
  Builtins <- MCBuiltins
  Edits <- MCEdits
  Devices <- MCDevices
  AutoProfile <- MCAuto
  Admins <- MCAdmins
  Requests <- MCRequests
  MaxOps = 3
  MaxClock = 2
  MaxRestarts = 1
SYMMETRY MCSymmetry
INVARIANTS
  Inv
  EditsAndChoicesStand
PROPERTIES
  RequestsForgetNothing
CHECK_DEADLOCK FALSE
