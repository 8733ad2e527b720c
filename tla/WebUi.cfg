CONSTANTS
  Ids = {a}
  Profiles = {1, 2}
  Offered = {1}
  Ports = {1}
  Mock = 2
  MaxLoads = 2
  None = None
SPECIFICATION Spec
INVARIANTS
  TypeOK UntouchedIsKept
