SPECIFICATION NtfSpec
CONSTANTS
  Windows = {}
  Locals = {}
  Daemons = {d}
  Volumes = {}
  Nobody = Nobody
  Lifetimes = {0}
  MaxCalls = 3
CHECK_DEADLOCK FALSE
INVARIANT EmptyUrgentTrayHides
