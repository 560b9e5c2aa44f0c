\* Every policy and kind of failure, with a rewrite and a restart.
SPECIFICATION Spec
CONSTANTS
  c1 = c1
  c2 = c2
  Client = {c1, c2}
  Free = Free
  Policies = {"always", "everysec"}
  Kinds = {"string", "list", "zset"}
  Failures = {"temp", "rename", "kill", "power", "shutdown"}
  MaxCommands = 3
  MaxRewrites = 1
  MaxRestarts = 2
SYMMETRY Symmetry
CHECK_DEADLOCK FALSE

  
  
PROPERTY
  LostOnlyLate
