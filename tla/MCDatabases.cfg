SPECIFICATION Spec
CONSTANTS
  Users = {"u1"}
  Secrets = {"s1"}
  Kids = {"kid1"}
  Origins = {"o1"}
  Opts = {"total-quota"}
  Ips = {"ip1"}
  Admins = {"a1"}
  Pwds = {"p1"}
  Values = {0, 7}
  Default = 3
  NoRealm = ""
  MaxCalls = 2
  MaxFaults = 1
CHECK_DEADLOCK FALSE
INVARIANTS
  AcksKept
  

  
