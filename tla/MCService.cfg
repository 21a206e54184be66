SPECIFICATION MCSpec
CONSTANTS
  Threads = {t1, t2, t3, t4}
  NullThread = none
  User = {user1, user2}
  NoUser = "nobody"
  Realm = {"d", "o"}
  NoRealm = "norealm"
  DefaultRealm = "d"
  Cred = {1, 2}
  Options <- AuthRuns
  Slot = {slot1, slot2}
  AuthServers = 3
  MaxSession = 1
  MaxNonce = 1
  Conns = {1}
  Names = {"n"}
  Realms = {"r1", "r2"}
  MainRealm = "r1"
  Kinds = {"user", "origin", "ip"}
  AdminRealm <- AdminRealms
  user1 = user1
  user2 = user2
  slot1 = slot1
  slot2 = slot2
SYMMETRY ServiceSymmetry
CHECK_DEADLOCK FALSE
INVARIANTS
  LockSound
  ServedAsProven
PROPERTIES
  TablesKept
  
