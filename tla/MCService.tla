----------------------------- MODULE MCService ------------------------------
(***************************************************************************)
(* What the TURN server keeps for all its threads, each part on small      *)
(* instances of its own: the authentication of requests, the               *)
(* administrator's list of sessions and web pages, the hash maps, and the  *)
(* lock of the SQLite driver. A behaviour here is a behaviour of one of    *)
(* them, which part names. SqliteLock, StunAuth and AdminWeb are extended: *)
(* their constants are those of the configuration.                         *)
(***************************************************************************)
EXTENDS SqliteLock, StunAuth, AdminWeb, TLC

VARIABLE part   \* the instance this behaviour is of

VARIABLES srv, tickets
VARIABLES reports, sessions, started, cancels, moved, cancelled
VARIABLES table, res
VARIABLES lists, valid, addrRes
VARIABLES strLists, strValid, strRes, freed

sessionVars == <<srv, tickets>>
listVars == <<reports, sessions, started, cancels, moved, cancelled>>
lmVars == <<table, res>>
addrVars == <<lists, valid, addrRes>>
strVars == <<strLists, strValid, strRes, freed>>

vars == <<part, lockVars, sessionVars, listVars, authVars, adminVars, lmVars, addrVars,
          strVars>>


(* Users, and requests in the hands of the authentication threads, are        *)
(* interchangeable.                                                           *)
CONSTANTS user1, user2, slot1, slot2
ServiceSymmetry == Permutations({user1, user2}) \cup Permutations({slot1, slot2})

(* Passwords made from shared secrets; a user of the configuration file, with *)
(* a realm that the origin decides; tokens, with a key of another realm.      *)
WithSecrets ==
  [methods |-> {"ALLOCATE", "BINDING"}, oauth |-> FALSE, secrets |-> TRUE, static |-> {}, originRealm |-> "d",
   kidRealm |-> "norealm", checkOrigin |-> FALSE, secureStun |-> TRUE, creds |-> {1, 2}, changes |-> 1]
WithOrigin ==
  [methods |-> {"ALLOCATE", "CREATE_PERMISSION"}, oauth |-> FALSE, secrets |-> FALSE, static |-> User,
   originRealm |-> "o", kidRealm |-> "norealm", checkOrigin |-> TRUE, secureStun |-> FALSE, creds |-> {1, 2}, changes |-> 0]
WithTokens ==
  [methods |-> {"ALLOCATE"}, oauth |-> TRUE, secrets |-> FALSE, static |-> {}, originRealm |-> "d",
   kidRealm |-> "o", checkOrigin |-> FALSE, secureStun |-> FALSE, creds |-> {1}, changes |-> 0]
AuthRuns == {WithSecrets, WithOrigin, WithTokens}

(* An administrator of the server and two of a realm.                         *)
AdminRealms == [root |-> "", one |-> "r1", two |-> "r2"]

-----------------------------------------------------------------------------
(* Two sessions that the administrator lists and cancels. *)
AdminList == INSTANCE AdminSessions WITH User <- {"u"}, Realm <- {"r"}, NoUser <- "nobody",
  Ticket <- {1, 2, 3}, Family <- {4, 6}, UserQuota <- 1, TotalQuota <- 0, Bps <- {0},
  BpsCapacity <- 0, MaxSession <- 2, MaxReports <- 2, MaxCancels <- 1

(* Four keys in two lists of one inline place. *)
Local == INSTANCE LmMap WITH Keys <- {1, 2, 3, 5}, Values <- {"a", "b"}, NoValue <- "none",
  HashSize <- 2, ArraySize <- 1, MaxExtra <- 2

(* Three addresses in two lists of one inline place. *)
Addresses == INSTANCE AddrMap WITH Keys <- {1, 2, 3}, Values <- {"a", "b"},
  NoValue <- "none", MapSize <- 2, ArraySize <- 1, MaxExtra <- 2, res <- addrRes

(* Three names and four values in two lists. *)
Strings == INSTANCE StringMap WITH Keys <- {1, 2, 3}, Values <- {"a", "b", "c", "d"},
  NoValue <- "none", MapSize <- 2, lists <- strLists, valid <- strValid, res <- strRes

(* A component that this behaviour does not run: its variables keep one value. *)
lockOff == LockInit
sessionOff == srv = 0 /\ tickets = 0
listOff == reports = 0 /\ sessions = 0 /\ started = 0 /\ cancels = 0 /\ moved = 0
           /\ cancelled = 0
authOff == AuthInit /\ opt = WithSecrets
webOff == AdminInit
lmOff == table = 0 /\ res = 0
addrOff == lists = 0 /\ valid = 0 /\ addrRes = 0
strOff == strLists = 0 /\ strValid = 0 /\ strRes = 0 /\ freed = 0

(* The assumptions of the instances, evaluated by TLC.                        *)
ASSUME /\ AdminList!AdminSessionsAssumption /\ AdminList!SessionAssumption /\ AuthAssumption /\ AdminAssumption
       /\ Local!LmAssumption /\ Addresses!AddrMapAssumption
       /\ Strings!StringMapAssumption

-----------------------------------------------------------------------------
MCInit ==
  \/ part = "lock" /\ LockInit /\ sessionOff /\ listOff /\ authOff /\ webOff /\ lmOff /\
       addrOff /\ strOff
  \/ part = "list" /\ AdminList!ListInit /\ lockOff /\ authOff /\ webOff /\ lmOff /\ addrOff /\
       strOff
  \/ part = "auth" /\ AuthInit /\ lockOff /\ sessionOff /\ listOff /\ webOff /\ lmOff /\
       addrOff /\ strOff
  \/ part = "web" /\ AdminInit /\ lockOff /\ sessionOff /\ listOff /\ authOff /\ lmOff
       /\ addrOff /\ strOff
  \/ part = "lm" /\ Local!LmInit /\ lockOff /\ sessionOff /\ listOff /\ authOff /\ webOff /\
       addrOff /\ strOff
  \/ part = "addr" /\ Addresses!ur_addr_map_init /\ lockOff /\ sessionOff /\ listOff /\
       authOff /\ webOff /\ lmOff /\ strOff
  \/ part = "str" /\ Strings!ur_string_map_create /\ lockOff /\ sessionOff /\ listOff /\
       authOff /\ webOff /\ lmOff /\ addrOff

MCNext ==
  /\ UNCHANGED part
  /\ \/ part = "lock" /\ LockNext /\ UNCHANGED <<sessionVars, listVars, authVars, adminVars,
          lmVars, addrVars, strVars>>
     \/ part = "list" /\ AdminList!ListNext /\ UNCHANGED <<lockVars, authVars, adminVars, lmVars,
          addrVars, strVars>>
     \/ part = "auth" /\ AuthNext /\ UNCHANGED <<lockVars, sessionVars, listVars, adminVars,
          lmVars, addrVars, strVars>>
     \/ part = "web" /\ AdminNext /\ UNCHANGED <<lockVars, sessionVars, listVars,
          authVars, lmVars, addrVars, strVars>>
     \/ part = "lm" /\ Local!LmNext /\ UNCHANGED <<lockVars, sessionVars, listVars,
          authVars, adminVars, addrVars, strVars>>
     \/ part = "addr" /\ Addresses!AddrNext /\ UNCHANGED <<lockVars, sessionVars, listVars,
          authVars, adminVars, lmVars, strVars>>
     \/ part = "str" /\ Strings!StringNext /\ UNCHANGED <<lockVars, sessionVars, listVars,
          authVars, adminVars, lmVars, addrVars>>

MCSpec == MCInit /\ [][MCNext]_vars

-----------------------------------------------------------------------------
(* The administrator's list, once its buffer is empty, has the sessions with  *)
(* an allocation and no other, however sessions fail, move and end            *)
(* (admin_server_receive_message). Each of the three hash maps implements the *)
(* abstract map MapSpec, through every reuse of a freed slot; their loops     *)
(* meet every key that has a value once; a list grows only when it is full;   *)
(* and a value leaves the string map only by being released, once             *)
(* (ns_turn_maps.c).                                                          *)
TablesKept ==
  /\ [](part = "list" => AdminList!ListExact)
  /\ part = "lm" => Local!Abstract!MapInit
  /\ [][part = "lm" => [Local!Abstract!MapNext]_(Local!Abstract!mapVars)]_vars
  /\ part = "addr" => Addresses!Abstract!MapInit
  /\ [][part = "addr" => [Addresses!Abstract!MapNext]_(Addresses!Abstract!mapVars)]_vars
  /\ part = "str" => Strings!Abstract!MapInit
  /\ [][part = "str" => [Strings!Abstract!MapNext]_(Strings!Abstract!mapVars)]_vars
  /\ [](part = "lm" => Local!LmTypeOK)
  /\ [](part = "lm" => Local!EachOnce)
  /\ [](part = "addr" => Addresses!AddrTypeOK)
  /\ [](part = "addr" => Addresses!AddrEachOnce)
  /\ [][part = "addr" => Addresses!GrowsWhenFull]_vars
  /\ [](part = "str" => Strings!StringTypeOK)
  /\ [](part = "str" => Strings!ReleasedOnce)
  /\ [][part = "str" => Strings!NothingLost]_vars
=============================================================================
