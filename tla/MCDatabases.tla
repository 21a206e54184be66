---------------------------- MODULE MCDatabases -----------------------------
(***************************************************************************)
(* The five database drivers, each with two clients that read and write    *)
(* while calls fail and connections break, and with the thread that        *)
(* refreshes the server's tables. The drivers do not meet in one server: a *)
(* behaviour here is a behaviour of one of them, which part names. All use *)
(* the variables of DbDriver.                                              *)
(***************************************************************************)
EXTENDS Integers, Sequences

CONSTANTS Users, Secrets, Kids, Origins, Opts, Ips, Admins, Pwds, Values, Default, NoRealm,
          MaxCalls, MaxFaults   \* the same for every instance

VARIABLE part   \* the instance this behaviour is of

VARIABLES rows, up, conn, busy, last, calls, faults, o_to_realm, options, lists, flush
VARIABLES enabled
VARIABLES disk, fetched
VARIABLES cursor

mysqlVars == <<rows, up, conn, busy, last, calls, faults, o_to_realm, options, lists,
                flush>>
sqliteVars == <<enabled>>
redisVars == <<disk, fetched>>
mongoVars == <<cursor>>

vars == <<part, mysqlVars, sqliteVars, redisVars, mongoVars>>


-----------------------------------------------------------------------------
(* Two clients of the driver for Mysql. *)
MysqlCalls == INSTANCE DbMysql WITH Clients <- {"c1", "c2"}, Realms <- {"r1"},
  Keys <- {"k1", "k2"}, LostReplies <- TRUE

(* The refreshing thread against one writer, with Mysql. *)
MysqlRefresh == INSTANCE DbMysql WITH Clients <- {"c1"}, Realms <- {"r1"}, Keys <- {"k1"},
  LostReplies <- TRUE

(* Two clients of the driver for Pgsql. *)
PgsqlCalls == INSTANCE DbPgsql WITH Clients <- {"c1", "c2"}, Realms <- {"r1"},
  Keys <- {"k1", "k2"}, LostReplies <- TRUE

(* The refreshing thread against one writer, with Pgsql. *)
PgsqlRefresh == INSTANCE DbPgsql WITH Clients <- {"c1"}, Realms <- {"r1"}, Keys <- {"k1"},
  LostReplies <- TRUE

(* Two clients of the driver for Sqlite. *)
SqliteCalls == INSTANCE DbSqlite WITH Clients <- {"c1", "c2"}, Realms <- {"r1"},
  Keys <- {"k1", "k2"}, LostReplies <- FALSE

(* The refreshing thread against one writer, with Sqlite. *)
SqliteRefresh == INSTANCE DbSqlite WITH Clients <- {"c1"}, Realms <- {"r1"}, Keys <- {"k1"},
  LostReplies <- FALSE

(* Two clients of the driver for Redis. *)
RedisCalls == INSTANCE DbRedis WITH Clients <- {"c1", "c2"}, Realms <- {"r1"},
  Keys <- {"k1", "k2"}, LostReplies <- TRUE

(* The refreshing thread against one writer, with Redis. *)
RedisRefresh == INSTANCE DbRedis WITH Clients <- {"c1"}, Realms <- {"r1"}, Keys <- {"k1"},
  LostReplies <- TRUE

(* Two clients of the driver for Mongo. *)
MongoCalls == INSTANCE DbMongo WITH Clients <- {"c1", "c2"}, Realms <- {"r1", "r2"},
  Keys <- {"k1", "k2"}, LostReplies <- TRUE

(* The refreshing thread against one writer, with Mongo. *)
MongoRefresh == INSTANCE DbMongo WITH Clients <- {"c1"}, Realms <- {"r1", "r2"},
  Keys <- {"k1"}, LostReplies <- TRUE

(* A component that this behaviour does not run: its variables keep one value. *)
mysqlOff == rows = 0 /\ up = 0 /\ conn = 0 /\ busy = 0 /\ last = 0 /\ calls = 0
            /\ faults = 0 /\ o_to_realm = 0 /\ options = 0 /\ lists = 0 /\ flush = 0
sqliteOff == enabled = TRUE
redisOff == disk = 0 /\ fetched = 0
mongoOff == cursor = 0

(* The assumptions of the instances, evaluated by TLC.                        *)
ASSUME /\ MysqlCalls!DbAssumption /\ MysqlRefresh!DbAssumption /\ PgsqlCalls!DbAssumption
       /\ PgsqlRefresh!DbAssumption /\ SqliteCalls!DbAssumption
       /\ SqliteRefresh!DbAssumption /\ RedisCalls!DbAssumption /\ RedisRefresh!DbAssumption
       /\ MongoCalls!DbAssumption /\ MongoRefresh!DbAssumption

-----------------------------------------------------------------------------
Init ==
  \/ part = "mysql calls" /\ MysqlCalls!Init /\ sqliteOff /\ redisOff /\ mongoOff
  \/ part = "mysql refresh" /\ MysqlRefresh!Init /\ sqliteOff /\ redisOff /\ mongoOff
  \/ part = "pgsql calls" /\ PgsqlCalls!Init /\ sqliteOff /\ redisOff /\ mongoOff
  \/ part = "pgsql refresh" /\ PgsqlRefresh!Init /\ sqliteOff /\ redisOff /\ mongoOff
  \/ part = "sqlite calls" /\ SqliteCalls!Init /\ redisOff /\ mongoOff
  \/ part = "sqlite refresh" /\ SqliteRefresh!Init /\ redisOff /\ mongoOff
  \/ part = "redis calls" /\ RedisCalls!Init /\ sqliteOff /\ mongoOff
  \/ part = "redis refresh" /\ RedisRefresh!Init /\ sqliteOff /\ mongoOff
  \/ part = "mongo calls" /\ MongoCalls!Init /\ sqliteOff /\ redisOff
  \/ part = "mongo refresh" /\ MongoRefresh!Init /\ sqliteOff /\ redisOff

Next ==
  /\ UNCHANGED part
  /\ \/ part = "mysql calls" /\ MysqlCalls!CallsNext /\ UNCHANGED <<sqliteVars, redisVars,
          mongoVars>>
     \/ part = "mysql refresh" /\ MysqlRefresh!RefreshNext /\ UNCHANGED <<sqliteVars,
          redisVars, mongoVars>>
     \/ part = "pgsql calls" /\ PgsqlCalls!CallsNext /\ UNCHANGED <<sqliteVars, redisVars,
          mongoVars>>
     \/ part = "pgsql refresh" /\ PgsqlRefresh!RefreshNext /\ UNCHANGED <<sqliteVars,
          redisVars, mongoVars>>
     \/ part = "sqlite calls" /\ SqliteCalls!CallsNext /\ UNCHANGED <<redisVars, mongoVars>>
     \/ part = "sqlite refresh" /\ SqliteRefresh!RefreshNext /\ UNCHANGED <<redisVars,
          mongoVars>>
     \/ part = "redis calls" /\ RedisCalls!CallsNext /\ UNCHANGED <<sqliteVars, mongoVars>>
     \/ part = "redis refresh" /\ RedisRefresh!RefreshNext /\ UNCHANGED <<sqliteVars,
          mongoVars>>
     \/ part = "mongo calls" /\ MongoCalls!CallsNext /\ UNCHANGED <<sqliteVars, redisVars>>
     \/ part = "mongo refresh" /\ MongoRefresh!RefreshNext /\ UNCHANGED <<sqliteVars,
          redisVars>>

Spec == Init /\ [][Next]_vars

(* The refreshing thread runs for ever, an outage of the database ends, and a *)
(* statement is answered or fails.  The client reads and writes.              *)
LiveInit == Init /\ part \in {"mysql refresh", "pgsql refresh", "sqlite refresh", "redis refresh", "mongo refresh"}

LiveNext ==
  \/ part = "mysql refresh" /\ MysqlRefresh!Next
     /\ UNCHANGED <<part, sqliteVars, redisVars, mongoVars>>
  \/ part = "pgsql refresh" /\ PgsqlRefresh!Next
     /\ UNCHANGED <<part, sqliteVars, redisVars, mongoVars>>
  \/ part = "sqlite refresh" /\ SqliteRefresh!Next
     /\ UNCHANGED <<part, redisVars, mongoVars>>
  \/ part = "redis refresh" /\ RedisRefresh!Next
     /\ UNCHANGED <<part, sqliteVars, mongoVars>>
  \/ part = "mongo refresh" /\ MongoRefresh!Next
     /\ UNCHANGED <<part, sqliteVars, redisVars>>

Refreshes ==
  \/ part = "mysql refresh" /\ MysqlRefresh!Refresh
     /\ UNCHANGED <<part, sqliteVars, redisVars, mongoVars>>
  \/ part = "pgsql refresh" /\ PgsqlRefresh!Refresh
     /\ UNCHANGED <<part, sqliteVars, redisVars, mongoVars>>
  \/ part = "sqlite refresh" /\ SqliteRefresh!Refresh
     /\ UNCHANGED <<part, redisVars, mongoVars>>
  \/ part = "redis refresh" /\ RedisRefresh!Refresh
     /\ UNCHANGED <<part, sqliteVars, mongoVars>>
  \/ part = "mongo refresh" /\ MongoRefresh!Refresh
     /\ UNCHANGED <<part, sqliteVars, redisVars>>

Recovers ==
  \/ part = "mysql refresh" /\ MysqlRefresh!Recover
     /\ UNCHANGED <<part, sqliteVars, redisVars, mongoVars>>
  \/ part = "pgsql refresh" /\ PgsqlRefresh!Recover
     /\ UNCHANGED <<part, sqliteVars, redisVars, mongoVars>>
  \/ part = "sqlite refresh" /\ SqliteRefresh!Recover /\ UNCHANGED sqliteVars
     /\ UNCHANGED <<part, redisVars, mongoVars>>
  \/ part = "redis refresh" /\ RedisRefresh!Recovers
     /\ UNCHANGED <<part, sqliteVars, mongoVars>>
  \/ part = "mongo refresh" /\ MongoRefresh!Recover /\ UNCHANGED mongoVars
     /\ UNCHANGED <<part, sqliteVars, redisVars>>

Served ==
  \/ part = "mysql refresh" /\ (MysqlRefresh!Answered("c1") \/ MysqlRefresh!Failed("c1"))
     /\ UNCHANGED <<part, sqliteVars, redisVars, mongoVars>>
  \/ part = "pgsql refresh" /\ (PgsqlRefresh!Answered("c1") \/ PgsqlRefresh!Failed("c1"))
     /\ UNCHANGED <<part, sqliteVars, redisVars, mongoVars>>
  \/ part = "sqlite refresh" /\ (SqliteRefresh!Answered("c1") \/ SqliteRefresh!Failed("c1")) /\ UNCHANGED sqliteVars
     /\ UNCHANGED <<part, redisVars, mongoVars>>
  \/ part = "redis refresh" /\ RedisRefresh!Serve("c1")
     /\ UNCHANGED <<part, sqliteVars, mongoVars>>
  \/ part = "mongo refresh" /\ (MongoRefresh!Answered("c1") \/ MongoRefresh!Failed("c1")) /\ UNCHANGED mongoVars
     /\ UNCHANGED <<part, sqliteVars, redisVars>>

LiveSpec == /\ LiveInit /\ [][LiveNext]_vars
            /\ WF_vars(Refreshes) /\ WF_vars(Recovers) /\ WF_vars(Served)

-----------------------------------------------------------------------------
(* With each of the five drivers, a write that reports success is in the      *)
(* database when it returns, unless another caller wrote the same row         *)
(* meanwhile, though statements fail and connections break between its steps. *)
(* Each driver's property names the functions that do not look at the result  *)
(* of their statement, which are left out (the set, add and del functions of  *)
(* the drivers).                                                              *)
AcksKept ==
  /\ part = "mysql calls" => MysqlCalls!MysqlTypeOK
  /\ part = "mysql refresh" => MysqlRefresh!MysqlTypeOK
  /\ part = "mysql calls" => MysqlCalls!MysqlAckKept
  /\ part = "pgsql calls" => PgsqlCalls!PgsqlAckKept
  /\ part = "sqlite calls" => SqliteCalls!SqliteAckKept
  /\ part = "redis calls" => RedisCalls!RedisAckSeen
  /\ part = "mongo calls" => MongoCalls!MongoAckKept

(* A listing or lookup that reports success has every row that was there all  *)
(* along and none that was never there, whatever other callers and faults did *)
(* meanwhile - with Redis and MongoDB, whose drivers return 0 for a listing   *)
(* that failed, too, if none of its statements failed - and a refresh during  *)
(* which nothing was written and nothing failed leaves in memory what the     *)
(* database has (reread_realms, update_white_and_black_lists).                *)
ReadsExact ==
  /\ part = "mysql calls" => MysqlCalls!ListedComplete
  /\ part = "pgsql calls" => PgsqlCalls!ListedComplete
  /\ part = "sqlite calls" => SqliteCalls!ListedComplete
  /\ part = "redis calls" => RedisCalls!ListedIfAnswered
  /\ part = "mongo calls" => MongoCalls!ListedIfAnswered
  /\ part = "mysql refresh" => MysqlRefresh!QuietRefreshExact
  /\ part = "pgsql refresh" => PgsqlRefresh!QuietRefreshExact
  /\ part = "sqlite refresh" => SqliteRefresh!QuietRefreshExact
  /\ part = "redis refresh" => RedisRefresh!QuietRefreshExact
  /\ part = "mongo refresh" => MongoRefresh!MongoRefreshExact

(* When a write through the Redis driver returns and none of its commands     *)
(* failed, its row is on disk, where a restart finds it; and as long as       *)
(* nothing fails, a stored option of a realm that is in force stays in force  *)
(* all through a refresh (redis_set_user_key and the other writes with SAVE,  *)
(* redis_reread_realms).                                                      *)
DurableWithRedis == [][(part = "redis calls" => RedisCalls!RedisAckDurable) /\ (part = "redis refresh" => RedisRefresh!RedisOptionStays)]_vars

TablesCurrent ==
  /\ part = "mysql refresh" => MysqlRefresh!TablesCurrent
  /\ part = "pgsql refresh" => PgsqlRefresh!TablesCurrent
  /\ part = "sqlite refresh" => SqliteRefresh!TablesCurrent
  /\ part = "redis refresh" => RedisRefresh!TablesCurrent
  /\ part = "mongo refresh" => MongoRefresh!MongoTablesCurrent

OptionsCurrent ==
  /\ part = "mysql refresh" => MysqlRefresh!OptionsCurrent
  /\ part = "pgsql refresh" => PgsqlRefresh!OptionsCurrent
  /\ part = "sqlite refresh" => SqliteRefresh!OptionsCurrent
  /\ part = "redis refresh" => RedisRefresh!OptionsCurrent
  /\ part = "mongo refresh" => MongoRefresh!OptionsCurrent

(* The server catches up: once the database stays reachable and unwritten,    *)
(* the origins and the lists of peers in memory come to agree with it and     *)
(* stay so, and the options agree again and again (each refresh starts from   *)
(* the defaults; reread_realms).  With SQLite this holds as long as no thread *)
(* failed to open the file.                                                   *)
CatchesUp == []enabled => <>[]TablesCurrent /\ []<>OptionsCurrent
=============================================================================
