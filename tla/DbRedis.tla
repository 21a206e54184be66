------------------------------ MODULE DbRedis -------------------------------
(***************************************************************************)
(* The Redis driver, dbd_redis.c.  A write is a command and a "save" of    *)
(* the whole database to disk; neither reply is looked at and the function *)
(* returns 0.  A listing asks for the keys and then for the value of each. *)
(* A Redis server that is restarted has what was last saved (disk).        *)
(***************************************************************************)
EXTENDS DbDriver, SequencesExt

VARIABLES disk,         \* the rows of the last save
          fetched       \* what the refreshing thread has collected so far
redisVars == <<allVars, disk, fetched>>

get_redis_connection(c) == IF conn[c] \in {"open", "stale"} THEN conn[c] ELSE IF up THEN "open" ELSE "none"

redisCommand(c, op, on, want, prog) ==
  Call(c, get_redis_connection(c), op, on, want, prog) /\ UNCHANGED <<disk, fetched>>
\* A command whose reply is thrown away, then the save.
Saved(kind, on, v) == <<Stmt(kind, on, v, 2, 2), Stmt("save", {}, Read, 0, 0)>>
Saved_not(kind, on, v) == <<Stmt(kind, on, v, 0, 0)>>
Keys_then_values(on) ==
  LET rs == SetToSeq(on)
      n == Len(rs) + 1
  IN [i \in 1..n |-> LET to == IF i = n THEN 0 ELSE i + 1
                     IN IF i = 1 THEN Stmt("select", on, Read, to, 0) ELSE Stmt("fetch", {rs[i - 1]}, Read, to, to)]
One(row) == <<Stmt("get", {row}, Read, 0, -1)>>
\* Two listings return 0 without a connection, too.
ListedAnyway(c, op, on) ==
  /\ busy[c] = Idle /\ calls < MaxCalls /\ get_redis_connection(c) = "none"
  /\ last' = [last EXCEPT ![c] = [op |-> op, ret |-> 0, want |-> Read, got |-> {}, kept |-> on \cap DOMAIN rows,
                                  seen |-> on \cap DOMAIN rows, failed |-> TRUE, holds |-> TRUE]]
  /\ calls' = calls + 1 /\ conn' = [conn EXCEPT ![c] = "none"]
  /\ UNCHANGED <<rows, up, busy, faults, memVars, disk, fetched>>
Listing(c, op, on) == IF get_redis_connection(c) = "none" THEN ListedAnyway(c, op, on)
                      ELSE redisCommand(c, op, on, Read, Keys_then_values(on))

redis_get_auth_secrets(c, r) == redisCommand(c, "get_auth_secrets", InRealm(SecretRows, r), Read, <<Stmt("select", InRealm(SecretRows, r), Read, 0, -1)>>)
redis_get_user_key(c, r, u) == redisCommand(c, "get_user_key", {UserRow(r, u)}, Read, One(UserRow(r, u)))
redis_get_oauth_key(c, k) == redisCommand(c, "get_oauth_key", {OauthRow(k)}, Read, One(OauthRow(k)))
redis_list_oauth_keys(c) == Listing(c, "list_oauth_keys", OauthRows)
\* Mutant: the save is forgotten.
redis_set_user_key_unsaved(c, r, u, k) == redisCommand(c, "set_user_key", {UserRow(r, u)}, Is(k), Saved_not("put", {UserRow(r, u)}, k))
redis_set_user_key(c, r, u, k) == redisCommand(c, "set_user_key", {UserRow(r, u)}, Is(k), Saved("put", {UserRow(r, u)}, k))
redis_set_oauth_key(c, kid, k) == redisCommand(c, "set_oauth_key", {OauthRow(kid)}, Is(k), Saved("put", {OauthRow(kid)}, k))
redis_del_user(c, r, u) == redisCommand(c, "del_user", {UserRow(r, u)}, Gone, Saved("delete", {UserRow(r, u)}, Gone))
redis_del_oauth_key(c, k) == redisCommand(c, "del_oauth_key", {OauthRow(k)}, Gone, Saved("delete", {OauthRow(k)}, Gone))
redis_list_users(c, r) == redisCommand(c, "list_users", InRealm(UserRows, r), Read, <<Stmt("select", InRealm(UserRows, r), Read, 0, 0)>>)
redis_list_secrets(c, r) == redisCommand(c, "list_secrets", InRealm(SecretRows, r), Read, Keys_then_values(InRealm(SecretRows, r)))
\* An empty secret, which stands for all of them, is removed as if it were one.
redis_del_secret(c, r, ss, named) ==
  LET on == {SecretRow(r, s) : s \in ss}
  IN redisCommand(c, IF named THEN "del_secret" ELSE "del_all_secrets", on, Gone, Saved("delete", IF named THEN on ELSE {}, Gone))
\* The secret is removed first (srem, save), then added (sadd, save).
redis_set_secret(c, r, s) ==
  LET on == {SecretRow(r, s)}
  IN redisCommand(c, "set_secret", on, Is(Kept), <<Stmt("delete", on, Gone, 2, 2), Stmt("save", {}, Read, 3, 3),
                                                   Stmt("put", on, Kept, 4, 4), Stmt("save", {}, Read, 0, 0)>>)
redis_set_permission_ip(c, kind, r, i, del) ==
  LET on == {PeerIpRow(kind, r, i)}
  IN redisCommand(c, "set_permission_ip", on, IF del THEN Gone ELSE Is(Kept),
                  IF del THEN Saved("delete", on, Gone) ELSE Saved("put", on, Kept))
redis_add_origin(c, o, r) == redisCommand(c, "add_origin", {OriginRow(o)}, Is(r), Saved("put", {OriginRow(o)}, r))
redis_del_origin(c, o) == redisCommand(c, "del_origin", {OriginRow(o)}, Gone, Saved("delete", {OriginRow(o)}, Gone))
redis_list_origins(c) == redisCommand(c, "list_origins", OriginRows, Read, Keys_then_values(OriginRows))
redis_set_realm_option_one(c, r, v, o) ==
  LET on == {OptionRow(r, o)}
  IN redisCommand(c, "set_realm_option_one", on, IF v > 0 THEN Is(v) ELSE Gone,
                  IF v > 0 THEN Saved("put", on, v) ELSE Saved("delete", on, Gone))
redis_list_realm_options(c, r) == redisCommand(c, "list_realm_options", InRealm(OptionRows, r), Read, Keys_then_values(InRealm(OptionRows, r)))
redis_auth_ping(c) == redisCommand(c, "auth_ping", OriginRows, Read, <<Stmt("select", OriginRows, Read, 0, 0)>>)
redis_get_admin_user(c, a) == redisCommand(c, "get_admin_user", {AdminRow(a)}, Read, One(AdminRow(a)))
\* Without a realm the field "realm" of an admin user keeps what it has.
redis_set_admin_user(c, a, r, p) ==
  redisCommand(c, "set_admin_user", {AdminRow(a)}, Is(<<r, p>>),
               Saved(IF r # NoRealm THEN "put" ELSE "hmset", {AdminRow(a)}, <<r, p>>))
redis_del_admin_user(c, a) == redisCommand(c, "del_admin_user", {AdminRow(a)}, Gone, Saved("delete", {AdminRow(a)}, Gone))
redis_list_admin_users(c) == Listing(c, "list_admin_users", AdminRows)

-----------------------------------------------------------------------------
(* The refreshing thread: keys of the origins, the realm of each, then the  *)
(* new map is installed; then one get per realm and option, in which an     *)
(* option that is not there, or a get that fails, gives the default.        *)
redisRest == <<dbRest, lists, disk>>
redis_keys_origins(k) ==
  /\ flush.at = "origins" /\ fetched' = <<>>
  /\ IF Works(k) /\ DOMAIN OriginsOf(rows) # {} THEN Flush("fetch", DOMAIN OriginsOf(rows), TRUE) /\ o_to_realm' = o_to_realm
     ELSE /\ IF k = "none" THEN Flush("lists", {}, FALSE) ELSE Flush("options", AllOptions, Works(k))
          /\ o_to_realm' = IF Works(k) THEN <<>> ELSE o_to_realm
  /\ FlushConn(k, Works(k)) /\ UNCHANGED <<redisRest, options>>
redis_get_origin(o) ==
  LET k == conn[Flusher]
      new == IF Works(k) /\ OriginRow(o) \in DOMAIN rows
               THEN [x \in DOMAIN fetched \cup {o} |-> IF x = o THEN rows[OriginRow(o)] ELSE fetched[x]] ELSE fetched
  IN /\ flush.at = "fetch" /\ o \in flush.todo
     /\ IF flush.todo = {o} THEN Flush("options", AllOptions, Works(k)) /\ o_to_realm' = new /\ fetched' = <<>>
                            ELSE Flush("fetch", flush.todo \ {o}, Works(k)) /\ fetched' = new /\ o_to_realm' = o_to_realm
     /\ FlushConn(k, Works(k)) /\ UNCHANGED <<redisRest, options>>
set_redis_realm_opt(x, k) == IF Works(k) THEN OptionOf(rows, x) ELSE Default
redis_reread_option(x, k) ==
  /\ flush.at = "options" /\ x \in flush.todo
  /\ options' = [options EXCEPT ![x] = set_redis_realm_opt(x, k)]
  /\ Flush(IF flush.todo = {x} THEN "lists" ELSE "options", flush.todo \ {x}, Works(k))
  /\ FlushConn(k, Works(k)) /\ UNCHANGED <<redisRest, o_to_realm, fetched>>
redis_reread_realms == \/ redis_keys_origins(get_redis_connection(Flusher))
                       \/ \E o \in Origins : redis_get_origin(o)
                       \/ \E x \in AllOptions : redis_reread_option(x, get_redis_connection(Flusher))

\* The lists of peers: the keys, then the members of each, realm after realm.
redis_keys_ip(kind, from, each, to) ==
  LET k == get_redis_connection(Flusher)
      rs == {x[2] : x \in PeersOf(rows, kind)}
  IN /\ flush.at = from /\ fetched' = <<>>
     /\ IF Works(k) /\ rs # {} THEN Flush(each, rs, TRUE) /\ lists' = lists
                             ELSE Flush(to, {}, Works(k)) /\ lists' = [lists EXCEPT ![kind] = {}]
     /\ FlushConn(k, Works(k)) /\ UNCHANGED <<dbRest, disk, o_to_realm, options>>
redis_smembers_ip(kind, each, to, r) ==
  LET k == conn[Flusher]
      new == IF Works(k) THEN [x \in DOMAIN fetched \cup InRealm(PeersOf(rows, kind), r) |-> Kept] ELSE fetched
  IN /\ flush.at = each /\ r \in flush.todo
     /\ IF flush.todo = {r} THEN Flush(to, {}, Works(k)) /\ lists' = [lists EXCEPT ![kind] = DOMAIN new] /\ fetched' = <<>>
                            ELSE Flush(each, flush.todo \ {r}, Works(k)) /\ fetched' = new /\ lists' = lists
     /\ FlushConn(k, Works(k)) /\ UNCHANGED <<dbRest, disk, o_to_realm, options>>
redis_get_ip_list == \/ redis_keys_ip("allowed", "lists", "each", "denied") \/ redis_keys_ip("denied", "denied", "eachdenied", "sleep")
                     \/ \E r \in Realms : \/ redis_smembers_ip("allowed", "each", "denied", r)
                                           \/ redis_smembers_ip("denied", "eachdenied", "sleep", r)

\* The functions the driver offers, with the arguments its callers give them.
Reads(c) == \/ redis_auth_ping(c) \/ redis_list_admin_users(c) \/ redis_list_oauth_keys(c) \/ redis_list_origins(c)
            \/ \E r \in Realms : redis_get_auth_secrets(c, r) \/ \E u \in Users : redis_get_user_key(c, r, u)
            \/ \E r \in Realms \cup {NoRealm} : redis_list_users(c, r) \/ redis_list_secrets(c, r) \/ redis_list_realm_options(c, r)
            \/ \E k \in Kids : redis_get_oauth_key(c, k)
            \/ \E a \in Admins : redis_get_admin_user(c, a)
Writes(c) == \/ \E r \in Realms, u \in Users : redis_del_user(c, r, u) \/ \E k \in Keys : redis_set_user_key(c, r, u, k)
             \/ \E kid \in Kids : redis_del_oauth_key(c, kid) \/ \E k \in Keys : redis_set_oauth_key(c, kid, k)
             \/ \E r \in Realms : redis_del_secret(c, r, Secrets, FALSE) \/ \E s \in Secrets : redis_del_secret(c, r, {s}, TRUE) \/ redis_set_secret(c, r, s)
             \/ \E kind \in {"allowed", "denied"}, r \in Realms, i \in Ips, del \in BOOLEAN : redis_set_permission_ip(c, kind, r, i, del)
             \/ \E o \in Origins : redis_del_origin(c, o) \/ \E r \in Realms : redis_add_origin(c, o, r)
             \/ \E r \in Realms, o \in Opts, v \in Values : redis_set_realm_option_one(c, r, v, o)
             \/ \E a \in Admins : redis_del_admin_user(c, a) \/ \E r \in Realms \cup {NoRealm}, p \in Pwds : redis_set_admin_user(c, a, r, p)
Refresh == (reread_realms /\ UNCHANGED <<disk, fetched>>) \/ redis_reread_realms \/ redis_get_ip_list

\* A populated database: every row, with the first of its values.
Stored == [x \in UserRows \cup SecretRows \cup OauthRows \cup OriginRows \cup OptionRows
                 \cup PeerIpRows("denied") \cup AdminRows |->
             CASE x[1] \in {"turnusers_lt", "oauth_key"} -> CHOOSE k \in Keys : TRUE
               [] x[1] = "turn_origin_to_realm" -> CHOOSE r \in Realms : TRUE
               [] x[1] = "turn_realm_option" -> CHOOSE v \in Values : v > 0
               [] x[1] = "admin_user" -> <<NoRealm, CHOOSE p \in Pwds : TRUE>>
               [] OTHER -> Kept]

\* A save that is answered writes the disk; one whose answer is lost may have.
Saves(c) == busy[c] # Idle /\ busy[c].prog[busy[c].pc].kind = "save"
Serve(c) == /\ fetched' = fetched
            /\ \/ Answered(c) /\ disk' = IF Saves(c) THEN rows ELSE disk
               \/ Failed(c) /\ disk' \in IF Saves(c) /\ LostReplies THEN {disk, rows} ELSE {disk}
Recovers == Recover /\ UNCHANGED <<disk, fetched>>
\* The server dies; what was not saved is gone.
Restarted == /\ up /\ faults < MaxFaults /\ faults' = faults + 1 /\ up' = FALSE /\ rows' = disk
             /\ conn' = [t \in Threads |-> IF conn[t] = "open" THEN "stale" ELSE conn[t]]
             /\ busy' = Noticed(busy, Flusher, disk)
             /\ UNCHANGED <<last, calls, o_to_realm, options, lists, disk, fetched>> /\ FlushNotes
Disturbed == (Lose /\ UNCHANGED <<disk, fetched>>) \/ Recovers \/ Restarted \/ \E c \in Clients : Serve(c)

Init == DbInit(Stored) /\ disk = rows /\ fetched = <<>>
Next == Disturbed \/ Refresh \/ \E c \in Clients : Reads(c) \/ Writes(c)
Spec == Init /\ [][Next]_redisVars
\* The refreshing thread runs for ever, and an outage of the database ends.
FairSpec == Spec /\ WF_redisVars(Refresh) /\ WF_redisVars(Recovers) /\ \A c \in Clients : WF_redisVars(Serve(c))
\* Calls without the refreshing thread, and that thread against writers only.
CallsNext == Disturbed \/ \E c \in Clients : Reads(c) \/ Writes(c)
RefreshNext == Disturbed \/ Refresh \/ \E c \in Clients : Writes(c)
-----------------------------------------------------------------------------
\* Removing all the secrets, and setting an admin user without a realm.
Partial(l) == l.op = "del_all_secrets" \/ (l.op = "set_admin_user" /\ l.want.val[1] = NoRealm)

\* A write none of whose commands failed is in the database when it returns,
\* unless another caller wrote the same row meanwhile.  The two functions of
\* which Partial speaks are left out.
RedisAckSeen == \A c \in Clients : Succeeded(c) /\ ~Partial(last[c]) => last[c].holds

\* The same for every function: what turnadmin reports as done is done.
\* The code does not keep this (README).
RedisAckKept == \A c \in Clients : Succeeded(c) => last[c].holds

\* When a write returns and none of its commands failed, its row is on disk:
\* a restart of the server later on cannot lose it.
RedisAckDurable ==
  \A c \in Clients : LET f == busy[c] IN
    (/\ f # Idle /\ f.want.how = "is" /\ ~f.touched /\ busy'[c] = Idle
     /\ ~last'[c].failed /\ ~Partial(last'[c]))
    => \A x \in f.on : x \in DOMAIN disk' /\ disk'[x] = f.want.val

\* As long as nothing fails, a stored option of a realm that is in force stays
\* in force all through a refresh.
RedisOptionStays ==
  \A x \in AllOptions : /\ OptionRow(x[1], x[2]) \in DOMAIN rows /\ options[x] = OptionOf(rows, x) /\ rows' = rows
                         /\ Works(get_redis_connection(Flusher))
    => options'[x] = options[x]
=============================================================================
