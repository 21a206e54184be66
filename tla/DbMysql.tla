------------------------------ MODULE DbMysql -------------------------------
(***************************************************************************)
(* The MySQL driver, dbd_mysql.c.  A stored key is written with an insert  *)
(* and, when that fails, an update; an option of a realm with a delete and *)
(* an insert; the rest with one statement.  The connection of a thread is  *)
(* pinged before each call and opened again when it does not answer.       *)
(* Tables have the realm column, so the query for older ones is left out.  *)
(***************************************************************************)
EXTENDS DbDriver

\* A cached connection that does not answer a ping is closed and opened again.
get_mydb_connection(c) == IF up THEN "open" ELSE "none"

Query(c, op, on, want, prog) == Call(c, get_mydb_connection(c), op, on, want, prog)
Select(on) == <<Stmt("select", on, Read, 0, -1)>>
Checked(kind, on, v) == <<Stmt(kind, on, v, 0, -1)>>
Upsert(on, v) == <<Stmt("insert", on, v, 0, 2), Stmt("update", on, v, 0, -1)>>
Upsert_deaf(on, v) == <<Stmt("insert", on, v, 0, 0), Stmt("update", on, v, 0, -1)>>
mysql_get_auth_secrets(c, r) == Query(c, "get_auth_secrets", InRealm(SecretRows, r), Read, Select(InRealm(SecretRows, r)))
\* A lookup of one row succeeds only when there is one.
One(row) == <<Stmt("get", {row}, Read, 0, -1)>>
mysql_get_user_key(c, r, u) == Query(c, "get_user_key", {UserRow(r, u)}, Read, One(UserRow(r, u)))
mysql_get_oauth_key(c, k) == Query(c, "get_oauth_key", {OauthRow(k)}, Read, One(OauthRow(k)))
\* ret is never set to 0: the keys are listed and the function returns -1.
mysql_list_oauth_keys(c) == Query(c, "list_oauth_keys", OauthRows, Read, <<Stmt("select", OauthRows, Read, -1, -1)>>)
\* Mutant: an insert that failed is reported as done.
mysql_set_user_key_deaf(c, r, u, k) == Query(c, "set_user_key", {UserRow(r, u)}, Is(k), Upsert_deaf({UserRow(r, u)}, k))
mysql_set_user_key(c, r, u, k) == Query(c, "set_user_key", {UserRow(r, u)}, Is(k), Upsert({UserRow(r, u)}, k))
mysql_set_oauth_key(c, kid, k) == Query(c, "set_oauth_key", {OauthRow(kid)}, Is(k), Upsert({OauthRow(kid)}, k))
mysql_del_user(c, r, u) == Query(c, "del_user", {UserRow(r, u)}, Gone, Checked("delete", {UserRow(r, u)}, Gone))
mysql_del_oauth_key(c, k) == Query(c, "del_oauth_key", {OauthRow(k)}, Gone, Checked("delete", {OauthRow(k)}, Gone))
mysql_list_users(c, r) == Query(c, "list_users", InRealm(UserRows, r), Read, Select(InRealm(UserRows, r)))
mysql_list_secrets(c, r) == Query(c, "list_secrets", InRealm(SecretRows, r), Read, Select(InRealm(SecretRows, r)))
\* The empty secret deletes those of the realm; the result is not looked at.
mysql_del_secret(c, r, ss) == LET on == {SecretRow(r, s) : s \in ss}
                              IN Query(c, "del_secret", on, Gone, <<Stmt("delete", on, Gone, 0, 0)>>)
mysql_set_secret(c, r, s) == Query(c, "set_secret", {SecretRow(r, s)}, Is(Kept), Checked("insert", {SecretRow(r, s)}, Kept))
mysql_set_permission_ip(c, kind, r, i, del) ==
  LET on == {PeerIpRow(kind, r, i)}
  IN Query(c, "set_permission_ip", on, IF del THEN Gone ELSE Is(Kept),
           IF del THEN Checked("delete", on, Gone) ELSE Checked("insert", on, Kept))
mysql_add_origin(c, o, r) == Query(c, "add_origin", {OriginRow(o)}, Is(r), Checked("insert", {OriginRow(o)}, r))
mysql_del_origin(c, o) == Query(c, "del_origin", {OriginRow(o)}, Gone, Checked("delete", {OriginRow(o)}, Gone))
mysql_list_origins(c) == Query(c, "list_origins", OriginRows, Read, Select(OriginRows))
\* The old value goes first, whatever becomes of the new one; 0 removes it and returns -1.
mysql_set_realm_option_one(c, r, v, o) ==
  LET on == {OptionRow(r, o)}
  IN Query(c, "set_realm_option_one", on, IF v > 0 THEN Is(v) ELSE Gone,
           IF v > 0 THEN <<Stmt("delete", on, Gone, 2, 2), Stmt("insert", on, v, 0, -1)>>
                    ELSE <<Stmt("delete", on, Gone, -1, -1)>>)
mysql_list_realm_options(c, r) == Query(c, "list_realm_options", InRealm(OptionRows, r), Read, Select(InRealm(OptionRows, r)))
mysql_auth_ping(c) == Query(c, "auth_ping", SecretRows, Read, Select(SecretRows))
mysql_get_admin_user(c, a) == Query(c, "get_admin_user", {AdminRow(a)}, Read, One(AdminRow(a)))
mysql_set_admin_user(c, a, r, p) == Query(c, "set_admin_user", {AdminRow(a)}, Is(<<r, p>>), Upsert({AdminRow(a)}, <<r, p>>))
mysql_del_admin_user(c, a) == Query(c, "del_admin_user", {AdminRow(a)}, Gone, Checked("delete", {AdminRow(a)}, Gone))
mysql_list_admin_users(c) == Query(c, "list_admin_users", AdminRows, Read, Select(AdminRows))

\* Mutant: the options are not set to their defaults first.
mysql_reread_realms_keep == \/ RereadOrigins(get_mydb_connection(Flusher)) \/ ReadOptions
                            \/ /\ flush.at = "reset" /\ Flush("select", {}, TRUE)
                               /\ UNCHANGED <<dbRest, conn, o_to_realm, options, lists>>
                            \/ \E p \in flush.todo : ApplyOption(p)
mysql_reread_realms == RereadRealms(get_mydb_connection(Flusher))
mysql_get_ip_list == update_white_and_black_lists(get_mydb_connection(Flusher))

\* The functions the driver offers, with the arguments its callers give them.
Reads(c) == \/ mysql_auth_ping(c) \/ mysql_list_admin_users(c) \/ mysql_list_oauth_keys(c) \/ mysql_list_origins(c)
            \/ \E r \in Realms : mysql_get_auth_secrets(c, r) \/ \E u \in Users : mysql_get_user_key(c, r, u)
            \/ \E r \in Realms \cup {NoRealm} : mysql_list_users(c, r) \/ mysql_list_secrets(c, r) \/ mysql_list_realm_options(c, r)
            \/ \E k \in Kids : mysql_get_oauth_key(c, k)
            \/ \E a \in Admins : mysql_get_admin_user(c, a)
Writes(c) == \/ \E r \in Realms, u \in Users : mysql_del_user(c, r, u) \/ \E k \in Keys : mysql_set_user_key(c, r, u, k)
             \/ \E kid \in Kids : mysql_del_oauth_key(c, kid) \/ \E k \in Keys : mysql_set_oauth_key(c, kid, k)
             \/ \E r \in Realms : mysql_del_secret(c, r, Secrets) \/ \E s \in Secrets : mysql_del_secret(c, r, {s}) \/ mysql_set_secret(c, r, s)
             \/ \E kind \in {"allowed", "denied"}, r \in Realms, i \in Ips, del \in BOOLEAN : mysql_set_permission_ip(c, kind, r, i, del)
             \/ \E o \in Origins : mysql_del_origin(c, o) \/ \E r \in Realms : mysql_add_origin(c, o, r)
             \/ \E r \in Realms, o \in Opts, v \in Values : mysql_set_realm_option_one(c, r, v, o)
             \/ \E a \in Admins : mysql_del_admin_user(c, a) \/ \E r \in Realms \cup {NoRealm}, p \in Pwds : mysql_set_admin_user(c, a, r, p)
Refresh == reread_realms \/ mysql_reread_realms \/ mysql_get_ip_list

\* A populated database: every row, with the first of its values.
Stored == [x \in UserRows \cup SecretRows \cup OauthRows \cup OriginRows \cup OptionRows
                 \cup PeerIpRows("denied") \cup AdminRows |->
             CASE x[1] \in {"turnusers_lt", "oauth_key"} -> CHOOSE k \in Keys : TRUE
               [] x[1] = "turn_origin_to_realm" -> CHOOSE r \in Realms : TRUE
               [] x[1] = "turn_realm_option" -> CHOOSE v \in Values : v > 0
               [] x[1] = "admin_user" -> <<NoRealm, CHOOSE p \in Pwds : TRUE>>
               [] OTHER -> Kept]

Init == DbInit(Stored)
Next == Environment \/ Refresh \/ \E c \in Clients : Reads(c) \/ Writes(c)
Spec == Init /\ [][Next]_allVars
\* The refreshing thread runs for ever, and an outage of the database ends.
FairSpec == Spec /\ WF_allVars(Refresh) /\ WF_allVars(Recover) /\ \A c \in Clients : WF_allVars(Answered(c) \/ Failed(c))
\* Calls without the refreshing thread, and that thread against writers only.
CallsNext == Environment \/ \E c \in Clients : Reads(c) \/ Writes(c)
RefreshNext == Environment \/ Refresh \/ \E c \in Clients : Writes(c)
-----------------------------------------------------------------------------
MysqlTypeOK == /\ up \in BOOLEAN /\ calls \in 0..MaxCalls /\ faults \in 0..MaxFaults
               /\ DOMAIN rows \subseteq DOMAIN Stored \cup PeerIpRows("allowed")
               /\ conn \in [Threads -> {"none", "open", "stale", "bad"}]
               /\ DOMAIN options = AllOptions /\ DOMAIN o_to_realm \subseteq Origins

\* A write that reports success is in the database when it returns, unless
\* another caller wrote the same row meanwhile.  del_secret does not look at
\* the result of its statement and is left out.
MysqlAckKept == \A c \in Clients : last[c] # Idle /\ last[c].ret = 0 /\ last[c].op # "del_secret" => last[c].holds
=============================================================================
