------------------------------ MODULE DbSqlite ------------------------------
(***************************************************************************)
(* The SQLite driver, dbd_sqlite.c.  Every function is one statement under *)
(* the driver's read-write lock (SqliteLock); a write replaces the row.    *)
(* The database is a file that other processes, such as turnadmin, write   *)
(* too: while it cannot be used (up is FALSE) a statement is either not    *)
(* prepared, and the function returns -1, or prepared and not carried out, *)
(* and a function that writes returns 0, for it does not look at the       *)
(* result of the step.  A thread that cannot open the file turns the       *)
(* database off for the whole process.                                     *)
(***************************************************************************)
EXTENDS DbDriver

VARIABLE enabled        \* userdb_type has not been set to TURN_USERDB_TYPE_UNKNOWN
sqVars == <<allVars, enabled>>

get_sqlite_connection(c) == IF conn[c] = "local" \/ up THEN "local" ELSE "none"
\* An open that fails disables the driver: get_dbdriver returns NULL from then on.
Opens(c) == enabled' = (enabled /\ get_sqlite_connection(c) # "none")

Locked(c, op, on, want, prog) == enabled /\ Call(c, get_sqlite_connection(c), op, on, want, prog) /\ Opens(c)
\* Both functions that read and functions that write fail when the statement is
\* not prepared; a step that fails is noticed by the former only.
Rows(on) == <<Stmt("select", on, Read, 0, -1)>>
Row(row) == <<Stmt("get", {row}, Read, 0, -1)>>
Step(kind, on, v, e) == <<Stmt(kind, on, v, 0, e)>>
Unnoticed == {0, -1}    \* what a write that was not carried out returns

sqlite_get_auth_secrets(c, r) == Locked(c, "get_auth_secrets", InRealm(SecretRows, r), Read, Rows(InRealm(SecretRows, r)))
sqlite_get_user_key(c, r, u) == Locked(c, "get_user_key", {UserRow(r, u)}, Read, Row(UserRow(r, u)))
sqlite_get_oauth_key(c, k) == Locked(c, "get_oauth_key", {OauthRow(k)}, Read, Row(OauthRow(k)))
sqlite_list_oauth_keys(c) == Locked(c, "list_oauth_keys", OauthRows, Read, Rows(OauthRows))
sqlite_set_user_key(c, r, u, k) == \E e \in Unnoticed : Locked(c, "set_user_key", {UserRow(r, u)}, Is(k), Step("put", {UserRow(r, u)}, k, e))
sqlite_set_oauth_key(c, kid, k) == \E e \in Unnoticed : Locked(c, "set_oauth_key", {OauthRow(kid)}, Is(k), Step("put", {OauthRow(kid)}, k, e))
sqlite_del_user(c, r, u) == \E e \in Unnoticed : Locked(c, "del_user", {UserRow(r, u)}, Gone, Step("delete", {UserRow(r, u)}, Gone, e))
sqlite_del_oauth_key(c, k) == \E e \in Unnoticed : Locked(c, "del_oauth_key", {OauthRow(k)}, Gone, Step("delete", {OauthRow(k)}, Gone, e))
sqlite_list_users(c, r) == Locked(c, "list_users", InRealm(UserRows, r), Read, Rows(InRealm(UserRows, r)))
sqlite_list_secrets(c, r) == Locked(c, "list_secrets", InRealm(SecretRows, r), Read, Rows(InRealm(SecretRows, r)))
sqlite_del_secret(c, r, ss) == LET on == {SecretRow(r, s) : s \in ss}
                               IN \E e \in Unnoticed : Locked(c, "del_secret", on, Gone, Step("delete", on, Gone, e))
sqlite_set_secret(c, r, s) == \E e \in Unnoticed : Locked(c, "set_secret", {SecretRow(r, s)}, Is(Kept), Step("put", {SecretRow(r, s)}, Kept, e))
sqlite_add_origin(c, o, r) == \E e \in Unnoticed : Locked(c, "add_origin", {OriginRow(o)}, Is(r), Step("put", {OriginRow(o)}, r, e))
sqlite_del_origin(c, o) == \E e \in Unnoticed : Locked(c, "del_origin", {OriginRow(o)}, Gone, Step("delete", {OriginRow(o)}, Gone, e))
sqlite_list_origins(c) == Locked(c, "list_origins", OriginRows, Read, Rows(OriginRows))
\* The value 0, which removes the option in the other drivers, is refused at once.
sqlite_set_realm_option_one(c, r, v, o) ==
  /\ v > 0
  /\ \E e \in Unnoticed : Locked(c, "set_realm_option_one", {OptionRow(r, o)}, Is(v), Step("put", {OptionRow(r, o)}, v, e))
sqlite_list_realm_options(c, r) == Locked(c, "list_realm_options", InRealm(OptionRows, r), Read, Rows(InRealm(OptionRows, r)))
sqlite_set_permission_ip(c, kind, r, i, del) ==
  LET on == {PeerIpRow(kind, r, i)}
  IN \E e \in Unnoticed : Locked(c, "set_permission_ip", on, IF del THEN Gone ELSE Is(Kept),
                                 IF del THEN Step("delete", on, Gone, e) ELSE Step("put", on, Kept, e))
sqlite_get_admin_user(c, a) == Locked(c, "get_admin_user", {AdminRow(a)}, Read, Row(AdminRow(a)))
sqlite_set_admin_user(c, a, r, p) == \E e \in Unnoticed : Locked(c, "set_admin_user", {AdminRow(a)}, Is(<<r, p>>), Step("put", {AdminRow(a)}, <<r, p>>, e))
sqlite_del_admin_user(c, a) == \E e \in Unnoticed : Locked(c, "del_admin_user", {AdminRow(a)}, Gone, Step("delete", {AdminRow(a)}, Gone, e))
sqlite_list_admin_users(c) == Locked(c, "list_admin_users", AdminRows, Read, Rows(AdminRows))

\* Without a driver the realms stay as they are and the new lists are empty.
sqlite_reread_realms ==
  \/ enabled /\ RereadRealms(get_sqlite_connection(Flusher)) /\ Opens(Flusher)
  \/ /\ ~enabled /\ flush.at \in {"origins", "reset", "select", "apply"} /\ Flush("lists", {}, FALSE)
     /\ UNCHANGED <<dbRest, conn, o_to_realm, options, lists, enabled>>
sqlite_get_ip_list ==
  LET k == IF enabled THEN get_sqlite_connection(Flusher) ELSE "none"
  IN update_white_and_black_lists(k) /\ enabled' = (enabled /\ k # "none")

\* The functions the driver offers, with the arguments its callers give them.
Reads(c) == \/ sqlite_list_admin_users(c) \/ sqlite_list_oauth_keys(c) \/ sqlite_list_origins(c)
            \/ \E r \in Realms : sqlite_get_auth_secrets(c, r) \/ \E u \in Users : sqlite_get_user_key(c, r, u)
            \/ \E r \in Realms \cup {NoRealm} : sqlite_list_users(c, r) \/ sqlite_list_secrets(c, r) \/ sqlite_list_realm_options(c, r)
            \/ \E k \in Kids : sqlite_get_oauth_key(c, k)
            \/ \E a \in Admins : sqlite_get_admin_user(c, a)
Writes(c) == \/ \E r \in Realms, u \in Users : sqlite_del_user(c, r, u) \/ \E k \in Keys : sqlite_set_user_key(c, r, u, k)
             \/ \E kid \in Kids : sqlite_del_oauth_key(c, kid) \/ \E k \in Keys : sqlite_set_oauth_key(c, kid, k)
             \/ \E r \in Realms : sqlite_del_secret(c, r, Secrets) \/ \E s \in Secrets : sqlite_del_secret(c, r, {s}) \/ sqlite_set_secret(c, r, s)
             \/ \E kind \in {"allowed", "denied"}, r \in Realms, i \in Ips, del \in BOOLEAN : sqlite_set_permission_ip(c, kind, r, i, del)
             \/ \E o \in Origins : sqlite_del_origin(c, o) \/ \E r \in Realms : sqlite_add_origin(c, o, r)
             \/ \E r \in Realms, o \in Opts, v \in Values : sqlite_set_realm_option_one(c, r, v, o)
             \/ \E a \in Admins : sqlite_del_admin_user(c, a) \/ \E r \in Realms \cup {NoRealm}, p \in Pwds : sqlite_set_admin_user(c, a, r, p)
Refresh == (reread_realms /\ enabled' = enabled) \/ sqlite_reread_realms \/ sqlite_get_ip_list

\* A populated database: every row, with the first of its values.
Stored == [x \in UserRows \cup SecretRows \cup OauthRows \cup OriginRows \cup OptionRows
                 \cup PeerIpRows("denied") \cup AdminRows |->
             CASE x[1] \in {"turnusers_lt", "oauth_key"} -> CHOOSE k \in Keys : TRUE
               [] x[1] = "turn_origin_to_realm" -> CHOOSE r \in Realms : TRUE
               [] x[1] = "turn_realm_option" -> CHOOSE v \in Values : v > 0
               [] x[1] = "admin_user" -> <<NoRealm, CHOOSE p \in Pwds : TRUE>>
               [] OTHER -> Kept]

Init == DbInit(Stored) /\ enabled = TRUE
Disturbed == Environment /\ enabled' = enabled
Next == Disturbed \/ Refresh \/ \E c \in Clients : Reads(c) \/ Writes(c)
Spec == Init /\ [][Next]_sqVars
\* The refreshing thread runs for ever, and an outage of the database ends.
FairSpec == Spec /\ WF_sqVars(Refresh) /\ WF_sqVars(Recover /\ enabled' = enabled)
                 /\ \A c \in Clients : WF_sqVars((Answered(c) \/ Failed(c)) /\ enabled' = enabled)
\* Calls without the refreshing thread, and that thread against writers only.
CallsNext == Disturbed \/ \E c \in Clients : Reads(c) \/ Writes(c)
RefreshNext == Disturbed \/ Refresh \/ \E c \in Clients : Writes(c)
-----------------------------------------------------------------------------
\* A write that reports success is in the database when it returns, unless
\* another caller wrote the same row meanwhile or its statement was not
\* carried out, which the driver does not look at.
SqliteAckKept == \A c \in Clients : last[c] # Idle /\ last[c].ret = 0 /\ ~last[c].failed => last[c].holds

\* The same without the exception: what turnadmin reports as added is there.
\* The code does not keep this (README).
SqliteAddedIsThere == \A c \in Clients : last[c] # Idle /\ last[c].ret = 0 => last[c].holds

=============================================================================
