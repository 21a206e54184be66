------------------------------ MODULE DbPgsql -------------------------------
(***************************************************************************)
(* The PostgreSQL driver, dbd_pgsql.c.  The connection of a thread is      *)
(* dropped when libpq has seen it fail, so the first statement after the   *)
(* server was lost fails on the old connection even when the server is     *)
(* back.  Adding a user that was not there stores the key and returns -1:  *)
(* only the update sets the result.  Three deletes do not look at theirs.  *)
(***************************************************************************)
EXTENDS DbDriver

\* Mutant: a broken connection is kept.
get_pqdb_connection_kept(c) == IF conn[c] # "none" THEN conn[c] ELSE IF up THEN "open" ELSE "none"
get_pqdb_connection(c) == IF conn[c] \in {"open", "stale"} THEN conn[c] ELSE IF up THEN "open" ELSE "none"

PQexec(c, op, on, want, prog) == Call(c, get_pqdb_connection(c), op, on, want, prog)
Select(on) == <<Stmt("select", on, Read, 0, -1)>>
One(row) == <<Stmt("get", {row}, Read, 0, -1)>>
Checked(kind, on, v) == <<Stmt(kind, on, v, 0, -1)>>
Unchecked(on) == <<Stmt("delete", on, Gone, 0, 0)>>
\* An insert that succeeds leaves ret at -1; the update sets it.
Upsert(on, v, inserted) == <<Stmt("insert", on, v, inserted, 2), Stmt("update", on, v, 0, -1)>>
pgsql_get_auth_secrets(c, r) == PQexec(c, "get_auth_secrets", InRealm(SecretRows, r), Read, Select(InRealm(SecretRows, r)))
pgsql_get_user_key(c, r, u) == PQexec(c, "get_user_key", {UserRow(r, u)}, Read, One(UserRow(r, u)))
pgsql_get_oauth_key(c, k) == PQexec(c, "get_oauth_key", {OauthRow(k)}, Read, One(OauthRow(k)))
\* ret becomes 0 with the first key: an empty list returns -1.
pgsql_list_oauth_keys(c) == PQexec(c, "list_oauth_keys", OauthRows, Read, <<Stmt("get", OauthRows, Read, 0, -1)>>)
pgsql_set_user_key(c, r, u, k) == PQexec(c, "set_user_key", {UserRow(r, u)}, Is(k), Upsert({UserRow(r, u)}, k, -1))
pgsql_set_oauth_key(c, kid, k) == PQexec(c, "set_oauth_key", {OauthRow(kid)}, Is(k), Upsert({OauthRow(kid)}, k, 0))
pgsql_del_user(c, r, u) == PQexec(c, "del_user", {UserRow(r, u)}, Gone, Unchecked({UserRow(r, u)}))
pgsql_del_oauth_key(c, k) == PQexec(c, "del_oauth_key", {OauthRow(k)}, Gone, Checked("delete", {OauthRow(k)}, Gone))
pgsql_list_users(c, r) == PQexec(c, "list_users", InRealm(UserRows, r), Read, Select(InRealm(UserRows, r)))
pgsql_list_secrets(c, r) == PQexec(c, "list_secrets", InRealm(SecretRows, r), Read, Select(InRealm(SecretRows, r)))
pgsql_del_secret(c, r, ss) == LET on == {SecretRow(r, s) : s \in ss} IN PQexec(c, "del_secret", on, Gone, Unchecked(on))
pgsql_set_secret(c, r, s) == PQexec(c, "set_secret", {SecretRow(r, s)}, Is(Kept), Checked("insert", {SecretRow(r, s)}, Kept))
pgsql_set_permission_ip(c, kind, r, i, del) ==
  LET on == {PeerIpRow(kind, r, i)}
  IN PQexec(c, "set_permission_ip", on, IF del THEN Gone ELSE Is(Kept),
            IF del THEN Checked("delete", on, Gone) ELSE Checked("insert", on, Kept))
pgsql_add_origin(c, o, r) == PQexec(c, "add_origin", {OriginRow(o)}, Is(r), Checked("insert", {OriginRow(o)}, r))
pgsql_del_origin(c, o) == PQexec(c, "del_origin", {OriginRow(o)}, Gone, Checked("delete", {OriginRow(o)}, Gone))
pgsql_list_origins(c) == PQexec(c, "list_origins", OriginRows, Read, Select(OriginRows))
pgsql_set_realm_option_one(c, r, v, o) ==
  LET on == {OptionRow(r, o)}
  IN PQexec(c, "set_realm_option_one", on, IF v > 0 THEN Is(v) ELSE Gone,
            IF v > 0 THEN <<Stmt("delete", on, Gone, 2, 2), Stmt("insert", on, v, 0, -1)>>
                     ELSE <<Stmt("delete", on, Gone, -1, -1)>>)
pgsql_list_realm_options(c, r) == PQexec(c, "list_realm_options", InRealm(OptionRows, r), Read, Select(InRealm(OptionRows, r)))
pgsql_auth_ping(c) == PQexec(c, "auth_ping", SecretRows, Read, Select(SecretRows))
pgsql_get_admin_user(c, a) == PQexec(c, "get_admin_user", {AdminRow(a)}, Read, One(AdminRow(a)))
pgsql_set_admin_user(c, a, r, p) == PQexec(c, "set_admin_user", {AdminRow(a)}, Is(<<r, p>>), Upsert({AdminRow(a)}, <<r, p>>, -1))
pgsql_del_admin_user(c, a) == PQexec(c, "del_admin_user", {AdminRow(a)}, Gone, Unchecked({AdminRow(a)}))
pgsql_list_admin_users(c) == PQexec(c, "list_admin_users", AdminRows, Read, Select(AdminRows))

pgsql_reread_realms == RereadRealms(get_pqdb_connection(Flusher))
pgsql_get_ip_list == update_white_and_black_lists(get_pqdb_connection(Flusher))

\* The functions the driver offers, with the arguments its callers give them.
Reads(c) == \/ pgsql_auth_ping(c) \/ pgsql_list_admin_users(c) \/ pgsql_list_oauth_keys(c) \/ pgsql_list_origins(c)
            \/ \E r \in Realms : pgsql_get_auth_secrets(c, r) \/ \E u \in Users : pgsql_get_user_key(c, r, u)
            \/ \E r \in Realms \cup {NoRealm} : pgsql_list_users(c, r) \/ pgsql_list_secrets(c, r) \/ pgsql_list_realm_options(c, r)
            \/ \E k \in Kids : pgsql_get_oauth_key(c, k)
            \/ \E a \in Admins : pgsql_get_admin_user(c, a)
Writes(c) == \/ \E r \in Realms, u \in Users : pgsql_del_user(c, r, u) \/ \E k \in Keys : pgsql_set_user_key(c, r, u, k)
             \/ \E kid \in Kids : pgsql_del_oauth_key(c, kid) \/ \E k \in Keys : pgsql_set_oauth_key(c, kid, k)
             \/ \E r \in Realms : pgsql_del_secret(c, r, Secrets) \/ \E s \in Secrets : pgsql_del_secret(c, r, {s}) \/ pgsql_set_secret(c, r, s)
             \/ \E kind \in {"allowed", "denied"}, r \in Realms, i \in Ips, del \in BOOLEAN : pgsql_set_permission_ip(c, kind, r, i, del)
             \/ \E o \in Origins : pgsql_del_origin(c, o) \/ \E r \in Realms : pgsql_add_origin(c, o, r)
             \/ \E r \in Realms, o \in Opts, v \in Values : pgsql_set_realm_option_one(c, r, v, o)
             \/ \E a \in Admins : pgsql_del_admin_user(c, a) \/ \E r \in Realms \cup {NoRealm}, p \in Pwds : pgsql_set_admin_user(c, a, r, p)
Refresh == reread_realms \/ pgsql_reread_realms \/ pgsql_get_ip_list

\* A populated database: every row, with the first of its values.
Stored == [x \in UserRows \cup SecretRows \cup OauthRows \cup OriginRows \cup OptionRows
                 \cup PeerIpRows("denied") \cup AdminRows |->
             CASE x[1] \in {"turnusers_lt", "oauth_key"} -> CHOOSE k \in Keys : TRUE
               [] x[1] = "turn_origin_to_realm" -> CHOOSE r \in Realms : TRUE
               [] x[1] = "turn_realm_option" -> CHOOSE v \in Values : v > 0
               [] x[1] = "admin_user" -> <<NoRealm, CHOOSE p \in Pwds : TRUE>>
               [] OTHER -> Kept]

Init == DbInit(Stored)
Next == Environment \/ Refresh \/ \E c \in Clients : Reads(c) \/ Writes(c)
Spec == Init /\ [][Next]_allVars
\* The refreshing thread runs for ever, and an outage of the database ends.
FairSpec == Spec /\ WF_allVars(Refresh) /\ WF_allVars(Recover) /\ \A c \in Clients : WF_allVars(Answered(c) \/ Failed(c))
\* Calls without the refreshing thread, and that thread against writers only.
CallsNext == Environment \/ \E c \in Clients : Reads(c) \/ Writes(c)
RefreshNext == Environment \/ Refresh \/ \E c \in Clients : Writes(c)
-----------------------------------------------------------------------------
\* A write that reports success is in the database when it returns, unless
\* another caller wrote the same row meanwhile.  The three deletes that do not
\* look at the result of their statement are left out.
PgsqlAckKept == \A c \in Clients : /\ last[c] # Idle /\ last[c].ret = 0
                                   /\ last[c].op \notin {"del_user", "del_secret", "del_admin_user"}
                                   => last[c].holds
=============================================================================
