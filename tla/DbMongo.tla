------------------------------ MODULE DbMongo -------------------------------
(***************************************************************************)
(* The MongoDB driver, dbd_mongo.c.  Users, secrets, keys and admins are   *)
(* documents of their own; the origins, options and peers of a realm are   *)
(* fields of one document for the realm (DocRow), which an origin or a     *)
(* peer that is added creates and nothing removes.  An option is only set  *)
(* in a document that is there.  The client is made once per thread and    *)
(* connects by itself; a query that fails looks like one without results.  *)
(***************************************************************************)
EXTENDS DbDriver

VARIABLE cursor         \* what the refreshing thread's query returned and the document it is at
mongoVars == <<allVars, cursor>>

get_mongodb_connection(c) == "local"
mongo_get_collection(c, op, on, want, prog) == Call(c, get_mongodb_connection(c), op, on, want, prog) /\ cursor' = cursor
Find(on) == <<Stmt("select", on, Read, 0, 0)>>
FindOne(row) == <<Stmt("get", {row}, Read, 0, -1)>>
Checked(kind, on, v) == <<Stmt(kind, on, v, 0, -1)>>
Unchecked(on) == <<Stmt("delete", on, Gone, 0, 0)>>
\* Origins are kept per realm: the same one may be in several documents.
RealmOrigin(r, o) == <<"origin", r, o>>
RealmOrigins == {RealmOrigin(r, o) : r \in Realms, o \in Origins}

mongo_get_auth_secrets(c, r) == mongo_get_collection(c, "get_auth_secrets", InRealm(SecretRows, r), Read, Find(InRealm(SecretRows, r)))
mongo_get_user_key(c, r, u) == mongo_get_collection(c, "get_user_key", {UserRow(r, u)}, Read, FindOne(UserRow(r, u)))
mongo_get_oauth_key(c, k) == mongo_get_collection(c, "get_oauth_key", {OauthRow(k)}, Read, FindOne(OauthRow(k)))
mongo_set_user_key(c, r, u, k) == mongo_get_collection(c, "set_user_key", {UserRow(r, u)}, Is(k), Checked("put", {UserRow(r, u)}, k))
mongo_set_oauth_key(c, kid, k) == mongo_get_collection(c, "set_oauth_key", {OauthRow(kid)}, Is(k), Checked("put", {OauthRow(kid)}, k))
mongo_del_user(c, r, u) == mongo_get_collection(c, "del_user", {UserRow(r, u)}, Gone, Checked("delete", {UserRow(r, u)}, Gone))
mongo_del_oauth_key(c, k) == mongo_get_collection(c, "del_oauth_key", {OauthRow(k)}, Gone, Checked("delete", {OauthRow(k)}, Gone))
mongo_list_users(c, r) == mongo_get_collection(c, "list_users", InRealm(UserRows, r), Read, Find(InRealm(UserRows, r)))
mongo_list_oauth_keys(c) == mongo_get_collection(c, "list_oauth_keys", OauthRows, Read, Find(OauthRows))
mongo_list_secrets(c, r) == mongo_get_collection(c, "list_secrets", InRealm(SecretRows, r), Read, Find(InRealm(SecretRows, r)))
mongo_del_secret(c, r, ss) == LET on == {SecretRow(r, s) : s \in ss} IN mongo_get_collection(c, "del_secret", on, Gone, Unchecked(on))
mongo_set_secret(c, r, s) == mongo_get_collection(c, "set_secret", {SecretRow(r, s)}, Is(Kept), Checked("insert", {SecretRow(r, s)}, Kept))
\* $addToSet with MONGOC_UPDATE_UPSERT, or $pull from every document that matches.
mongo_set_permission_ip(c, kind, r, i, del) ==
  LET on == {PeerIpRow(kind, r, i)}
  IN mongo_get_collection(c, "set_permission_ip", on, IF del THEN Gone ELSE Is(Kept),
                          IF del THEN Checked("delete", on, Gone) ELSE Checked("put", on \cup {DocRow(r)}, Kept))
mongo_add_origin(c, o, r) == mongo_get_collection(c, "add_origin", {RealmOrigin(r, o)}, Is(Kept), Checked("put", {RealmOrigin(r, o), DocRow(r)}, Kept))
mongo_del_origin(c, o) == LET on == {RealmOrigin(r, o) : r \in Realms}
                          IN mongo_get_collection(c, "del_origin", on, Gone, Checked("delete", on, Gone))
mongo_list_origins(c) == mongo_get_collection(c, "list_origins", RealmOrigins, Read, Find(RealmOrigins))
mongo_set_realm_option_one(c, r, v, o) ==
  LET on == {OptionRow(r, o)}
  IN mongo_get_collection(c, "set_realm_option_one", on, IF v > 0 THEN Is(v) ELSE Gone,
                          IF v > 0 THEN Checked("match", on, v) ELSE Checked("delete", on, Gone))
mongo_list_realm_options(c, r) == mongo_get_collection(c, "list_realm_options", InRealm(OptionRows, r), Read, Find(InRealm(OptionRows, r)))
mongo_get_admin_user(c, a) == mongo_get_collection(c, "get_admin_user", {AdminRow(a)}, Read, FindOne(AdminRow(a)))
mongo_set_admin_user(c, a, r, p) == mongo_get_collection(c, "set_admin_user", {AdminRow(a)}, Is(<<r, p>>), Checked("put", {AdminRow(a)}, <<r, p>>))
mongo_del_admin_user(c, a) == mongo_get_collection(c, "del_admin_user", {AdminRow(a)}, Gone, Checked("delete", {AdminRow(a)}, Gone))
mongo_list_admin_users(c) == mongo_get_collection(c, "list_admin_users", AdminRows, Read, Find(AdminRows))

-----------------------------------------------------------------------------
(* mongo_reread_realms: one query for the documents of the realms.  Each    *)
(* document has its options set to the defaults and then to what it says,   *)
(* and the new map of origins is installed at the end, when the query       *)
(* failed (and returned nothing) as well.                                   *)
RealmsOf(db) == {r \in Realms : DocRow(r) \in DOMAIN db}
OriginRealms(db, o) == {r \in Realms : RealmOrigin(r, o) \in DOMAIN db}
ListedOrigins(db) == {o \in Origins : OriginRealms(db, o) # {}}
OriginMaps(db) == {f \in [ListedOrigins(db) -> Realms] : \A o \in DOMAIN f : f[o] \in OriginRealms(db, o)}
SetOptions(db, r) == {x \in AllOptions : x[1] = r /\ OptionRow(x[1], x[2]) \in DOMAIN db}

mongo_find_realms ==
  LET db == IF up THEN rows ELSE <<>>
  IN /\ flush.at = "origins"
     /\ cursor' = [db |-> db, left |-> {}]
     /\ Flush("docs", RealmsOf(db), up) /\ UNCHANGED <<dbRest, conn, o_to_realm, options, lists>>
mongo_next_realm(r) ==
  /\ flush.at = "docs" /\ cursor.left = {} /\ r \in flush.todo
  /\ options' = [x \in AllOptions |-> IF x[1] = r THEN Default ELSE options[x]]
  /\ cursor' = [cursor EXCEPT !.left = SetOptions(cursor.db, r)]
  /\ Flush("docs", flush.todo \ {r}, TRUE) /\ UNCHANGED <<dbRest, conn, o_to_realm, lists>>
mongo_next_option(x) ==
  /\ flush.at = "docs" /\ x \in cursor.left
  /\ options' = [options EXCEPT ![x] = OptionOf(cursor.db, x)]
  /\ cursor' = [cursor EXCEPT !.left = @ \ {x}]
  /\ UNCHANGED <<dbRest, conn, o_to_realm, lists, flush>>
mongo_install == /\ flush.at = "docs" /\ flush.todo = {} /\ cursor.left = {}
                 /\ o_to_realm' \in OriginMaps(cursor.db)
                 /\ cursor' = [db |-> <<>>, left |-> {}]
                 /\ Flush("lists", {}, TRUE) /\ UNCHANGED <<dbRest, conn, options, lists>>
mongo_reread_realms == \/ mongo_find_realms \/ mongo_install
                       \/ \E r \in Realms : mongo_next_realm(r)
                       \/ \E x \in AllOptions : mongo_next_option(x)
mongo_read_realms_ip_lists == update_white_and_black_lists(get_mongodb_connection(Flusher)) /\ cursor' = cursor

\* The functions the driver offers, with the arguments its callers give them.
Reads(c) == \/ mongo_list_admin_users(c) \/ mongo_list_oauth_keys(c) \/ mongo_list_origins(c)
            \/ \E r \in Realms : mongo_get_auth_secrets(c, r) \/ \E u \in Users : mongo_get_user_key(c, r, u)
            \/ \E r \in Realms \cup {NoRealm} : mongo_list_users(c, r) \/ mongo_list_secrets(c, r) \/ mongo_list_realm_options(c, r)
            \/ \E k \in Kids : mongo_get_oauth_key(c, k)
            \/ \E a \in Admins : mongo_get_admin_user(c, a)
Writes(c) == \/ \E r \in Realms, u \in Users : mongo_del_user(c, r, u) \/ \E k \in Keys : mongo_set_user_key(c, r, u, k)
             \/ \E kid \in Kids : mongo_del_oauth_key(c, kid) \/ \E k \in Keys : mongo_set_oauth_key(c, kid, k)
             \/ \E r \in Realms : mongo_del_secret(c, r, Secrets) \/ \E s \in Secrets : mongo_del_secret(c, r, {s}) \/ mongo_set_secret(c, r, s)
             \/ \E kind \in {"allowed", "denied"}, r \in Realms, i \in Ips, del \in BOOLEAN : mongo_set_permission_ip(c, kind, r, i, del)
             \/ \E o \in Origins : mongo_del_origin(c, o) \/ \E r \in Realms : mongo_add_origin(c, o, r)
             \/ \E r \in Realms, o \in Opts, v \in Values : mongo_set_realm_option_one(c, r, v, o)
             \/ \E a \in Admins : mongo_del_admin_user(c, a) \/ \E r \in Realms \cup {NoRealm}, p \in Pwds : mongo_set_admin_user(c, a, r, p)
Refresh == (reread_realms /\ cursor' = cursor) \/ mongo_reread_realms \/ mongo_read_realms_ip_lists

\* A populated database: every document, with the first of its values.
Stored == [x \in UserRows \cup SecretRows \cup OauthRows \cup RealmOrigins \cup OptionRows
                 \cup PeerIpRows("denied") \cup AdminRows \cup {DocRow(r) : r \in Realms} |->
             CASE x[1] \in {"turnusers_lt", "oauth_key"} -> CHOOSE k \in Keys : TRUE
               [] x[1] = "turn_realm_option" -> CHOOSE v \in Values : v > 0
               [] x[1] = "admin_user" -> <<NoRealm, CHOOSE p \in Pwds : TRUE>>
               [] OTHER -> Kept]

Init == DbInit(Stored) /\ cursor = [db |-> <<>>, left |-> {}]
Disturbed == Environment /\ cursor' = cursor
Next == Disturbed \/ Refresh \/ \E c \in Clients : Reads(c) \/ Writes(c)
Spec == Init /\ [][Next]_mongoVars
\* The refreshing thread runs for ever, and an outage of the database ends.
FairSpec == Spec /\ WF_mongoVars(Refresh) /\ WF_mongoVars(Recover /\ cursor' = cursor)
                 /\ \A c \in Clients : WF_mongoVars((Answered(c) \/ Failed(c)) /\ cursor' = cursor)
\* Calls without the refreshing thread, and that thread against writers only.
CallsNext == Disturbed \/ \E c \in Clients : Reads(c) \/ Writes(c)
RefreshNext == Disturbed \/ Refresh \/ \E c \in Clients : Writes(c)
-----------------------------------------------------------------------------
\* A write that reports success is in the database when it returns, unless
\* another caller wrote the same row meanwhile.  Left out are the removal of a
\* secret, whose result is not looked at, and the option of a realm.
MongoAckKept == \A c \in Clients : /\ last[c] # Idle /\ last[c].ret = 0
                                   /\ last[c].op \notin {"del_secret", "set_realm_option_one"}
                                   => last[c].holds

\* An option that was set is there, or another caller changed it meanwhile.
\* The code does not keep this (README).
MongoOptionKept == \A c \in Clients : /\ last[c] # Idle /\ last[c].ret = 0
                                      /\ last[c].op = "set_realm_option_one"
                                      => last[c].holds

\* A refresh during which nothing was written and nothing failed leaves the
\* options the documents have, and maps every origin to a realm that lists it.
MongoRefreshExact ==
  flush.at = "lists" /\ flush.quiet =>
     /\ o_to_realm \in OriginMaps(rows)
     /\ \A x \in AllOptions : options[x] = OptionOf(rows, x)

\* The tables agree with the documents when every origin has a realm that lists it.
MongoTablesCurrent == /\ o_to_realm \in OriginMaps(rows)
                      /\ \A k \in {"allowed", "denied"} : lists[k] = PeersOf(rows, k)
=============================================================================
