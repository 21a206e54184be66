------------------------------- MODULE AdminWeb -------------------------------
(* The web administration of turn_admin_server.c.  A connection belongs to no *)
(* administrator, to one of a realm, or to one of the whole server; the forms *)
(* it sends are handled one at a time by the admin thread (handle_https).     *)
(*                                                                            *)
(* For an administrator of a realm current_eff_realm is the very buffer that  *)
(* holds the realm, and every form starts by copying a realm into it.  For    *)
(* the server's it is the realm chosen to look at, "" for all.                *)
(*                                                                            *)
(* A record of the database is its kind, its name and its realm; a parameter  *)
(* that is missing in a form is "".  Pages are the records they list.         *)
EXTENDS Integers, FiniteSets

CONSTANTS
  Conns, Names,
  Realms,        \* names of realms, not ""
  MainRealm,     \* get_realm(NULL)->options.name
  Kinds,         \* the kinds of record in the database: user, secret, origin, ip
  AdminRealm     \* the accounts in admin_user: name -> realm, "" for all realms

AdminAssumption ==
  "" \notin Realms /\ MainRealm \in Realms /\ \A a \in DOMAIN AdminRealm : AdminRealm[a] \in Realms \cup {""}

VARIABLES
  as,            \* each connection's admin_session
  records,       \* the records of the database
  options,       \* realms whose options were changed
  globals,       \* what concerns all realms: a flag and the oauth keys
  page           \* the last page: who it was sent to, what it lists

adminVars == <<as, records, options, globals, page>>

Optional == Realms \cup {""}
Rec(kind, name, realm) == [kind |-> kind, name |-> name, realm |-> realm]

NoSession == [ok |-> FALSE, login |-> "", realm |-> "", eff |-> ""]

AdminInit ==
  /\ as = [c \in Conns |-> NoSession]
  /\ records = {} /\ options = {} /\ globals = [flag |-> FALSE, keys |-> {}]
  /\ page \in [conn : Conns, lists : {{}}]

is_as_ok(c) == as[c].ok
is_superuser(c) == is_as_ok(c) /\ as[c].realm = ""
current_realm(c) == as[c].realm
current_eff_realm(a) == IF a.realm # "" THEN a.realm ELSE a.eff

(* How a form starts: strncpy(current_eff_realm(), realm0).                   *)
SetEffRealm(c, r) ==
  LET realm0 == IF is_superuser(c) THEN r ELSE current_realm(c)
  IN IF as[c].realm # "" THEN [as[c] EXCEPT !.realm = realm0] ELSE [as[c] EXCEPT !.eff = realm0]

(* https_print_users, https_print_secrets, https_print_origins: list_users    *)
(* and the like list all realms when none is given.                           *)
Listed(kind, a, d) == {r \in d : r.kind = kind /\ (current_eff_realm(a) = "" \/ r.realm = current_eff_realm(a))}

Show(c, recs) == page' = [conn |-> c, lists |-> recs]
LogonPage(c) == Show(c, {})
HomePage(c) == Show(c, {})

(* The realm of a record to delete, "" for none.                              *)
DeleteRealm(c, r) == IF is_superuser(c) THEN r ELSE current_realm(c)

(* Mutant: the realm of the form is taken.                                    *)
AddRealm_form(c, a, r) ==
  CASE r # "" -> r
    [] r = "" /\ current_eff_realm(a) # "" -> current_eff_realm(a)
    [] OTHER -> MainRealm

(* The realm a new record gets.                                               *)
AddRealm(c, a, r) ==
  LET given == IF is_superuser(c) THEN r ELSE current_realm(c)
  IN CASE given # "" -> given
       [] given = "" /\ current_eff_realm(a) # "" -> current_eff_realm(a)
       [] OTHER -> MainRealm

(* AS_FORM_USERS and AS_FORM_SS: a record is deleted, another is added when   *)
(* its name is right and, for a user, the passwords are given and the same.   *)
RecordsForm(c, kind, r, del, delRealm, add, addRealm, right) ==
  LET a == SetEffRealm(c, r)
      deleted == IF del # "" /\ DeleteRealm(c, delRealm) # "" THEN records \ {Rec(kind, del, DeleteRealm(c, delRealm))} ELSE records
      added == IF add # "" /\ right THEN deleted \cup {Rec(kind, add, AddRealm(c, a, addRealm))} ELSE deleted
  IN /\ is_as_ok(c) /\ kind \in Kinds \cap {"user", "secret"}
     /\ as' = [as EXCEPT ![c] = a]
     /\ records' = added
     /\ Show(c, Listed(kind, a, added))
     /\ UNCHANGED <<options, globals>>

(* AS_FORM_OS: only the server's administrator deletes origins.  An origin    *)
(* that has a realm already is refused by the database (a primary key).       *)
OriginsForm(c, r, del, add, addRealm) ==
  LET a == SetEffRealm(c, r)
      deleted == IF is_superuser(c) /\ del # "" THEN {x \in records : x.kind # "origin" \/ x.name # del} ELSE records
      added == IF add # "" /\ ~\E x \in deleted : x.kind = "origin" /\ x.name = add
               THEN deleted \cup {Rec("origin", add, AddRealm(c, a, addRealm))} ELSE deleted
  IN /\ is_as_ok(c) /\ "origin" \in Kinds
     /\ as' = [as EXCEPT ![c] = a]
     /\ records' = added
     /\ Show(c, Listed("origin", a, added))
     /\ UNCHANGED <<options, globals>>

(* AS_FORM_PC and AS_FORM_PS, and every form that is not known: the realm is  *)
(* chosen, nothing of the database is changed.  The session a form of PS      *)
(* cancels is a message to the relays (AdminSessions).                        *)
LookForm(c, r) ==
  /\ as' = [as EXCEPT ![c] = IF is_as_ok(c) THEN SetEffRealm(c, r) ELSE as[c]]
  /\ HomePage(c)
  /\ UNCHANGED <<records, options, globals>>

(* AS_FORM_TOGGLE: toggle_param.                                              *)
ToggleForm(c) ==
  /\ is_as_ok(c)
  /\ globals' = IF is_superuser(c) THEN [globals EXCEPT !.flag = ~@] ELSE globals
  /\ HomePage(c)
  /\ UNCHANGED <<as, records, options>>

(* update_param: the options of the realm the connection looks at.            *)
update_param(c) == LET r == current_eff_realm(as[c]) IN options \cup {IF r = "" THEN MainRealm ELSE r}

MayChangeIp(c, r) == current_realm(c) = "" \/ current_realm(c) = r

(* AS_FORM_UPDATE: a parameter, an address range to delete, one to add.  A    *)
(* range for the server's realm "" is for all realms.                         *)
UpdateForm(c, param, del, delRealm, add, addRealm) ==
  LET own(r) == IF r = "" THEN current_realm(c) ELSE r
      deleted == IF del # "" /\ MayChangeIp(c, own(delRealm)) THEN records \ {Rec("ip", del, own(delRealm))} ELSE records
      added == IF add # "" /\ MayChangeIp(c, own(addRealm)) THEN deleted \cup {Rec("ip", add, own(addRealm))} ELSE deleted
  IN /\ is_as_ok(c) /\ "ip" \in Kinds
     /\ records' = added
     /\ options' = IF param THEN update_param(c) ELSE options
     /\ HomePage(c)
     /\ UNCHANGED <<as, globals>>

(* AS_FORM_OAUTH, AS_FORM_OAUTH_SHOW_KEYS: for the server's administrator.    *)
OauthForm(c, del, add) ==
  /\ is_as_ok(c)
  /\ globals' = IF is_superuser(c) THEN [globals EXCEPT !.keys = (@ \ {del}) \cup ({add} \ {""})] ELSE globals
  /\ HomePage(c)
  /\ UNCHANGED <<as, records, options>>

MayLogon(c) == ~is_as_ok(c)

(* AS_FORM_LOGON: handle_logon_request.                                       *)
LogonForm(c, name, right) ==
  /\ as' = IF MayLogon(c) /\ right
           THEN [as EXCEPT ![c] = [ok |-> TRUE, login |-> name, realm |-> AdminRealm[name], eff |-> ""]] ELSE as
  /\ HomePage(c)
  /\ UNCHANGED <<records, options, globals>>

(* AS_FORM_LOGOUT: handle_logout_request.                                     *)
LogoutForm(c) ==
  /\ as' = [as EXCEPT ![c] = NoSession]
  /\ LogonPage(c)
  /\ UNCHANGED <<records, options, globals>>

(* A form of a connection that has not logged on, or that cannot be read.     *)
Unauthorized(c) == ~is_as_ok(c) /\ LogonPage(c) /\ UNCHANGED <<as, records, options, globals>>

(* The connection is closed; another one takes its place.                     *)
Reconnect(c) ==
  /\ as' = [as EXCEPT ![c] = NoSession]
  /\ LogonPage(c)
  /\ UNCHANGED <<records, options, globals>>

Name == Names \cup {""}

AdminNext ==
  \E c \in Conns :
    \/ Unauthorized(c) \/ Reconnect(c) \/ LogoutForm(c) \/ ToggleForm(c)
    \/ \E name \in DOMAIN AdminRealm, right \in BOOLEAN : LogonForm(c, name, right)
    \/ \E r \in Optional : LookForm(c, r)
    \/ \E del, add \in Name : OauthForm(c, del, add)
    \/ \E kind \in Kinds, r, delRealm, addRealm \in Optional, del, add \in Name, right \in BOOLEAN :
         RecordsForm(c, kind, r, del, delRealm, add, addRealm, right)
    \/ \E r, addRealm \in Optional, del, add \in Name : OriginsForm(c, r, del, add, addRealm)
    \/ \E param \in BOOLEAN, delRealm, addRealm \in Optional, del, add \in Name :
         UpdateForm(c, param, del, delRealm, add, addRealm)

AdminSpec == AdminInit /\ [][AdminNext]_adminVars

-----------------------------------------------------------------------------
(* What a form changes belongs to the administrator's realm, and only the     *)
(* server's administrator changes what concerns all realms; a connection that *)
(* is not logged on changes nothing.  The form is the last one answered.      *)
Confined ==
  LET a == as[page'.conn]
      changed == (records \ records') \cup (records' \ records)
  IN /\ (changed # {} \/ options' # options \/ globals' # globals) => a.ok
     /\ a.realm # "" =>
          /\ \A r \in changed : r.realm = a.realm
          /\ options' \subseteq options \cup {a.realm}
          /\ globals' = globals

(* A page for the administrator of a realm lists nothing of another realm,    *)
(* and one for a connection that is not logged on lists nothing.              *)
PageConfined ==
  LET a == as[page.conn]
  IN (page.lists # {} => a.ok) /\ (a.realm # "" => \A r \in page.lists : r.realm = a.realm)

(* The realm a connection was given at logon is its realm until it logs out:  *)
(* no form writes another one into the buffer, although every form writes it. *)
RealmKept ==
  \A c \in Conns : as[c].ok /\ as'[c].ok => as'[c].realm = as[c].realm /\ as'[c].login = as[c].login

AdminTypeOK ==
  /\ as \in [Conns -> [ok : BOOLEAN, login : DOMAIN AdminRealm \cup {""}, realm : Optional, eff : Optional]]
  /\ \A c \in Conns : as[c].ok => as[c].realm = AdminRealm[as[c].login] /\ (as[c].realm # "" => as[c].eff = "")
  /\ \A r \in records : r.kind \in Kinds /\ r.name \in Names /\ (r.realm = "" => r.kind = "ip")
  /\ options \subseteq Realms

(* An administrator sees and changes nothing outside the realm given at       *)
(* logon, which no form changes, and a connection that is not logged on sees  *)
(* and changes nothing (handle_logon_request, handle_update_request and the   *)
(* pages of turn_admin_server.c).                                             *)
AdministratorConfined ==
  [](AdminTypeOK /\ PageConfined) /\ [][Confined /\ RealmKept]_adminVars
=============================================================================
