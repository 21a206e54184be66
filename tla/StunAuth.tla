------------------------------ MODULE StunAuth ------------------------------
(* The long-term credential mechanism: a relay thread checks a request, asks   *)
(* an authentication thread for the key of the user, and takes the request up  *)
(* again when the answer comes, which may be after the session has changed or  *)
(* has ended.  A nonce is numbered in the order it was made in its session; a  *)
(* key is named by what it is made from.                                       *)
EXTENDS Integers, Sequences, FiniteSets

CONSTANTS
  User, NoUser, Realm, NoRealm,
  DefaultRealm,   \* realm of a new session
  Cred,           \* passwords, secrets or tokens; 0 is none
  Options,        \* ways in which the server is run
  Slot,           \* requests that can be under way
  AuthServers,    \* authserver_number: threads 1..AuthServers-1 answer
  MaxSession, MaxNonce   \* bounds: sessions, nonces of a session

(* A way of running the server.                                                *)
(*   methods: requests that clients send, whose others are handled like        *)
(*   CREATE_PERMISSION; oauth: --oauth; secrets: --use-auth-secret, names with *)
(*   a time and passwords made from shared secrets; static: users of the       *)
(*   configuration file, the others being in the database; originRealm: where  *)
(*   the one known origin leads; kidRealm: realm of the oauth key, or NoRealm; *)
(*   checkOrigin, secureStun: --check-origin-consistency, --secure-stun;       *)
(*   creds, changes: bounds, the credentials in use and how often they change. *)
Method == {"ALLOCATE", "BINDING", "CREATE_PERMISSION"}
Option == [methods : SUBSET Method, oauth : BOOLEAN, secrets : BOOLEAN, static : SUBSET User, originRealm : Realm,
           kidRealm : Realm \cup {NoRealm}, checkOrigin : BOOLEAN, secureStun : BOOLEAN,
           creds : (SUBSET Cred) \ {{}}, changes : Nat]

AuthAssumption ==
  /\ NoUser \notin User /\ NoRealm \notin Realm /\ DefaultRealm \in Realm
  /\ Cred \subseteq Nat \ {0} /\ Options \subseteq Option
  /\ AuthServers \in Nat \ {0, 1} /\ MaxSession \in Nat /\ MaxNonce \in Nat \ {0}

VARIABLES
  opt,       \* how the server is run
  ss,        \* sessions, in the order of their ids
  req,       \* requests under way and what became of them
  inq,       \* messages to each authentication thread
  outq,      \* answers on their way to the relay thread
  counter,   \* auth_message_counter
  db,        \* credentials on file, by user
  changes,   \* changes of credentials so far
  served,    \* history: the last request that was carried out, and the users served in each session
  granted    \* history: keys the authentication threads gave to a session

authVars == <<opt, ss, req, inq, outq, counter, db, changes, served, granted>>

AuthServer == 1..(AuthServers - 1)
NoKey == [user |-> NoUser, realm |-> NoRealm, cred |-> 0]

(* A request.  cred = 0: no MESSAGE-INTEGRITY; token: an ACCESS-TOKEN.         *)
Request == [method : Method, tid : 1..2, user : User \cup {NoUser}, realm : Realm \cup {NoRealm},
            nonce : 0..MaxNonce, cred : Cred \cup {0}, token : BOOLEAN, origin : BOOLEAN]

(* The key that a request is signed with.                                      *)
KeyOf(q) == [user |-> q.user, realm |-> IF q.token THEN NoRealm ELSE q.realm, cred |-> q.cred]

NewSession == [live |-> TRUE, user |-> NoUser, realm |-> DefaultRealm, nonce |-> 0, expired |-> FALSE,
               hmackey |-> NoKey, oauth |-> FALSE, origin_set |-> FALSE, origin |-> FALSE,
               tid |-> 0, counted |-> NoRealm, told |-> 0, toldRealm |-> NoRealm]

NoRequest == [method |-> "BINDING", tid |-> 1, user |-> NoUser, realm |-> NoRealm, nonce |-> 0,
              cred |-> 0, token |-> FALSE, origin |-> FALSE]

Idle == [s |-> 0, q |-> NoRequest, answers |-> 0, freed |-> 1]

AuthInit ==
  /\ opt \in Options
  /\ ss = <<>> /\ req = [i \in Slot |-> Idle]
  /\ inq = [a \in AuthServer |-> <<>>] /\ outq = <<>> /\ counter = 1
  /\ db = [u \in User |-> {CHOOSE c \in opt.creds : TRUE}] /\ changes = 0
  /\ served = [last |-> {}, who |-> [s \in 1..MaxSession |-> {}]] /\ granted = {}

-----------------------------------------------------------------------------
(* What an authentication thread finds.  A token is decoded with the key of    *)
(* its kid and must have signed the request; of the shared secrets the one     *)
(* that signed the request is taken, while the time in the name lasts (an      *)
(* empty db[u]); an account has one password, and a static account a key that  *)
(* was made for the default realm.                                             *)
Finding(success, oauth, key, realm) == [success |-> success, oauth |-> oauth, key |-> key, realm |-> realm]

OauthKey(q, realm) ==
  LET good == q.user # NoUser /\ q.cred \in db[q.user]
  IN  Finding(good, TRUE, IF good THEN KeyOf(q) ELSE NoKey,
              IF good /\ opt.kidRealm # NoRealm THEN opt.kidRealm ELSE realm)

SecretKey(q, realm) ==
  LET good == q.cred \in db[q.user] /\ q.realm = realm /\ ~q.token
  IN  Finding(good, FALSE, IF good THEN KeyOf(q) ELSE NoKey, realm)

AccountKey(q, realm) ==
  IF db[q.user] = {} THEN Finding(FALSE, FALSE, NoKey, realm)
  ELSE Finding(TRUE, FALSE,
               [user |-> q.user, realm |-> IF q.user \in opt.static THEN DefaultRealm ELSE realm,
                cred |-> CHOOSE c \in db[q.user] : TRUE], realm)

get_user_key(oauth, q, realm) ==
  IF opt.oauth /\ q.token THEN OauthKey(q, realm)
  ELSE IF oauth THEN Finding(FALSE, TRUE, NoKey, realm)
  ELSE IF opt.secrets THEN SecretKey(q, realm) ELSE AccountKey(q, realm)

-----------------------------------------------------------------------------
(* The checks of one request against its session.  Each step yields the        *)
(* session as it is then and a verdict: "ok" to go on, or what ends the check. *)

Verdict(x, v) == [ss |-> x, v |-> v]

FreshNonce(x) ==
  IF x.nonce = 0 \/ x.expired THEN [x EXCEPT !.nonce = @ + 1, !.expired = FALSE] ELSE x

Mismatch(q) == IF q.method = "ALLOCATE" THEN "437" ELSE "441"

CheckRealm(x, q) ==
  IF q.realm = NoRealm THEN Verdict(x, "400")
  ELSE IF q.realm # x.realm /\ ~x.oauth THEN Verdict(x, Mismatch(q))
  ELSE Verdict(x, "ok")

(* The first name that is sent is kept, though nothing has been verified yet.  *)
CheckUsername(x, q) ==
  IF q.user = NoUser THEN Verdict(x, "400")
  ELSE IF x.user \in {NoUser, q.user} THEN Verdict([x EXCEPT !.user = q.user], "ok")
  ELSE IF x.oauth THEN Verdict([x EXCEPT !.user = q.user, !.hmackey = NoKey], "ok")
  ELSE Verdict(x, Mismatch(q))

CheckNonce(x, q, made) ==
  IF q.nonce = 0 THEN "400" ELSE IF made \/ q.nonce # x.nonce THEN "438" ELSE "ok"

(* Mutant: a request that comes back with a key is taken for good.             *)
CheckKey_resumed(x, q, can_resume) ==
  IF x.hmackey # NoKey /\ (~can_resume \/ KeyOf(q) = x.hmackey) THEN "verified"
  ELSE IF can_resume THEN "postponed" ELSE "401"

(* A key that is missing, or that did not sign the request, is asked for once. *)
CheckKey(x, q, can_resume) ==
  IF x.hmackey # NoKey /\ KeyOf(q) = x.hmackey THEN "verified"
  ELSE IF can_resume THEN "postponed" ELSE "401"

check_stun_auth(x0, q, can_resume) ==
  LET x == FreshNonce(x0)
      r == CheckRealm(x, q)
      u == CheckUsername(r.ss, q)
      n == CheckNonce(u.ss, q, x0.nonce = 0)
  IN  CASE q.cred = 0  -> Verdict(x, "401")
        [] q.cred # 0 /\ r.v # "ok" -> r
        [] q.cred # 0 /\ r.v = "ok" /\ u.v # "ok" -> u
        [] q.cred # 0 /\ r.v = "ok" /\ u.v = "ok" /\ n # "ok" -> Verdict(u.ss, n)
        [] OTHER -> Verdict(u.ss, CheckKey(u.ss, q, can_resume))

-----------------------------------------------------------------------------
(* The origin of the session is the one of its first ALLOCATE, and it decides  *)
(* the realm.                                                                  *)
OriginDiffers(x, q) == opt.checkOrigin /\ x.origin_set /\ x.origin # q.origin

SetOrigin(x, q) ==
  IF x.origin_set \/ q.method # "ALLOCATE" THEN x
  ELSE [x EXCEPT !.origin_set = TRUE, !.origin = q.origin,
                 !.realm = IF q.origin THEN opt.originRealm ELSE @]

(* Carrying out a request.  Quotas are not at their limits here.               *)
inc_quota(x) == IF x.counted # NoRealm \/ ~x.origin_set THEN x ELSE [x EXCEPT !.counted = x.realm]
dec_quota(x) == [x EXCEPT !.counted = NoRealm]

Dispatch(x, q) ==
  IF q.method = "ALLOCATE" THEN Verdict([inc_quota(x) EXCEPT !.tid = q.tid], "ok")
  ELSE IF q.method = "BINDING" \/ x.tid # 0 THEN Verdict(x, "ok")
  ELSE Verdict(x, "437")

handle_turn_command(x0, q, can_resume) ==
  LET open == q.method = "BINDING" /\ ~opt.secureStun
      x == SetOrigin(x0, q)
      c == check_stun_auth(x, q, can_resume)
  IN  IF open THEN Verdict(x0, "open")
      ELSE IF q.method = "ALLOCATE" /\ x0.tid \notin {0, q.tid} THEN
             Verdict(x0, IF OriginDiffers(x0, q) THEN "441" ELSE "437")
      ELSE IF OriginDiffers(x0, q) THEN Verdict(x0, "441")
      ELSE c

-----------------------------------------------------------------------------
(* One pass of a request through the relay thread: answered, or handed over to *)
(* an authentication thread together with its buffer.                          *)

send_auth_message_to_auth_server == IF counter >= AuthServers \/ counter < 1 THEN 1 ELSE counter

start_user_check(i, s, x, q) ==
  LET sn == send_auth_message_to_auth_server
  IN  /\ counter' = sn + 1
      /\ inq' = [inq EXCEPT ![sn] =
                   Append(@, [slot |-> i, s |-> s, oauth |-> x.oauth,
                              realm |-> IF x.oauth THEN x.realm ELSE q.realm])]

(* 401 and 438 tell the client the nonce and the realm to use.                 *)
create_challenge_response(x, code) ==
  IF code \in {"401", "438"} THEN [x EXCEPT !.told = x.nonce, !.toldRealm = x.realm] ELSE x

Done(r, answers) == [Idle EXCEPT !.s = r.s, !.answers = r.answers + answers, !.freed = r.freed + 1]

read_client_connection(i, s, x, r, can_resume) ==
  LET c == handle_turn_command(x, r.q, can_resume)
      d == IF c.v \in {"verified", "open"} THEN Dispatch(c.ss, r.q) ELSE c
  IN  /\ ss' = [ss EXCEPT ![s] = create_challenge_response(d.ss, d.v)]
      /\ \/ /\ c.v = "postponed"
            /\ req' = [req EXCEPT ![i] = r]
            /\ start_user_check(i, s, c.ss, r.q)
            /\ served' = [served EXCEPT !.last = {}]
         \/ /\ c.v # "postponed"
            /\ req' = [req EXCEPT ![i] = Done(r, 1)]
            /\ served' = IF d.v = "ok" /\ c.v = "verified"
                         THEN [served EXCEPT !.last = {[s |-> s, key |-> KeyOf(r.q), fresh |-> r.q.nonce = x.nonce]},
                                             !.who[s] = @ \cup {r.q.user}]
                         ELSE [served EXCEPT !.last = {}]
            /\ UNCHANGED <<counter, inq>>

(* A request arrives.  A client may use any nonce it could have been given.    *)
Arrives(i, s, q) ==
  /\ s \in DOMAIN ss /\ ss[s].live /\ req[i].freed = 1
  /\ q.nonce =< ss[s].nonce
  /\ read_client_connection(i, s, ss[s], [req[i] EXCEPT !.s = s, !.q = q, !.answers = 0, !.freed = 0], TRUE)
  /\ UNCHANGED <<opt, outq, db, changes, granted>>

auth_server_receive_message(a) ==
  /\ inq[a] # <<>>
  /\ LET am == Head(inq[a])
         f  == get_user_key(am.oauth, req[am.slot].q, am.realm)
     IN  /\ outq' = Append(outq, [slot |-> am.slot, s |-> am.s, found |-> f])
         /\ granted' = IF f.success THEN granted \cup {[s |-> am.s, key |-> f.key]} ELSE granted
  /\ inq' = [inq EXCEPT ![a] = Tail(@)]
  /\ UNCHANGED <<opt, ss, req, counter, db, changes, served>>

(* The key is taken over; a realm that differs moves the session, and the      *)
(* account of its quota with it.                                               *)
TakeKey(x, f) ==
  LET y == [x EXCEPT !.hmackey = f.key, !.oauth = f.oauth]
  IN  IF ~f.success THEN x
      ELSE IF f.realm = x.realm THEN y
      ELSE inc_quota([dec_quota(y) EXCEPT !.realm = f.realm])

(* Mutant: the request that was refused may ask for the key again.             *)
resume_processing_after_username_check_again(am) ==
  read_client_connection(am.slot, am.s, TakeKey(ss[am.s], am.found), req[am.slot], TRUE)

resume_processing_after_username_check(am) ==
  read_client_connection(am.slot, am.s, TakeKey(ss[am.s], am.found), req[am.slot], FALSE)

(* The buffer of a session that has ended is freed without an answer.          *)
handle_relay_auth_message ==
  /\ outq # <<>> /\ outq' = Tail(outq)
  /\ \/ /\ ss[Head(outq).s].live
        /\ resume_processing_after_username_check(Head(outq))
     \/ /\ ~ss[Head(outq).s].live
        /\ req' = [req EXCEPT ![Head(outq).slot] = Done(@, 0)]
        /\ UNCHANGED <<ss, inq, counter, served>>
  /\ UNCHANGED <<opt, db, changes, granted>>

-----------------------------------------------------------------------------
(* The environment: clients connect and go, time passes, and administrators    *)
(* change passwords, secrets and keys.                                         *)
OpenSession ==
  /\ Len(ss) < MaxSession
  /\ ss' = Append(ss, NewSession)
  /\ UNCHANGED <<opt, req, inq, outq, counter, db, changes, served, granted>>

CloseSession(s) ==
  /\ ss[s].live
  /\ ss' = [ss EXCEPT ![s] = [NewSession EXCEPT !.live = FALSE]]
  /\ UNCHANGED <<opt, req, inq, outq, counter, db, changes, served, granted>>

NonceExpires(s) ==
  /\ ss[s].live /\ ss[s].nonce \in 1..(MaxNonce - 1) /\ ~ss[s].expired
  /\ ss' = [ss EXCEPT ![s].expired = TRUE]
  /\ UNCHANGED <<opt, req, inq, outq, counter, db, changes, served, granted>>

ChangeCred(u, cs) ==
  /\ changes < opt.changes /\ db[u] # cs
  /\ db' = [db EXCEPT ![u] = cs] /\ changes' = changes + 1
  /\ UNCHANGED <<opt, ss, req, inq, outq, counter, served, granted>>

(* Requests that a server can tell apart: a token comes with a key, and who    *)
(* does not sign says nothing else.                                            *)
Meaningful(q) ==
  /\ q.method \in opt.methods /\ q.cred \in opt.creds \cup {0}
  /\ q.token => opt.oauth /\ q.cred # 0
  /\ q.cred = 0 => q.user = NoUser /\ q.realm = NoRealm /\ q.nonce = 0
  /\ q.method # "ALLOCATE" => q.tid = 1 /\ (q.origin => opt.checkOrigin)
  /\ q.origin => opt.checkOrigin \/ opt.originRealm # DefaultRealm

AuthNext ==
  \/ OpenSession
  \/ \E i \in Slot, s \in DOMAIN ss, q \in {q \in Request : Meaningful(q)} : Arrives(i, s, q)
  \/ \E a \in AuthServer : auth_server_receive_message(a)
  \/ handle_relay_auth_message
  \/ \E s \in DOMAIN ss : CloseSession(s) \/ NonceExpires(s)
  \/ \E u \in User, cs \in {{}} \cup {{c} : c \in opt.creds} : ChangeCred(u, cs)

(* The threads of the server run.                                              *)
ServerFair ==
  /\ \A a \in AuthServer : WF_authVars(auth_server_receive_message(a))
  /\ WF_authVars(handle_relay_auth_message)

AuthSpec == AuthInit /\ [][AuthNext]_authVars /\ ServerFair

-----------------------------------------------------------------------------
(* A client that has an account and follows the answers: the first request     *)
(* bare, then with the nonce and the realm of the last challenge.              *)
HonestRequest(u) ==
  LET x == ss[1]
  IN  [method |-> "ALLOCATE", tid |-> 1, origin |-> FALSE, token |-> FALSE,
       user |-> IF x.told = 0 THEN NoUser ELSE u, realm |-> IF x.told = 0 THEN NoRealm ELSE x.toldRealm,
       nonce |-> x.told, cred |-> IF x.told = 0 THEN 0 ELSE CHOOSE c \in db[u] : TRUE]

HonestTries(u) ==
  /\ ss # <<>> /\ ss[1].tid = 0
  /\ Arrives(CHOOSE i \in Slot : TRUE, 1, HonestRequest(u))

HonestNext(u) ==
  \/ OpenSession \/ HonestTries(u)
  \/ \E a \in AuthServer : auth_server_receive_message(a)
  \/ handle_relay_auth_message
  \/ \E s \in DOMAIN ss : NonceExpires(s)

HonestUser == CHOOSE u \in User : TRUE

HonestSpec ==
  /\ AuthInit /\ [][HonestNext(HonestUser)]_authVars
  /\ ServerFair /\ WF_authVars(OpenSession) /\ WF_authVars(HonestTries(HonestUser))

-----------------------------------------------------------------------------
SessionType ==
  [live : BOOLEAN, user : User \cup {NoUser}, realm : Realm, nonce : 0..MaxNonce, expired : BOOLEAN,
   hmackey : [user : User \cup {NoUser}, realm : Realm \cup {NoRealm}, cred : Cred \cup {0}],
   oauth : BOOLEAN, origin_set : BOOLEAN, origin : BOOLEAN, tid : 0..2, counted : Realm \cup {NoRealm},
   told : 0..MaxNonce, toldRealm : Realm \cup {NoRealm}]

(* Sessions, requests and queues are of the kinds the code keeps, and messages *)
(* go to the threads that exist (send_auth_message_to_auth_server).            *)
AuthTypeOK ==
  /\ \A s \in DOMAIN ss : ss[s] \in SessionType
  /\ \A i \in Slot : req[i].q \in Request /\ req[i].s \in 0..Len(ss)
  /\ DOMAIN inq = AuthServer /\ counter \in 1..AuthServers

(* Whatever was carried out under authentication was signed with a key that    *)
(* an authentication thread had found for that user, for this very session,    *)
(* and with the nonce the session had then - also when the request waited for  *)
(* its key while others were served and credentials changed                    *)
(* (check_stun_auth, resume_processing_after_username_check).                  *)
ServedIsProven ==
  \A e \in served.last : e.fresh /\ [s |-> e.s, key |-> e.key] \in granted

(* Without oauth a session serves one user: nobody else is served in it, be    *)
(* his credentials good, and no late answer for another name changes that.     *)
OneUserServed ==
  ~opt.oauth => \A s \in 1..MaxSession : Cardinality(served.who[s]) =< 1

(* A session is counted in the realm it belongs to, wherever a late answer of  *)
(* an authentication thread has moved it (resume_processing_after_username_check). *)
CountedInItsRealm ==
  \A s \in DOMAIN ss : ss[s].counted \in {NoRealm, ss[s].realm}

(* The messages of an authentication thread, or (0) those of the relay thread. *)
Queue(a) == IF a = 0 THEN outq ELSE inq[a]

About(a, k, i) == Queue(a)[k].slot = i

(* A request that waits has exactly one message about it, its buffer is freed  *)
(* once, and it gets one answer unless its session has ended                   *)
(* (start_user_check, handle_relay_auth_message).                              *)
OneMessageOneBuffer ==
  \A i \in Slot :
     /\ req[i].freed \in {0, 1} /\ req[i].answers =< req[i].freed
     /\ req[i].freed = 0 <=> \E a \in AuthServer \cup {0} : \E k \in DOMAIN Queue(a) : About(a, k, i)
     /\ \A a, b \in AuthServer \cup {0} : \A j \in DOMAIN Queue(a), k \in DOMAIN Queue(b) :
          About(a, j, i) /\ About(b, k, i) => a = b /\ j = k
     /\ req[i].freed = 1 /\ req[i].answers = 0 => req[i].s = 0 \/ ~ss[req[i].s].live

(* Whatever was carried out under authentication was signed with a key found   *)
(* for that user and that session, also when the request waited for its key    *)
(* while others were served and credentials changed; a session serves one      *)
(* user; a waiting request has one message and one buffer; and the session is  *)
(* counted in its realm (check_stun_auth,                                      *)
(* resume_processing_after_username_check).                                    *)
ServedAsProven ==
  AuthTypeOK /\ ServedIsProven /\ OneUserServed /\ CountedInItsRealm /\ OneMessageOneBuffer

(* Every request that waits for a key is done with in the end: it does not go  *)
(* round between the threads (can_resume).                                     *)
RequestSettles == \A i \in Slot : req[i].freed = 0 ~> req[i].freed = 1

(* A client with a good password that follows the challenges gets its          *)
(* allocation, though its nonce runs out on the way (check_stun_auth,          *)
(* create_challenge_response).                                                 *)
HonestGetsIn == <>(ss # <<>> /\ ss[1].tid # 0)
=============================================================================
