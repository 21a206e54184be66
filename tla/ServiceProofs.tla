--------------------------- MODULE ServiceProofs ----------------------------
(* The theorems about who is served: whatever is carried out under            *)
(* authentication is proven, for every number of users, realms, credentials,  *)
(* sessions, requests and threads, and for every way of running the server;   *)
(* the lock under which the threads use the SQLite database lets writers in   *)
(* alone and loses no wakeup; and administrators are confined to their realm. *)
EXTENDS StunAuth, SqliteLock, AdminWeb, FiniteSetTheorems, SequenceTheorems, TLAPS

(* What the state consists of.                                                 *)
KeyType == [user : User \cup {NoUser}, realm : Realm \cup {NoRealm}, cred : Cred \cup {0}]
Found == [success : BOOLEAN, oauth : BOOLEAN, key : KeyType, realm : Realm]
Waiter == [s : 0..MaxSession, q : Request, answers : {0, 1}, freed : {0, 1}]
Asked == [slot : Slot, s : 1..MaxSession, oauth : BOOLEAN, realm : Realm]
Answered == [slot : Slot, s : 1..MaxSession, found : Found]
Carried == [s : 1..MaxSession, key : KeyType, fresh : BOOLEAN]

Queues == AuthServer \cup {0}
Q == [a \in Queues |-> Queue(a)]

(* The variables are of their kinds.                                           *)
AuthState ==
  /\ opt \in Option /\ counter \in 1..AuthServers
  /\ ss \in Seq(SessionType) /\ Len(ss) =< MaxSession
  /\ req \in [Slot -> Waiter]
  /\ inq \in [AuthServer -> Seq(Asked)] /\ outq \in Seq(Answered)
  /\ db \in [User -> SUBSET Cred]
  /\ served \in [last : SUBSET Carried, who : [1..MaxSession -> SUBSET User]]

(* A nonce that has run out can be replaced, oauth comes with --oauth only,    *)
(* and a session that is counted has its origin, and is counted in its realm.  *)
SessionOK(o, x) ==
  /\ x.expired => x.nonce < MaxNonce
  /\ x.oauth => o.oauth
  /\ x.counted # NoRealm => x.origin_set /\ x.counted = x.realm

(* A session has no key that was not found for it, nor will an answer on its   *)
(* way bring one, and what was carried out last was signed with such a key;    *)
(* a key of a token is asked for only where tokens are in use.                 *)
KeysProven ==
  \A s \in DOMAIN ss : ss[s].hmackey # NoKey => [s |-> s, key |-> ss[s].hmackey] \in granted
AnswersProven ==
  \A k \in DOMAIN outq : outq[k].found.success =>
     [s |-> outq[k].s, key |-> outq[k].found.key] \in granted /\ (outq[k].found.oauth => opt.oauth)
TokensInUse ==
  \A a \in AuthServer : \A k \in DOMAIN inq[a] : inq[a][k].oauth => opt.oauth

Proven == KeysProven /\ AnswersProven /\ ServedIsProven /\ TokensInUse

(* Who waits named its user, its realm and its key, and no nonce of the future;*)
(* a live session it belongs to.  Who does not was answered, if its session    *)
(* lives.                                                                      *)
WaitsFor(r, x) ==
  /\ r.answers = 0 /\ r.s # 0
  /\ r.q.user \in User /\ r.q.realm \in Realm /\ r.q.cred \in Cred
  /\ x.live => r.q.nonce =< x.nonce

Waits ==
  \A i \in Slot :
     /\ req[i].s =< Len(ss)
     /\ req[i].freed = 0 => WaitsFor(req[i], ss[req[i].s])
     /\ req[i].freed = 1 /\ req[i].answers = 0 => req[i].s = 0 \/ ~ss[req[i].s].live

(* No two messages are about the same request.                                 *)
Apart(qs) ==
  \A a, b \in DOMAIN qs : \A j \in DOMAIN qs[a], k \in DOMAIN qs[b] :
     qs[a][j].slot = qs[b][k].slot => a = b /\ j = k

Mentions(qs, i) == \E a \in DOMAIN qs : \E k \in DOMAIN qs[a] : qs[a][k].slot = i

(* A message is about a request that waits, and names its session.             *)
Messages ==
  /\ Apart(Q)
  /\ \A i \in Slot : req[i].freed = 0 <=> Mentions(Q, i)
  /\ \A a \in Queues : \A k \in DOMAIN Q[a] : Q[a][k].s = req[Q[a][k].slot].s

(* Without oauth the session is of the one user it has served.                 *)
OwnUser ==
  \A s \in 1..MaxSession :
     /\ s > Len(ss) => served.who[s] = {}
     /\ ~opt.oauth => \E u \in User \cup {NoUser} : served.who[s] \subseteq {u}
     /\ ~opt.oauth /\ s =< Len(ss) /\ ss[s].live => served.who[s] \subseteq {ss[s].user}

AuthInv ==
  /\ AuthState
  /\ \A s \in DOMAIN ss : SessionOK(opt, ss[s])
  /\ Proven /\ Waits /\ Messages /\ OwnUser

-----------------------------------------------------------------------------
(* What the checks of a request do to its session: the session y comes after x *)
(* when it is as live, has no older nonce, no key but the one it had, and,     *)
(* without oauth, the user it had.                                             *)
Follows(o, x, y) ==
  /\ y \in SessionType /\ SessionOK(o, y)
  /\ y.live = x.live /\ x.nonce =< y.nonce /\ y.oauth = x.oauth
  /\ y.hmackey \in {x.hmackey, NoKey}
  /\ x.oauth \/ x.user = NoUser \/ y.user = x.user

(* A session comes after itself.                                               *)
LEMMA FollowsItself ==
  ASSUME NEW o, NEW x \in SessionType, SessionOK(o, x), AuthAssumption
  PROVE  Follows(o, x, x)
  BY DEF Follows, SessionType, AuthAssumption

(* What comes after what comes after a session comes after the session.        *)
LEMMA FollowsOn ==
  ASSUME NEW o, NEW x \in SessionType, NEW y, NEW z, Follows(o, x, y), Follows(o, y, z), AuthAssumption
  PROVE  Follows(o, x, z)
<1>1. x.nonce \in Nat /\ y.nonce \in Nat /\ z.nonce \in Nat
  BY DEF Follows, SessionType, AuthAssumption
<1>2. x.nonce =< z.nonce
  BY <1>1 DEF Follows
<1>3. z.hmackey \in {x.hmackey, NoKey}
  BY DEF Follows
<1>4. x.oauth \/ x.user = NoUser \/ z.user = x.user
  BY DEF Follows
<1>5. z \in SessionType /\ SessionOK(o, z) /\ z.live = x.live /\ z.oauth = x.oauth
  BY DEF Follows
<1>6. QED
  BY <1>2, <1>3, <1>4, <1>5 DEF Follows

(* A nonce is made when there is none or when it has run out.                  *)
LEMMA FreshFollows ==
  ASSUME NEW o, NEW x \in SessionType, SessionOK(o, x), AuthAssumption
  PROVE  /\ Follows(o, x, FreshNonce(x))
         /\ FreshNonce(x).hmackey = x.hmackey
<1>1. CASE x.nonce = 0 \/ x.expired
  <2> DEFINE y == [x EXCEPT !.nonce = @ + 1, !.expired = FALSE]
  <2>1. FreshNonce(x) = y
    BY <1>1 DEF FreshNonce
  <2>2. x.nonce \in Nat /\ x.nonce + 1 \in 0..MaxNonce
    BY <1>1 DEF SessionOK, SessionType, AuthAssumption
  <2>3. y \in SessionType
    BY <2>2 DEF SessionType
  <2>4. y.live = x.live /\ x.nonce =< y.nonce /\ y.oauth = x.oauth /\ y.hmackey = x.hmackey /\ y.user = x.user
        /\ y.counted = x.counted /\ y.realm = x.realm /\ y.origin_set = x.origin_set /\ y.expired = FALSE
    BY <2>2 DEF SessionType
  <2> HIDE DEF y
  <2>5. SessionOK(o, y)
    BY <2>4 DEF SessionOK
  <2>6. QED
    BY <2>1, <2>3, <2>4, <2>5 DEF Follows
<1>2. CASE ~(x.nonce = 0 \/ x.expired)
  BY <1>2, FollowsItself DEF FreshNonce
<1>3. QED
  BY <1>1, <1>2

(* The name that is kept is the one of the request.                            *)
LEMMA UsernameFollows ==
  ASSUME NEW o, NEW x \in SessionType, NEW q \in Request, SessionOK(o, x), AuthAssumption
  PROVE  /\ Follows(o, x, CheckUsername(x, q).ss)
         /\ CheckUsername(x, q).ss.nonce = x.nonce
         /\ CheckUsername(x, q).v = "ok" => q.user \in User /\ CheckUsername(x, q).ss.user = q.user
<1> DEFINE y == [x EXCEPT !.user = q.user]
           z == [x EXCEPT !.user = q.user, !.hmackey = NoKey]
<1>1. q.user \in User \cup {NoUser} /\ NoKey \in KeyType
  BY DEF Request, NoKey, KeyType
<1>2. y \in SessionType /\ z \in SessionType
  <2> DEFINE key == NoKey
  <2>1. key \in [user : User \cup {NoUser}, realm : Realm \cup {NoRealm}, cred : Cred \cup {0}]
    BY <1>1 DEF KeyType
  <2> HIDE DEF key
  <2>2. [x EXCEPT !.user = q.user, !.hmackey = key] \in SessionType
    BY <1>1, <2>1 DEF SessionType
  <2>3. y \in SessionType
    BY <1>1 DEF SessionType
  <2>4. QED
    BY <2>2, <2>3 DEF key
<1>3. /\ y.live = x.live /\ y.nonce = x.nonce /\ y.oauth = x.oauth /\ y.hmackey = x.hmackey /\ y.user = q.user
      /\ y.counted = x.counted /\ y.realm = x.realm /\ y.origin_set = x.origin_set /\ y.expired = x.expired
      /\ z.live = x.live /\ z.nonce = x.nonce /\ z.oauth = x.oauth /\ z.hmackey = NoKey /\ z.user = q.user
      /\ z.counted = x.counted /\ z.realm = x.realm /\ z.origin_set = x.origin_set /\ z.expired = x.expired
  BY DEF SessionType
<1>4. x.nonce =< x.nonce
  BY DEF SessionType, AuthAssumption
<1>5. CASE q.user = NoUser
  BY <1>5, FollowsItself DEF CheckUsername, Verdict
<1>6. CASE q.user # NoUser /\ x.user \in {NoUser, q.user}
  <2>1. CheckUsername(x, q) = [ss |-> y, v |-> "ok"]
    BY <1>6 DEF CheckUsername, Verdict
  <2> HIDE DEF y, z
  <2>2. Follows(o, x, y)
    BY <1>2, <1>3, <1>4, <1>6 DEF Follows, SessionOK
  <2>3. QED
    BY <2>1, <2>2, <1>1, <1>3, <1>6
<1>7. CASE q.user # NoUser /\ x.user \notin {NoUser, q.user} /\ x.oauth
  <2>1. CheckUsername(x, q) = [ss |-> z, v |-> "ok"]
    BY <1>7 DEF CheckUsername, Verdict
  <2> HIDE DEF y, z
  <2>2. Follows(o, x, z)
    BY <1>2, <1>3, <1>4, <1>7 DEF Follows, SessionOK
  <2>3. QED
    BY <2>1, <2>2, <1>1, <1>3, <1>7
<1>8. CASE q.user # NoUser /\ x.user \notin {NoUser, q.user} /\ ~x.oauth
  BY <1>8, FollowsItself DEF CheckUsername, Verdict, Mismatch
<1>9. QED
  BY <1>5, <1>6, <1>7, <1>8

(* The checks of a request leave a session that comes after the one they were  *)
(* given.  They let a request through only when the key of the session signed  *)
(* it, for the user of the session and with its nonce, and ask for a key only  *)
(* once, for a request that names a user, a realm and a nonce.                 *)
Checked(o, x, q, can_resume, c) ==
  /\ Follows(o, x, c.ss)
  /\ c.v = "verified" => /\ x.hmackey # NoKey /\ KeyOf(q) = x.hmackey
                         /\ q.user \in User /\ c.ss.user = q.user
                         /\ q.nonce =< x.nonce => q.nonce = x.nonce
  /\ c.v = "postponed" => can_resume /\ q.user \in User /\ q.realm \in Realm /\ q.cred \in Cred

(* The checks of the realm, the name, the nonce and the key, in that order.    *)
LEMMA AuthChecked ==
  ASSUME NEW o, NEW x0 \in SessionType, NEW q \in Request, NEW can_resume \in BOOLEAN,
         SessionOK(o, x0), AuthAssumption
  PROVE  Checked(o, x0, q, can_resume, check_stun_auth(x0, q, can_resume))
<1> DEFINE x == FreshNonce(x0)
           r == CheckRealm(x, q)
           u == CheckUsername(r.ss, q)
           n == CheckNonce(u.ss, q, x0.nonce = 0)
           c == check_stun_auth(x0, q, can_resume)
<1>1. Follows(o, x0, x) /\ x.hmackey = x0.hmackey
  BY FreshFollows
<1>2. x \in SessionType /\ SessionOK(o, x)
  BY <1>1 DEF Follows
<1>3. r.ss = x /\ (r.v = "ok" => q.realm # NoRealm)
      /\ r.v \notin {"verified", "postponed"}
  BY DEF CheckRealm, Verdict, Mismatch
<1>4. /\ Follows(o, x, u.ss) /\ u.ss.nonce = x.nonce
      /\ u.v = "ok" => q.user \in User /\ u.ss.user = q.user
  BY <1>2, <1>3, UsernameFollows
<1>5. u.v \notin {"verified", "postponed"}
  BY <1>3 DEF CheckUsername, Verdict, Mismatch
<1>6. n \notin {"verified", "postponed"} /\ (n = "ok" => q.nonce = x.nonce /\ x0.nonce # 0)
  BY <1>4 DEF CheckNonce
<1>7. Follows(o, x0, u.ss)
  BY <1>1, <1>4, FollowsOn
<1>8. \/ c = Verdict(x, "401") \/ c = r \/ c = u \/ (n # "ok" /\ c = Verdict(u.ss, n))
      \/ q.cred # 0 /\ r.v = "ok" /\ u.v = "ok" /\ n = "ok" /\ c = Verdict(u.ss, CheckKey(u.ss, q, can_resume))
  <2> HIDE DEF x, r, u, n
  <2>1. check_stun_auth(x0, q, can_resume) =
           CASE q.cred = 0  -> Verdict(x, "401")
             [] q.cred # 0 /\ r.v # "ok" -> r
             [] q.cred # 0 /\ r.v = "ok" /\ u.v # "ok" -> u
             [] q.cred # 0 /\ r.v = "ok" /\ u.v = "ok" /\ n # "ok" -> Verdict(u.ss, n)
             [] OTHER -> Verdict(u.ss, CheckKey(u.ss, q, can_resume))
    BY Zenon DEF check_stun_auth, x, r, u, n
  <2>2. QED
    BY <2>1
<1>9. CASE c = Verdict(x, "401")
  BY <1>9, <1>1 DEF Checked, Verdict
<1>10. CASE c = r
  BY <1>10, <1>1, <1>3 DEF Checked
<1>11. CASE c = u
  BY <1>11, <1>5, <1>7 DEF Checked
<1>12. CASE n # "ok" /\ c = Verdict(u.ss, n)
  BY <1>12, <1>6, <1>7 DEF Checked, Verdict
<1>13. CASE q.cred # 0 /\ r.v = "ok" /\ u.v = "ok" /\ n = "ok" /\ c = Verdict(u.ss, CheckKey(u.ss, q, can_resume))
  <2>1. c.ss = u.ss /\ c.v = CheckKey(u.ss, q, can_resume)
    BY <1>13 DEF Verdict
  <2>2. q.user \in User /\ u.ss.user = q.user /\ q.nonce = x.nonce /\ q.realm \in Realm /\ q.cred \in Cred
    BY <1>13, <1>3, <1>4, <1>6 DEF Request
  <2>3. ASSUME c.v = "verified" PROVE x0.hmackey # NoKey /\ KeyOf(q) = x0.hmackey
    <3>1. u.ss.hmackey # NoKey /\ KeyOf(q) = u.ss.hmackey
      BY <2>1, <2>3 DEF CheckKey
    <3>2. QED
      BY <3>1, <1>7 DEF Follows
  <2>4. ASSUME q.nonce =< x0.nonce PROVE q.nonce = x0.nonce
    <3>1. x0.nonce =< x.nonce /\ x0.nonce \in Nat /\ x.nonce \in Nat
      BY <1>1, <1>2 DEF Follows, SessionType, AuthAssumption
    <3>2. QED
      BY <2>2, <2>4, <3>1
  <2>5. c.v = "postponed" => can_resume
    BY <2>1 DEF CheckKey
  <2> HIDE DEF u, x, r, n
  <2>6. QED
    BY <2>1, <2>2, <2>3, <2>4, <2>5, <1>7 DEF Checked
<1>14. QED
  BY <1>8, <1>9, <1>10, <1>11, <1>12, <1>13

(* The origin moves a session to its realm before it is counted.               *)
LEMMA OriginFollows ==
  ASSUME NEW x \in SessionType, NEW q \in Request, opt \in Option, SessionOK(opt, x), AuthAssumption
  PROVE  /\ Follows(opt, x, SetOrigin(x, q)) /\ SetOrigin(x, q).hmackey = x.hmackey
         /\ SetOrigin(x, q).nonce = x.nonce
<1>1. CASE x.origin_set \/ q.method # "ALLOCATE"
  BY <1>1, FollowsItself DEF SetOrigin
<1>2. CASE ~(x.origin_set \/ q.method # "ALLOCATE")
  <2> DEFINE y == [x EXCEPT !.origin_set = TRUE, !.origin = q.origin,
                            !.realm = IF q.origin THEN opt.originRealm ELSE @]
  <2>1. SetOrigin(x, q) = y
    BY <1>2 DEF SetOrigin
  <2>2. q.origin \in BOOLEAN /\ opt.originRealm \in Realm /\ x.realm \in Realm
    BY DEF Request, Option, SessionType
  <2>3. y \in SessionType
    BY <2>2 DEF SessionType
  <2>4. y.live = x.live /\ x.nonce = y.nonce /\ y.oauth = x.oauth /\ y.hmackey = x.hmackey /\ y.user = x.user
        /\ y.counted = x.counted /\ y.expired = x.expired
    BY DEF SessionType
  <2>5. x.nonce =< x.nonce
    BY DEF SessionType, AuthAssumption
  <2> HIDE DEF y
  <2>6. SessionOK(opt, y)
    BY <2>4, <1>2 DEF SessionOK
  <2>7. QED
    BY <2>1, <2>3, <2>4, <2>5, <2>6 DEF Follows
<1>3. QED
  BY <1>1, <1>2

(* A session that is counted is counted in the realm it has then.              *)
LEMMA QuotaFollows ==
  ASSUME NEW o, NEW x \in SessionType, SessionOK(o, x), AuthAssumption
  PROVE  Follows(o, x, inc_quota(x)) /\ inc_quota(x).user = x.user /\ inc_quota(x).hmackey = x.hmackey
<1>1. CASE x.counted # NoRealm \/ ~x.origin_set
  BY <1>1, FollowsItself DEF inc_quota
<1>2. CASE ~(x.counted # NoRealm \/ ~x.origin_set)
  <2> DEFINE y == [x EXCEPT !.counted = x.realm]
  <2>1. inc_quota(x) = y
    BY <1>2 DEF inc_quota
  <2>2. y \in SessionType
    BY DEF SessionType
  <2>3. y.live = x.live /\ x.nonce = y.nonce /\ y.oauth = x.oauth /\ y.hmackey = x.hmackey /\ y.user = x.user
        /\ y.counted = x.realm /\ y.expired = x.expired /\ y.realm = x.realm /\ y.origin_set = x.origin_set
    BY DEF SessionType
  <2>4. x.nonce =< x.nonce
    BY DEF SessionType, AuthAssumption
  <2> HIDE DEF y
  <2>5. SessionOK(o, y)
    BY <2>3, <1>2 DEF SessionOK
  <2>6. QED
    BY <2>1, <2>2, <2>3, <2>4, <2>5 DEF Follows
<1>3. QED
  BY <1>1, <1>2

(* Carrying out a request changes neither the user nor the key.                *)
LEMMA DispatchFollows ==
  ASSUME NEW o, NEW x \in SessionType, NEW q \in Request, SessionOK(o, x), AuthAssumption
  PROVE  Follows(o, x, Dispatch(x, q).ss) /\ Dispatch(x, q).ss.user = x.user
<1>1. CASE q.method = "ALLOCATE"
  <2> DEFINE y == inc_quota(x)
             z == [y EXCEPT !.tid = q.tid]
  <2>1. Follows(o, x, y) /\ y.user = x.user
    BY QuotaFollows
  <2>2. Dispatch(x, q).ss = z
    BY <1>1 DEF Dispatch, Verdict
  <2> HIDE DEF y
  <2>3. y \in SessionType /\ SessionOK(o, y) /\ q.tid \in 0..2
    BY <2>1 DEF Follows, Request
  <2>4. z \in SessionType
    BY <2>3 DEF SessionType
  <2>5. z.live = y.live /\ z.nonce = y.nonce /\ z.oauth = y.oauth /\ z.hmackey = y.hmackey /\ z.user = y.user
        /\ z.counted = y.counted /\ z.expired = y.expired /\ z.realm = y.realm /\ z.origin_set = y.origin_set
    BY <2>3 DEF SessionType
  <2>6. y.nonce =< y.nonce
    BY <2>3 DEF SessionType, AuthAssumption
  <2> HIDE DEF z
  <2>7. Follows(o, y, z)
    BY <2>3, <2>4, <2>5, <2>6 DEF Follows, SessionOK
  <2>8. Follows(o, x, z) /\ z.user = x.user
    BY <2>1, <2>5, <2>7, FollowsOn
  <2>9. QED
    BY <2>2, <2>8
<1>2. CASE q.method # "ALLOCATE"
  BY <1>2, FollowsItself DEF Dispatch, Verdict
<1>3. QED
  BY <1>1, <1>2

(* A challenge is noted and changes nothing else.                              *)
LEMMA ChallengeFollows ==
  ASSUME NEW o, NEW x \in SessionType, NEW code, SessionOK(o, x), AuthAssumption
  PROVE  Follows(o, x, create_challenge_response(x, code)) /\ create_challenge_response(x, code).user = x.user
<1>1. CASE code \in {"401", "438"}
  <2> DEFINE y == [x EXCEPT !.told = x.nonce, !.toldRealm = x.realm]
  <2>1. create_challenge_response(x, code) = y
    BY <1>1 DEF create_challenge_response
  <2>2. y \in SessionType
    BY DEF SessionType
  <2>3. y.live = x.live /\ x.nonce = y.nonce /\ y.oauth = x.oauth /\ y.hmackey = x.hmackey /\ y.user = x.user
        /\ y.counted = x.counted /\ y.expired = x.expired /\ y.realm = x.realm /\ y.origin_set = x.origin_set
    BY DEF SessionType
  <2>4. x.nonce =< x.nonce
    BY DEF SessionType, AuthAssumption
  <2> HIDE DEF y
  <2>5. QED
    BY <2>1, <2>2, <2>3, <2>4 DEF Follows, SessionOK
<1>2. CASE code \notin {"401", "438"}
  BY <1>2, FollowsItself DEF create_challenge_response
<1>3. QED
  BY <1>1, <1>2

(* The same for the whole command, with its checks of transaction and origin.  *)
LEMMA CommandChecked ==
  ASSUME NEW x \in SessionType, NEW q \in Request, NEW can_resume \in BOOLEAN,
         opt \in Option, SessionOK(opt, x), AuthAssumption
  PROVE  Checked(opt, x, q, can_resume, handle_turn_command(x, q, can_resume))
<1> DEFINE y == SetOrigin(x, q)
           c == check_stun_auth(y, q, can_resume)
           h == handle_turn_command(x, q, can_resume)
<1>1. Follows(opt, x, y) /\ y.hmackey = x.hmackey /\ y.nonce = x.nonce
  BY OriginFollows
<1>2. y \in SessionType /\ SessionOK(opt, y)
  BY <1>1 DEF Follows
<1>3. Checked(opt, y, q, can_resume, c)
  BY <1>2, AuthChecked
<1>4. h = c \/ h \in {Verdict(x, v) : v \in {"open", "441", "437"}}
  BY DEF handle_turn_command
<1>5. CASE h = c
  <2> HIDE DEF y, c, h
  <2>1. Follows(opt, x, c.ss)
    BY <1>1, <1>3, FollowsOn DEF Checked
  <2>2. Checked(opt, x, q, can_resume, c)
    BY <2>1, <1>1, <1>3 DEF Checked
  <2>3. QED
    BY <2>2, <1>5 DEF h
<1>6. CASE h \in {Verdict(x, v) : v \in {"open", "441", "437"}}
  <2>1. h.ss = x /\ h.v \in {"open", "441", "437"}
    BY <1>6 DEF Verdict
  <2> HIDE DEF h
  <2>2. Checked(opt, x, q, can_resume, h)
    BY <2>1, FollowsItself DEF Checked
  <2>3. QED
    BY <2>2 DEF h
<1>7. QED
  BY <1>4, <1>5, <1>6

(* The session that a pass of a request leaves.                                *)
Left(x, q, can_resume) ==
  LET c == handle_turn_command(x, q, can_resume)
      d == IF c.v \in {"verified", "open"} THEN Dispatch(c.ss, q) ELSE c
  IN  create_challenge_response(d.ss, d.v)

(* It comes after the one the request was given, with the user of the checks.  *)
LEMMA LeftFollows ==
  ASSUME NEW x \in SessionType, NEW q \in Request, NEW can_resume \in BOOLEAN,
         opt \in Option, SessionOK(opt, x), AuthAssumption
  PROVE  Follows(opt, x, Left(x, q, can_resume))
         /\ Left(x, q, can_resume).user = handle_turn_command(x, q, can_resume).ss.user
<1> DEFINE c == handle_turn_command(x, q, can_resume)
           d == IF c.v \in {"verified", "open"} THEN Dispatch(c.ss, q) ELSE c
           y == create_challenge_response(d.ss, d.v)
<1>1. Follows(opt, x, c.ss)
  BY CommandChecked DEF Checked
<1>2. Left(x, q, can_resume) = y
  BY DEF Left
<1> HIDE DEF c
<1>3. c.ss \in SessionType /\ SessionOK(opt, c.ss)
  BY <1>1 DEF Follows
<1>4. Follows(opt, c.ss, d.ss) /\ d.ss.user = c.ss.user
  <2>1. CASE c.v \in {"verified", "open"}
    BY <2>1, <1>3, DispatchFollows
  <2>2. CASE c.v \notin {"verified", "open"}
    BY <2>2, <1>3, FollowsItself
  <2>3. QED
    BY <2>1, <2>2
<1> HIDE DEF d
<1>5. d.ss \in SessionType /\ SessionOK(opt, d.ss)
  BY <1>4 DEF Follows
<1>6. Follows(opt, d.ss, y) /\ y.user = d.ss.user
  BY <1>5, ChallengeFollows
<1> HIDE DEF y
<1>7. Follows(opt, x, y)
  <2>1. Follows(opt, x, d.ss)
    BY <1>1, <1>4, FollowsOn
  <2>2. QED
    BY <2>1, <1>6, FollowsOn
<1>8. QED
  BY <1>2, <1>4, <1>6, <1>7 DEF c

(* The key that is taken over is the one that was found; the session is as     *)
(* live as it was, with its user and its nonce, and counted where it moves.    *)
Took(o, x, f, y) ==
  /\ y \in SessionType /\ SessionOK(o, y)
  /\ y.live = x.live /\ y.nonce = x.nonce /\ y.user = x.user
  /\ y.hmackey = IF f.success THEN f.key ELSE x.hmackey

(* What resume_processing_after_username_check takes from the answer.          *)
LEMMA KeyTaken ==
  ASSUME NEW x \in SessionType, NEW f \in Found, SessionOK(opt, x),
         f.success => (f.oauth => opt.oauth), AuthAssumption
  PROVE  Took(opt, x, f, TakeKey(x, f))
<1> DEFINE y == [x EXCEPT !.hmackey = f.key, !.oauth = f.oauth]
           z == [dec_quota(y) EXCEPT !.realm = f.realm]
<1>1. CASE ~f.success
  BY <1>1 DEF TakeKey, Took
<1>2. CASE f.success
  <2>1. f.key \in [user : User \cup {NoUser}, realm : Realm \cup {NoRealm}, cred : Cred \cup {0}]
        /\ f.oauth \in BOOLEAN /\ f.realm \in Realm
    BY DEF Found, KeyType
  <2>2. y \in SessionType
    BY <2>1 DEF SessionType
  <2>3. y.live = x.live /\ y.nonce = x.nonce /\ y.user = x.user /\ y.hmackey = f.key /\ y.oauth = f.oauth
        /\ y.expired = x.expired /\ y.counted = x.counted /\ y.realm = x.realm /\ y.origin_set = x.origin_set
    BY DEF SessionType
  <2>4. TakeKey(x, f) = IF f.realm = x.realm THEN y ELSE inc_quota(z)
    BY <1>2 DEF TakeKey
  <2> HIDE DEF y
  <2>5. SessionOK(opt, y)
    BY <1>2, <2>3 DEF SessionOK
  <2>6. CASE f.realm = x.realm
    <3>1. Took(opt, x, f, y)
      BY <1>2, <2>2, <2>3, <2>5 DEF Took
    <3>2. QED
      BY <3>1, <2>4, <2>6
  <2>7. CASE f.realm # x.realm
    <3>1. z \in SessionType
      BY <2>1, <2>2 DEF SessionType, dec_quota
    <3>2. z.live = y.live /\ z.nonce = y.nonce /\ z.user = y.user /\ z.hmackey = y.hmackey /\ z.oauth = y.oauth
          /\ z.expired = y.expired /\ z.counted = NoRealm
      BY <2>2 DEF SessionType, dec_quota
    <3> HIDE DEF z
    <3>3. SessionOK(opt, z)
      BY <3>2, <2>5 DEF SessionOK
    <3>4. CASE z.origin_set
      <4> DEFINE w == [z EXCEPT !.counted = z.realm]
      <4>1. inc_quota(z) = w
        BY <3>2, <3>4 DEF inc_quota
      <4>2. w \in SessionType
        BY <3>1 DEF SessionType
      <4>3. w.live = z.live /\ w.nonce = z.nonce /\ w.user = z.user /\ w.hmackey = z.hmackey /\ w.oauth = z.oauth
            /\ w.expired = z.expired /\ w.counted = z.realm /\ w.realm = z.realm /\ w.origin_set = z.origin_set
        BY <3>1 DEF SessionType
      <4> HIDE DEF w
      <4>4. SessionOK(opt, w)
        BY <4>3, <3>3, <3>4 DEF SessionOK
      <4>5. Took(opt, x, f, w)
        BY <1>2, <4>2, <4>3, <4>4, <3>2, <2>3 DEF Took
      <4>6. QED
        BY <4>1, <4>5, <2>4, <2>7
    <3>5. CASE ~z.origin_set
      <4>1. inc_quota(z) = z
        BY <3>5 DEF inc_quota
      <4>2. Took(opt, x, f, z)
        BY <1>2, <3>1, <3>2, <3>3, <2>3 DEF Took
      <4>3. QED
        BY <4>1, <4>2, <2>4, <2>7
    <3>6. QED
      BY <3>4, <3>5
  <2>8. QED
    BY <2>6, <2>7
<1>3. QED
  BY <1>1, <1>2

-----------------------------------------------------------------------------
(* The queues.                                                                 *)

(* The queues qt hold what qs held and m.                                      *)
PostedTo(qs, m, qt) ==
  /\ Apart(qt) /\ DOMAIN qt = DOMAIN qs
  /\ \A i : Mentions(qt, i) <=> Mentions(qs, i) \/ i = m.slot
  /\ \A b \in DOMAIN qs : \A k \in DOMAIN qt[b] :
       qt[b][k] = m \/ \E j \in DOMAIN qs[b] : qs[b][j] = qt[b][k]

(* The queues qt hold what qs held without its message about the request h.    *)
TakenFrom(qs, h, qt) ==
  /\ Apart(qt) /\ DOMAIN qt = DOMAIN qs
  /\ ~Mentions(qt, h)
  /\ \A i : Mentions(qs, i) <=> Mentions(qt, i) \/ i = h
  /\ \A b \in DOMAIN qs : \A k \in DOMAIN qt[b] : \E j \in DOMAIN qs[b] : qs[b][j] = qt[b][k]

(* A message about a request that no other message is about.                   *)
LEMMA Posted ==
  ASSUME NEW A, NEW M, NEW qs \in [A -> Seq(M)], NEW a \in A, NEW m \in M,
         Apart(qs), ~Mentions(qs, m.slot), NEW qt, qt = [qs EXCEPT ![a] = Append(@, m)]
  PROVE  PostedTo(qs, m, qt)
<1>1. qs[a] \in Seq(M) /\ qt[a] = Append(qs[a], m) /\ DOMAIN qt = A /\ DOMAIN qs = A
      /\ \A b \in A : b # a => qt[b] = qs[b]
  OBVIOUS
<1>2. /\ DOMAIN qs[a] = 1..Len(qs[a]) /\ Len(qs[a]) \in Nat
      /\ DOMAIN qt[a] = 1..(Len(qs[a]) + 1) /\ qt[a][Len(qs[a]) + 1] = m
      /\ \A k \in 1..Len(qs[a]) : qt[a][k] = qs[a][k]
  BY <1>1, AppendProperties, LenProperties
<1>3. ASSUME NEW b \in A, NEW k \in DOMAIN qt[b]
      PROVE  \/ b = a /\ k = Len(qs[a]) + 1 /\ qt[b][k] = m
             \/ k \in DOMAIN qs[b] /\ qs[b][k] = qt[b][k]
  BY <1>1, <1>2
<1>4. ASSUME NEW b \in A, NEW k \in DOMAIN qs[b]
      PROVE  k \in DOMAIN qt[b] /\ qs[b][k] = qt[b][k] /\ qs[b][k].slot # m.slot
  <2>1. k \in DOMAIN qt[b] /\ qs[b][k] = qt[b][k]
    BY <1>1, <1>2
  <2>2. QED
    BY <2>1, <1>1 DEF Mentions
<1>5. Apart(qt)
  <2> SUFFICES ASSUME NEW b \in A, NEW c \in A, NEW j \in DOMAIN qt[b], NEW k \in DOMAIN qt[c],
                      qt[b][j].slot = qt[c][k].slot
               PROVE  b = c /\ j = k
    BY <1>1 DEF Apart
  <2>1. CASE j \in DOMAIN qs[b] /\ qs[b][j] = qt[b][j] /\ k \in DOMAIN qs[c] /\ qs[c][k] = qt[c][k]
    BY <2>1, <1>1 DEF Apart
  <2>2. QED
    BY <2>1, <1>3, <1>4
<1>6. ASSUME NEW i PROVE Mentions(qt, i) <=> Mentions(qs, i) \/ i = m.slot
  <2>1. ASSUME Mentions(qt, i) PROVE Mentions(qs, i) \/ i = m.slot
    BY <2>1, <1>1, <1>3 DEF Mentions
  <2>2. ASSUME Mentions(qs, i) PROVE Mentions(qt, i)
    BY <2>2, <1>1, <1>4 DEF Mentions
  <2>3. Mentions(qt, m.slot)
    <3>1. Len(qs[a]) + 1 \in DOMAIN qt[a]
      BY <1>2
    <3>2. QED
      BY <3>1, <1>1, <1>2 DEF Mentions
  <2>4. QED
    BY <2>1, <2>2, <2>3
<1>7. ASSUME NEW b \in A, NEW k \in DOMAIN qt[b]
      PROVE  qt[b][k] = m \/ \E j \in DOMAIN qs[b] : qs[b][j] = qt[b][k]
  BY <1>3
<1>8. QED
  BY <1>1, <1>5, <1>6, <1>7 DEF PostedTo

(* The first message of a queue is taken.                                      *)
LEMMA Taken ==
  ASSUME NEW A, NEW M, NEW qs \in [A -> Seq(M)], NEW a \in A, qs[a] # <<>>, Apart(qs),
         NEW qt, qt = [qs EXCEPT ![a] = Tail(@)]
  PROVE  TakenFrom(qs, Head(qs[a]).slot, qt)
<1> DEFINE n == Len(qs[a])
<1>1. qs[a] \in Seq(M) /\ qt[a] = Tail(qs[a]) /\ DOMAIN qt = A /\ DOMAIN qs = A
      /\ \A b \in A : b # a => qt[b] = qs[b]
  OBVIOUS
<1>2. /\ DOMAIN qs[a] = 1..n /\ n \in Nat /\ n # 0
      /\ DOMAIN qt[a] = 1..(n - 1) /\ Head(qs[a]) = qs[a][1]
      /\ \A k \in 1..(n - 1) : qt[a][k] = qs[a][k + 1]
  BY <1>1
<1> HIDE DEF n
<1> DEFINE up(b, k) == IF b = a THEN k + 1 ELSE k
<1>3. ASSUME NEW b \in A, NEW k \in DOMAIN qt[b]
      PROVE  up(b, k) \in DOMAIN qs[b] /\ qs[b][up(b, k)] = qt[b][k] /\ (b = a => k \in Nat /\ up(b, k) # 1)
  <2>1. CASE b = a
    <3>1. k \in 1..(n - 1)
      BY <2>1, <1>2
    <3>2. k \in Nat /\ k + 1 # 1 /\ k + 1 \in 1..n
      BY <3>1, <1>2
    <3>3. up(b, k) = k + 1 /\ qs[b][k + 1] = qt[b][k]
      BY <2>1, <3>1, <1>2
    <3> HIDE DEF up
    <3>4. QED
      BY <2>1, <3>2, <3>3, <1>2
  <2>2. CASE b # a
    BY <2>2, <1>1
  <2>3. QED
    BY <2>1, <2>2
<1>4. ASSUME NEW b \in A, NEW k \in DOMAIN qs[b]
      PROVE  (b = a /\ k = 1) \/ \E j \in DOMAIN qt[b] : qs[b][k] = qt[b][j]
  <2>1. CASE b = a /\ k # 1
    <3>1. k - 1 \in DOMAIN qt[b] /\ (k - 1) + 1 = k
      BY <2>1, <1>2
    <3>2. QED
      BY <2>1, <3>1, <1>2
  <2>2. CASE b # a
    BY <2>2, <1>1
  <2>3. QED
    BY <2>1, <2>2
<1>5. Apart(qt)
  <2> SUFFICES ASSUME NEW b \in A, NEW c \in A, NEW j \in DOMAIN qt[b], NEW k \in DOMAIN qt[c],
                      qt[b][j].slot = qt[c][k].slot
               PROVE  b = c /\ j = k
    BY <1>1 DEF Apart
  <2>1. b = c /\ up(b, j) = up(c, k)
    BY <1>1, <1>3 DEF Apart
  <2>2. QED
    BY <2>1, <1>3
<1>6. ~Mentions(qt, Head(qs[a]).slot)
  <2> SUFFICES ASSUME NEW b \in A, NEW k \in DOMAIN qt[b], qt[b][k].slot = qs[a][1].slot
               PROVE  FALSE
    BY <1>1, <1>2 DEF Mentions
  <2>1. 1 \in DOMAIN qs[a]
    BY <1>2
  <2>2. b = a /\ up(b, k) = 1
    BY <2>1, <1>1, <1>3 DEF Apart
  <2>3. QED
    BY <2>2, <1>3
<1>7. ASSUME NEW i PROVE Mentions(qs, i) <=> Mentions(qt, i) \/ i = Head(qs[a]).slot
  <2>1. ASSUME Mentions(qs, i) PROVE Mentions(qt, i) \/ i = Head(qs[a]).slot
    BY <2>1, <1>1, <1>2, <1>4 DEF Mentions
  <2>2. ASSUME Mentions(qt, i) PROVE Mentions(qs, i)
    <3>1. PICK b \in A : \E k \in DOMAIN qt[b] : qt[b][k].slot = i
      BY <2>2, <1>1 DEF Mentions
    <3>2. PICK k \in DOMAIN qt[b] : qt[b][k].slot = i
      BY <3>1
    <3>3. up(b, k) \in DOMAIN qs[b] /\ qs[b][up(b, k)].slot = i
      BY <3>2, <1>3
    <3>4. QED
      BY <3>3, <1>1 DEF Mentions
  <2>3. Mentions(qs, Head(qs[a]).slot)
    <3>1. 1 \in DOMAIN qs[a]
      BY <1>2
    <3>2. QED
      BY <3>1, <1>1, <1>2 DEF Mentions
  <2>4. QED
    BY <2>1, <2>2, <2>3
<1>8. ASSUME NEW b \in A, NEW k \in DOMAIN qt[b]
      PROVE  \E j \in DOMAIN qs[b] : qs[b][j] = qt[b][k]
  BY <1>3
<1>9. QED
  BY <1>1, <1>5, <1>6, <1>7, <1>8 DEF TakenFrom

-----------------------------------------------------------------------------
(* What an authentication thread finds is a key of the request's user, and     *)
(* comes from a token only where tokens are in use.                            *)
LEMMA FindingRight ==
  ASSUME AuthAssumption, opt \in Option, db \in [User -> SUBSET Cred],
         NEW oauth \in BOOLEAN, NEW q \in Request, NEW realm \in Realm,
         q.user \in User, q.realm \in Realm, q.cred \in Cred, oauth => opt.oauth
  PROVE  get_user_key(oauth, q, realm) \in Found
         /\ (get_user_key(oauth, q, realm).oauth => opt.oauth)
<1>1. KeyOf(q) \in KeyType /\ NoKey \in KeyType
  <2>1. q.token \in BOOLEAN
    BY DEF Request
  <2>2. QED
    BY <2>1 DEF KeyOf, NoKey, KeyType
<1>2. ASSUME NEW f, NEW s \in BOOLEAN, NEW a \in BOOLEAN, NEW k \in KeyType, NEW r \in Realm,
             f = Finding(s, a, k, r)
      PROVE  f \in Found /\ f.oauth = a
  BY <1>2 DEF Finding, Found
<1>3. opt.oauth \in BOOLEAN /\ opt.secrets \in BOOLEAN /\ opt.kidRealm \in Realm \cup {NoRealm}
  BY DEF Option
<1>4. CASE opt.oauth /\ q.token
  <2> DEFINE good == q.user # NoUser /\ q.cred \in db[q.user]
             k == IF good THEN KeyOf(q) ELSE NoKey
             r == IF good /\ opt.kidRealm # NoRealm THEN opt.kidRealm ELSE realm
  <2>1. get_user_key(oauth, q, realm) = Finding(good, TRUE, k, r)
    BY <1>4 DEF get_user_key, OauthKey
  <2>2. k \in KeyType /\ r \in Realm /\ good \in BOOLEAN
    BY <1>1, <1>3
  <2> HIDE DEF good, k, r
  <2>3. QED
    BY <1>2, <1>4, <2>1, <2>2
<1>5. CASE ~(opt.oauth /\ q.token) /\ oauth
  <2>1. get_user_key(oauth, q, realm) = Finding(FALSE, TRUE, NoKey, realm)
    BY <1>5 DEF get_user_key
  <2>2. QED
    BY <1>1, <1>2, <1>5, <2>1
<1>6. CASE ~(opt.oauth /\ q.token) /\ ~oauth /\ opt.secrets
  <2> DEFINE good == q.cred \in db[q.user] /\ q.realm = realm /\ ~q.token
             k == IF good THEN KeyOf(q) ELSE NoKey
  <2>1. get_user_key(oauth, q, realm) = Finding(good, FALSE, k, realm)
    BY <1>6 DEF get_user_key, SecretKey
  <2>2. k \in KeyType /\ good \in BOOLEAN
    BY <1>1
  <2> HIDE DEF good, k
  <2>3. QED
    BY <1>2, <2>1, <2>2
<1>7. CASE ~(opt.oauth /\ q.token) /\ ~oauth /\ ~opt.secrets
  <2>1. CASE db[q.user] = {}
    <3>1. get_user_key(oauth, q, realm) = Finding(FALSE, FALSE, NoKey, realm)
      BY <1>7, <2>1 DEF get_user_key, AccountKey
    <3>2. QED
      BY <1>1, <1>2, <3>1
  <2>2. CASE db[q.user] # {}
    <3> DEFINE c == CHOOSE c \in db[q.user] : TRUE
               k == [user |-> q.user, realm |-> IF q.user \in opt.static THEN DefaultRealm ELSE realm, cred |-> c]
    <3>1. get_user_key(oauth, q, realm) = Finding(TRUE, FALSE, k, realm)
      BY <1>7, <2>2 DEF get_user_key, AccountKey
    <3>2. c \in db[q.user]
      BY <2>2
    <3> HIDE DEF c
    <3>3. k \in KeyType
      BY <3>2 DEF KeyType, AuthAssumption
    <3> HIDE DEF k
    <3>4. QED
      BY <1>2, <3>1, <3>3
  <2>3. QED
    BY <2>1, <2>2
<1>8. QED
  BY <1>4, <1>5, <1>6, <1>7

-----------------------------------------------------------------------------
(* A pass of a request r through the relay thread, for a session that is taken *)
(* up as x.                                                                    *)
TakenUp(s, x, r) ==
  /\ s \in DOMAIN ss /\ ss[s].live
  /\ x \in SessionType /\ SessionOK(opt, x)
  /\ x.live = ss[s].live /\ x.nonce = ss[s].nonce /\ x.user = ss[s].user
  /\ x.hmackey # NoKey => [s |-> s, key |-> x.hmackey] \in granted
  /\ r \in Waiter /\ r.s = s /\ r.answers = 0 /\ r.freed = 0 /\ r.q.nonce =< x.nonce

(* The sessions after a pass, of which only one may differ.                    *)
Passed(s, x) ==
  /\ ss' \in Seq(SessionType) /\ Len(ss') = Len(ss) /\ DOMAIN ss' = DOMAIN ss
  /\ \A t \in DOMAIN ss : t # s => ss'[t] = ss[t]
  /\ Follows(opt, x, ss'[s])

(* The pass leaves the session of LeftFollows.                                 *)
LEMMA PassSession ==
  ASSUME AuthAssumption, AuthState, NEW i \in Slot, NEW s, NEW x, NEW r, NEW can_resume \in BOOLEAN,
         TakenUp(s, x, r), read_client_connection(i, s, x, r, can_resume)
  PROVE  /\ Passed(s, x)
         /\ Checked(opt, x, r.q, can_resume, handle_turn_command(x, r.q, can_resume))
         /\ ss'[s].user = handle_turn_command(x, r.q, can_resume).ss.user
<1>1. s \in DOMAIN ss /\ x \in SessionType /\ SessionOK(opt, x) /\ r.q \in Request /\ opt \in Option
  BY DEF TakenUp, AuthState, Waiter
<1>2. ss' = [ss EXCEPT ![s] = Left(x, r.q, can_resume)]
  BY DEF read_client_connection, Left
<1>3. PICK y : y = Left(x, r.q, can_resume)
  OBVIOUS
<1>4. Follows(opt, x, y) /\ y.user = handle_turn_command(x, r.q, can_resume).ss.user
  BY <1>1, <1>3, LeftFollows
<1>5. y \in SessionType
  BY <1>4 DEF Follows
<1>6. ss \in Seq(SessionType) /\ ss' = [ss EXCEPT ![s] = y]
  BY <1>2, <1>3 DEF AuthState
<1>7. ss' \in Seq(SessionType) /\ Len(ss') = Len(ss) /\ DOMAIN ss' = DOMAIN ss /\ ss'[s] = y
      /\ \A t \in DOMAIN ss : t # s => ss'[t] = ss[t]
  BY <1>1, <1>5, <1>6, ExceptSeq
<1>8. Checked(opt, x, r.q, can_resume, handle_turn_command(x, r.q, can_resume))
  BY <1>1, CommandChecked
<1>9. QED
  BY <1>4, <1>7, <1>8 DEF Passed

(* Every session is as live as it was, and has no older nonce.                 *)
LEMMA PassKeeps ==
  ASSUME AuthAssumption, AuthState, \A t \in DOMAIN ss : SessionOK(opt, ss[t]),
         NEW s, NEW x, NEW r, TakenUp(s, x, r), Passed(s, x), opt' = opt
  PROVE  \A t \in DOMAIN ss : /\ ss[t] \in SessionType /\ ss'[t] \in SessionType
                              /\ ss'[t].live = ss[t].live /\ ss[t].nonce =< ss'[t].nonce
                              /\ SessionOK(opt', ss'[t])
<1> TAKE t \in DOMAIN ss
<1>1. ss[t] \in SessionType
  BY ElementOfSeq DEF AuthState
<1>2. ss[t].nonce =< ss[t].nonce
  BY <1>1 DEF SessionType, AuthAssumption
<1>3. QED
  BY <1>1, <1>2 DEF TakenUp, Passed, Follows

(* The keys of sessions stay granted.                                          *)
LEMMA PassProven ==
  ASSUME KeysProven, NEW s, NEW x, NEW r, TakenUp(s, x, r), Passed(s, x), granted' = granted
  PROVE  KeysProven'
<1> SUFFICES ASSUME NEW t \in DOMAIN ss, ss'[t].hmackey # NoKey
             PROVE  [s |-> t, key |-> ss'[t].hmackey] \in granted
  BY DEF KeysProven, Passed
<1>1. CASE t = s
  BY <1>1 DEF TakenUp, Passed, Follows
<1>2. CASE t # s
  BY <1>2 DEF Passed, KeysProven
<1>3. QED
  BY <1>1, <1>2

(* What is noted of a pass: a request that was carried out was signed with the *)
(* key of the session and with its nonce, for the user of the session.         *)
Noted(s, y) ==
  /\ served' \in [last : SUBSET Carried, who : [1..MaxSession -> SUBSET User]]
  /\ \A e \in served'.last : e.fresh /\ [s |-> e.s, key |-> e.key] \in granted
  /\ \A t \in 1..MaxSession : t # s => served'.who[t] = served.who[t]
  /\ served'.who[s] \subseteq served.who[s] \cup {y.user}

(* The history after a pass.                                                   *)
LEMMA PassServed ==
  ASSUME AuthAssumption, AuthState, NEW i \in Slot, NEW s, NEW x, NEW r, NEW can_resume \in BOOLEAN,
         TakenUp(s, x, r), read_client_connection(i, s, x, r, can_resume)
  PROVE  Noted(s, ss'[s])
<1> DEFINE c == handle_turn_command(x, r.q, can_resume)
           d == IF c.v \in {"verified", "open"} THEN Dispatch(c.ss, r.q) ELSE c
           bare == [served EXCEPT !.last = {}]
           e == [s |-> s, key |-> KeyOf(r.q), fresh |-> r.q.nonce = x.nonce]
           noted == [served EXCEPT !.last = {e}, !.who[s] = @ \cup {r.q.user}]
<1>1. Checked(opt, x, r.q, can_resume, c) /\ ss'[s].user = c.ss.user
  BY PassSession
<1>2. served' = bare \/ (c.v = "verified" /\ served' = noted)
  <2>1. served' = bare \/ served' = IF d.v = "ok" /\ c.v = "verified" THEN noted ELSE bare
    BY Zenon DEF read_client_connection
  <2> HIDE DEF c, d, noted, bare
  <2>2. QED
    BY <2>1
<1>3. served \in [last : SUBSET Carried, who : [1..MaxSession -> SUBSET User]]
  BY DEF AuthState
<1>4. s \in 1..MaxSession
  <2>1. ss \in Seq(SessionType) /\ Len(ss) =< MaxSession /\ s \in DOMAIN ss /\ Len(ss) \in Nat
    BY LenProperties DEF AuthState, TakenUp
  <2>2. QED
    BY <2>1, LenProperties DEF AuthAssumption
<1>5. CASE served' = bare
  <2>1. served'.last = {} /\ served'.who = served.who
    BY <1>3, <1>5
  <2>2. served' \in [last : SUBSET Carried, who : [1..MaxSession -> SUBSET User]]
    BY <1>3, <1>5
  <2>3. QED
    BY <2>1, <2>2 DEF Noted
<1>6. CASE c.v = "verified" /\ served' = noted
  <2>1. /\ x.hmackey # NoKey /\ KeyOf(r.q) = x.hmackey /\ r.q.user \in User
        /\ c.ss.user = r.q.user /\ r.q.nonce = x.nonce
    BY <1>1, <1>6 DEF Checked, TakenUp
  <2> HIDE DEF c
  <2>2. e \in Carried /\ e.fresh /\ e.s = s /\ e.key = x.hmackey
    BY <1>4, <2>1 DEF Carried, TakenUp, SessionType, KeyType
  <2> HIDE DEF e
  <2>3. served'.last = {e} /\ served'.who = [served.who EXCEPT ![s] = @ \cup {r.q.user}]
    BY <1>3, <1>6
  <2>4. [served.who EXCEPT ![s] = @ \cup {r.q.user}] \in [1..MaxSession -> SUBSET User]
    BY <1>3, <1>4, <2>1
  <2>5. served' \in [last : SUBSET Carried, who : [1..MaxSession -> SUBSET User]]
    BY <1>3, <1>6, <2>2, <2>4
  <2>6. [s |-> s, key |-> x.hmackey] \in granted
    BY <2>1 DEF TakenUp
  <2>7. served'.who[s] = served.who[s] \cup {r.q.user} /\ r.q.user = ss'[s].user
        /\ \A t \in 1..MaxSession : t # s => served'.who[t] = served.who[t]
    BY <1>1, <1>3, <1>4, <2>1, <2>3
  <2>8. QED
    BY <2>2, <2>3, <2>5, <2>6, <2>7 DEF Noted
<1>7. QED
  BY <1>2, <1>5, <1>6

(* Without oauth a session stays with the user it has served.                  *)
LEMMA PassOwnUser ==
  ASSUME AuthAssumption, AuthState, OwnUser, NEW s, NEW x, NEW r,
         TakenUp(s, x, r), Passed(s, x), Noted(s, ss'[s]), opt' = opt
  PROVE  OwnUser'
<1> SUFFICES ASSUME NEW t \in 1..MaxSession
             PROVE  /\ t > Len(ss') => served'.who[t] = {}
                    /\ ~opt.oauth => \E u \in User \cup {NoUser} : served'.who[t] \subseteq {u}
                    /\ ~opt.oauth /\ t =< Len(ss') /\ ss'[t].live => served'.who[t] \subseteq {ss'[t].user}
  BY DEF OwnUser
<1>1. DOMAIN ss = 1..Len(ss) /\ Len(ss) \in Nat /\ Len(ss') = Len(ss) /\ s \in 1..Len(ss)
  BY LenProperties DEF AuthState, Passed, TakenUp
<1>2. CASE t # s
  <2>1. served'.who[t] = served.who[t] /\ (t =< Len(ss) => ss'[t] = ss[t])
    BY <1>1, <1>2 DEF Noted, Passed, AuthAssumption
  <2>2. QED
    BY <1>1, <2>1 DEF OwnUser
<1>3. CASE t = s
  <2>1. ~(t > Len(ss'))
    BY <1>1, <1>3
  <2>2. ss'[s].user \in User \cup {NoUser}
    BY DEF Passed, Follows, SessionType
  <2>3. ASSUME ~opt.oauth PROVE served'.who[s] \subseteq {ss'[s].user}
    <3>1. served.who[s] \subseteq {x.user} /\ served.who[s] \subseteq User
      <4>1. s \in 1..MaxSession /\ s =< Len(ss)
        BY <1>1, <1>3
      <4>2. served.who[s] \subseteq {ss[s].user}
        BY <2>3, <4>1 DEF OwnUser, TakenUp
      <4>3. served.who[s] \subseteq User
        BY <4>1 DEF AuthState
      <4>4. QED
        BY <4>2, <4>3 DEF TakenUp
    <3>2. ~x.oauth
      BY <2>3 DEF TakenUp, SessionOK
    <3>3. served.who[s] \subseteq {ss'[s].user}
      BY <3>1, <3>2 DEF Passed, Follows, AuthAssumption
    <3>4. QED
      BY <3>3 DEF Noted
  <2>4. QED
    BY <1>3, <2>1, <2>2, <2>3
<1>4. QED
  BY <1>2, <1>3

(* The request itself either waits for its key or is done with.                *)
Turned(i, s, can_resume, v) ==
  /\ req' \in [Slot -> Waiter] /\ \A j \in Slot : j # i => req'[j] = req[j]
  /\ req'[i].s = s
  /\ v = "postponed" => can_resume /\ req'[i].freed = 0 /\ WaitsFor(req'[i], ss'[s])
  /\ v # "postponed" => req'[i].freed = 1 /\ req'[i].answers = 1

(* The request after a pass.                                                   *)
LEMMA PassRequest ==
  ASSUME AuthAssumption, AuthState, NEW i \in Slot, NEW s, NEW x, NEW r, NEW can_resume \in BOOLEAN,
         TakenUp(s, x, r), read_client_connection(i, s, x, r, can_resume)
  PROVE  Turned(i, s, can_resume, handle_turn_command(x, r.q, can_resume).v)
<1> DEFINE c == handle_turn_command(x, r.q, can_resume)
<1>1. Checked(opt, x, r.q, can_resume, c) /\ Passed(s, x)
  BY PassSession
<1>2. \/ c.v = "postponed" /\ req' = [req EXCEPT ![i] = r]
      \/ c.v # "postponed" /\ req' = [req EXCEPT ![i] = Done(r, 1)]
  BY DEF read_client_connection
<1>3. r \in Waiter /\ r.s = s /\ r.answers = 0 /\ r.freed = 0 /\ r.q.nonce =< x.nonce /\ r.q \in Request
  BY DEF TakenUp, Waiter
<1>4. s \in 1..Len(ss) /\ Len(ss) \in Nat
  BY LenProperties DEF TakenUp, AuthState
<1> HIDE DEF c
<1>5. CASE c.v = "postponed" /\ req' = [req EXCEPT ![i] = r]
  <2>1. req'[i] = r /\ req' \in [Slot -> Waiter] /\ \A j \in Slot : j # i => req'[j] = req[j]
    BY <1>3, <1>5 DEF AuthState
  <2>2. r.q.nonce =< ss'[s].nonce
    <3>1. x.nonce =< ss'[s].nonce /\ x.nonce \in Nat /\ ss'[s].nonce \in Nat /\ r.q.nonce \in Nat
      BY <1>1, <1>3 DEF Passed, Follows, SessionType, AuthAssumption, TakenUp, Request
    <3>2. QED
      BY <3>1, <1>3
  <2>3. can_resume /\ r.q.user \in User /\ r.q.realm \in Realm /\ r.q.cred \in Cred
    BY <1>1, <1>5 DEF Checked
  <2>4. WaitsFor(r, ss'[s])
    BY <1>3, <1>4, <2>2, <2>3 DEF WaitsFor
  <2>5. QED
    BY <1>3, <1>5, <2>1, <2>3, <2>4 DEF Turned, c
<1>6. CASE c.v # "postponed" /\ req' = [req EXCEPT ![i] = Done(r, 1)]
  <2>1. Done(r, 1) = [s |-> s, q |-> NoRequest, answers |-> 1, freed |-> 1]
    <3>1. r.answers + 1 = 1 /\ r.freed + 1 = 1
      BY <1>3
    <3>2. Done(r, 1) = [Idle EXCEPT !.s = s, !.answers = 1, !.freed = 1]
      BY <1>3, <3>1, Zenon DEF Done
    <3>3. QED
      BY <3>2 DEF Idle
  <2>2. NoRequest \in Request
    BY DEF NoRequest, Request, Method, AuthAssumption
  <2>3. Done(r, 1) \in Waiter /\ Done(r, 1).s = s /\ Done(r, 1).freed = 1 /\ Done(r, 1).answers = 1
    BY <1>3, <2>1, <2>2 DEF Waiter
  <2>4. req'[i] = Done(r, 1) /\ req' \in [Slot -> Waiter] /\ \A j \in Slot : j # i => req'[j] = req[j]
    BY <1>6, <2>3 DEF AuthState
  <2>5. QED
    BY <1>6, <2>3, <2>4 DEF Turned, c
<1>7. QED
  BY <1>2, <1>5, <1>6

(* Who waited still waits for the session it waited for.                       *)
LEMMA PassWaits ==
  ASSUME AuthAssumption, AuthState, Waits, \A t \in DOMAIN ss : SessionOK(opt, ss[t]), opt' = opt,
         NEW i \in Slot, NEW s, NEW x, NEW r, NEW can_resume, NEW v,
         TakenUp(s, x, r), Passed(s, x), Turned(i, s, can_resume, v)
  PROVE  Waits'
<1>1. \A t \in DOMAIN ss : ss[t] \in SessionType /\ ss'[t] \in SessionType
                           /\ ss'[t].live = ss[t].live /\ ss[t].nonce =< ss'[t].nonce
  BY PassKeeps
<1>2. DOMAIN ss = 1..Len(ss) /\ Len(ss) \in Nat /\ Len(ss') = Len(ss) /\ s \in 1..Len(ss)
  BY LenProperties DEF AuthState, Passed, TakenUp
<1> SUFFICES ASSUME NEW j \in Slot
             PROVE  /\ req'[j].s =< Len(ss')
                    /\ req'[j].freed = 0 => WaitsFor(req'[j], ss'[req'[j].s])
                    /\ req'[j].freed = 1 /\ req'[j].answers = 0 => req'[j].s = 0 \/ ~ss'[req'[j].s].live
  BY DEF Waits, WaitsFor
<1>3. CASE j = i
  BY <1>2, <1>3 DEF Turned
<1>4. CASE j # i
  <2>1. req'[j] = req[j] /\ req[j] \in Waiter
    BY <1>4 DEF Turned, AuthState
  <2>2. req[j].s =< Len(ss) /\ req[j].s \in Nat /\ req[j].q.nonce \in Nat
    BY <2>1 DEF Waits, Waiter, Request, AuthAssumption
  <2>3. ASSUME req[j].freed = 0 PROVE WaitsFor(req[j], ss'[req[j].s])
    <3>1. WaitsFor(req[j], ss[req[j].s])
      BY <2>3 DEF Waits
    <3>2. req[j].s \in DOMAIN ss
      BY <1>2, <2>2, <3>1 DEF WaitsFor
    <3>3. ss'[req[j].s].live => req[j].q.nonce =< ss'[req[j].s].nonce
      <4>1. ss[req[j].s].nonce \in Nat /\ ss'[req[j].s].nonce \in Nat
        BY <1>1, <3>2 DEF SessionType, AuthAssumption
      <4>2. QED
        BY <1>1, <2>2, <3>1, <3>2, <4>1 DEF WaitsFor
    <3>4. QED
      BY <3>1, <3>3 DEF WaitsFor
  <2>4. ASSUME req[j].freed = 1, req[j].answers = 0 PROVE req[j].s = 0 \/ ~ss'[req[j].s].live
    <3>1. req[j].s = 0 \/ ~ss[req[j].s].live
      BY <2>4 DEF Waits
    <3>2. req[j].s # 0 => req[j].s \in DOMAIN ss
      BY <1>2, <2>2
    <3>3. QED
      BY <1>1, <3>1, <3>2
  <2>5. QED
    BY <1>2, <2>1, <2>2, <2>3, <2>4
<1>5. QED
  BY <1>3, <1>4

(* A request that is to wait is handed to an authentication thread that        *)
(* exists, and otherwise nobody is asked.                                      *)
Asks(i, s, v) ==
  /\ counter' \in 1..AuthServers
  /\ v # "postponed" => inq' = inq
  /\ v = "postponed" => \E sn \in AuthServer, m \in Asked :
       m.slot = i /\ m.s = s /\ (m.oauth => opt.oauth) /\ inq' = [inq EXCEPT ![sn] = Append(@, m)]

(* The questions after a pass.                                                 *)
LEMMA PassAsks ==
  ASSUME AuthAssumption, AuthState, NEW i \in Slot, NEW s, NEW x, NEW r, NEW can_resume \in BOOLEAN,
         TakenUp(s, x, r), read_client_connection(i, s, x, r, can_resume)
  PROVE  Asks(i, s, handle_turn_command(x, r.q, can_resume).v)
<1> DEFINE c == handle_turn_command(x, r.q, can_resume)
           sn == send_auth_message_to_auth_server
           m == [slot |-> i, s |-> s, oauth |-> c.ss.oauth,
                 realm |-> IF c.ss.oauth THEN c.ss.realm ELSE r.q.realm]
<1>1. Checked(opt, x, r.q, can_resume, c)
  BY PassSession
<1>2. \/ c.v = "postponed" /\ counter' = sn + 1 /\ inq' = [inq EXCEPT ![sn] = Append(@, m)]
      \/ c.v # "postponed" /\ counter' = counter /\ inq' = inq
  BY DEF read_client_connection, start_user_check
<1>3. sn \in AuthServer /\ sn + 1 \in 1..AuthServers /\ counter \in 1..AuthServers
  BY DEF send_auth_message_to_auth_server, AuthServer, AuthState, AuthAssumption
<1> HIDE DEF c, sn
<1>4. CASE c.v = "postponed" /\ counter' = sn + 1 /\ inq' = [inq EXCEPT ![sn] = Append(@, m)]
  <2>1. c.ss \in SessionType /\ SessionOK(opt, c.ss) /\ r.q.realm \in Realm
    BY <1>1, <1>4 DEF Checked, Follows
  <2>2. c.ss.oauth \in BOOLEAN /\ c.ss.realm \in Realm /\ (c.ss.oauth => opt.oauth)
    BY <2>1 DEF SessionType, SessionOK
  <2>3. s \in 1..MaxSession
    BY LenProperties DEF TakenUp, AuthState, AuthAssumption
  <2>4. m \in Asked /\ m.slot = i /\ m.s = s /\ (m.oauth => opt.oauth)
    BY <2>1, <2>2, <2>3 DEF Asked
  <2> HIDE DEF m
  <2>5. Asks(i, s, c.v)
    BY <1>3, <1>4, <2>4 DEF Asks
  <2>6. QED
    BY <2>5 DEF c
<1>5. CASE c.v # "postponed" /\ counter' = counter /\ inq' = inq
  <2>1. Asks(i, s, c.v)
    BY <1>3, <1>5 DEF Asks
  <2>2. QED
    BY <2>1 DEF c
<1>6. QED
  BY <1>2, <1>4, <1>5

-----------------------------------------------------------------------------
(* The queues as one function.                                                 *)
LEMMA QueuesAre ==
  ASSUME AuthAssumption
  PROVE  /\ 0 \in Queues /\ 0 \notin AuthServer /\ AuthServer \subseteq Queues
         /\ Queues \ {0} = AuthServer
         /\ DOMAIN Q = Queues /\ Q[0] = outq /\ \A a \in AuthServer : Q[a] = inq[a]
<1>1. 0 \notin AuthServer
  BY DEF AuthServer
<1>2. QED
  BY <1>1 DEF Queues, Q, Queue

(* All of them hold messages.                                                  *)
LEMMA QueuesHold ==
  ASSUME AuthAssumption, AuthState
  PROVE  Q \in [Queues -> Seq(Asked \cup Answered)]
<1>1. ASSUME NEW a \in Queues PROVE Queue(a) \in Seq(Asked \cup Answered)
  <2>1. CASE a = 0
    BY <2>1 DEF Queue, AuthState
  <2>2. CASE a # 0
    <3>1. a \in AuthServer /\ inq[a] \in Seq(Asked)
      BY <2>2 DEF Queues, AuthState
    <3>2. QED
      BY <2>2, <3>1 DEF Queue
  <2>3. QED
    BY <2>1, <2>2
<1>2. QED
  BY <1>1 DEF Q

(* A request that comes to wait has the one message that is sent about it.     *)
LEMMA MessagesPosted ==
  ASSUME AuthAssumption, AuthState, Messages, NEW i \in Slot, NEW s, NEW sn \in AuthServer, NEW m \in Asked,
         m.slot = i, m.s = s, req[i].freed = 1,
         inq' = [inq EXCEPT ![sn] = Append(@, m)], outq' = outq,
         req'[i].freed = 0, req'[i].s = s, \A j \in Slot : j # i => req'[j] = req[j]
  PROVE  Messages'
<1> DEFINE A == Queues
           qt == [Q EXCEPT ![sn] = Append(@, m)]
<1>1. sn \in A /\ sn # 0 /\ Q \in [A -> Seq(Asked \cup Answered)] /\ m \in Asked \cup Answered
  BY QueuesAre, QueuesHold
<1>2. Apart(Q) /\ ~Mentions(Q, m.slot)
  BY DEF Messages
<1>3. Q' = qt
  <2>1. DOMAIN inq = AuthServer
    BY DEF AuthState
  <2>2. ASSUME NEW a \in A PROVE Queue(a)' = qt[a]
    BY <1>1, <2>1 DEF Queue, Q, Queues
  <2>3. QED
    BY <1>1, <2>2 DEF Q
<1> HIDE DEF qt
<1>4. PostedTo(Q, m, qt)
  BY <1>1, <1>2, Posted DEF qt
<1>5. /\ Apart(qt) /\ \A j : Mentions(qt, j) <=> Mentions(Q, j) \/ j = m.slot
      /\ \A b \in A : \A k \in DOMAIN qt[b] : qt[b][k] = m \/ \E j \in DOMAIN Q[b] : Q[b][j] = qt[b][k]
  BY <1>1, <1>4 DEF PostedTo
<1>6. \A j \in Slot : req'[j].freed = 0 <=> Mentions(qt, j)
  BY <1>5 DEF Messages
<1>7. ASSUME NEW a \in A, NEW k \in DOMAIN qt[a] PROVE qt[a][k].s = req'[qt[a][k].slot].s
  <2>1. CASE qt[a][k] = m
    BY <2>1
  <2>2. ASSUME NEW j \in DOMAIN Q[a], Q[a][j] = qt[a][k] PROVE qt[a][k].s = req'[qt[a][k].slot].s
    <3>1. Q[a][j].s = req[Q[a][j].slot].s
      BY DEF Messages
    <3>2. Q[a][j].slot # i
      BY <1>1, <1>2 DEF Mentions
    <3>3. Q[a][j].slot \in Slot
      BY <1>1, ElementOfSeq DEF Asked, Answered
    <3>4. QED
      BY <2>2, <3>1, <3>2, <3>3
  <2>3. QED
    BY <1>5, <2>1, <2>2
<1>8. QED
  BY <1>3, <1>5, <1>6, <1>7 DEF Messages

(* The request of an answer that was taken is done with.                       *)
LEMMA MessagesTaken ==
  ASSUME AuthAssumption, AuthState, Messages, outq # <<>>, NEW i, i = Head(outq).slot,
         inq' = inq, outq' = Tail(outq),
         req'[i].freed = 1, \A j \in Slot : j # i => req'[j] = req[j]
  PROVE  Messages'
<1> DEFINE A == Queues
           qt == [Q EXCEPT ![0] = Tail(@)]
<1>1. 0 \in A /\ Q \in [A -> Seq(Asked \cup Answered)] /\ Q[0] = outq
  BY QueuesAre, QueuesHold
<1>2. Apart(Q)
  BY DEF Messages
<1>3. Q' = qt
  <2>1. ASSUME NEW a \in A PROVE Queue(a)' = qt[a]
    BY <1>1 DEF Queue, Q
  <2>2. QED
    BY <1>1, <2>1 DEF Q
<1>4. DOMAIN qt = A
  BY <1>1
<1> HIDE DEF qt
<1>5. TakenFrom(Q, i, qt)
  BY <1>1, <1>2, Taken DEF qt
<1>6. /\ Apart(qt) /\ ~Mentions(qt, i)
      /\ \A j : Mentions(Q, j) <=> Mentions(qt, j) \/ j = i
      /\ \A b \in A : \A k \in DOMAIN qt[b] : \E j \in DOMAIN Q[b] : Q[b][j] = qt[b][k]
  BY <1>5, <1>1 DEF TakenFrom
<1>7. \A j \in Slot : req'[j].freed = 0 <=> Mentions(qt, j)
  BY <1>6 DEF Messages
<1>8. ASSUME NEW a \in A, NEW k \in DOMAIN qt[a] PROVE qt[a][k].s = req'[qt[a][k].slot].s
  <2>1. PICK j \in DOMAIN Q[a] : Q[a][j] = qt[a][k]
    BY <1>6
  <2>2. Q[a][j].s = req[Q[a][j].slot].s
    BY DEF Messages
  <2>3. qt[a][k].slot # i
    BY <1>6, <1>4 DEF Mentions
  <2>4. Q[a][j].slot \in Slot
    BY <1>1, ElementOfSeq DEF Asked, Answered
  <2>5. QED
    BY <2>1, <2>2, <2>3, <2>4
<1>9. QED
  BY <1>3, <1>6, <1>7, <1>8 DEF Messages

(* A question becomes its answer.                                              *)
LEMMA MessagesMoved ==
  ASSUME AuthAssumption, AuthState, Messages, NEW a \in AuthServer, inq[a] # <<>>,
         NEW m \in Answered, m.slot = Head(inq[a]).slot, m.s = Head(inq[a]).s,
         inq' = [inq EXCEPT ![a] = Tail(@)], outq' = Append(outq, m), req' = req
  PROVE  Messages'
<1> DEFINE A == Queues
           M == Asked \cup Answered
           qs == [Q EXCEPT ![a] = Tail(@)]
           qt == [qs EXCEPT ![0] = Append(@, m)]
<1>1. 0 \in A /\ a \in A /\ a # 0 /\ Q \in [A -> Seq(M)] /\ Q[0] = outq /\ Q[a] = inq[a] /\ m \in M
  BY QueuesAre, QueuesHold
<1>2. Apart(Q)
  BY DEF Messages
<1>3. Q' = qt
  <2>1. DOMAIN inq = AuthServer
    BY DEF AuthState
  <2>2. ASSUME NEW b \in A PROVE Queue(b)' = qt[b]
    BY <1>1, <2>1 DEF Queue, Q, Queues
  <2>3. QED
    BY <1>1, <2>2 DEF Q
<1>4. qs \in [A -> Seq(M)]
  <2>1. Q[a] \in Seq(M) /\ Q[a] # <<>>
    BY <1>1
  <2>2. Tail(Q[a]) \in Seq(M)
    BY <2>1
  <2>3. QED
    BY <1>1, <2>2
<1> HIDE DEF qt, qs, M
<1>5. TakenFrom(Q, m.slot, qs)
  BY <1>1, <1>2, Taken DEF qs
<1>6. /\ Apart(qs) /\ ~Mentions(qs, m.slot)
      /\ \A j : Mentions(Q, j) <=> Mentions(qs, j) \/ j = m.slot
      /\ \A b \in A : \A k \in DOMAIN qs[b] : \E j \in DOMAIN Q[b] : Q[b][j] = qs[b][k]
  BY <1>5, <1>1 DEF TakenFrom
<1>7. PostedTo(qs, m, qt)
  BY <1>1, <1>6, <1>4, Posted DEF qt
<1>8. /\ Apart(qt) /\ \A j : Mentions(qt, j) <=> Mentions(qs, j) \/ j = m.slot
      /\ \A b \in A : \A k \in DOMAIN qt[b] : qt[b][k] = m \/ \E j \in DOMAIN qs[b] : qs[b][j] = qt[b][k]
  BY <1>7, <1>4 DEF PostedTo
<1>9. \A j \in Slot : req'[j].freed = 0 <=> Mentions(qt, j)
  BY <1>6, <1>8 DEF Messages
<1>10. ASSUME NEW b \in A, NEW k \in DOMAIN qt[b] PROVE qt[b][k].s = req'[qt[b][k].slot].s
  <2>1. 1 \in DOMAIN Q[a] /\ Head(inq[a]) = Q[a][1]
    BY <1>1
  <2>2. m.s = req[m.slot].s
    BY <1>1, <2>1 DEF Messages
  <2>3. \/ qt[b][k] = m \/ \E j \in DOMAIN Q[b] : Q[b][j] = qt[b][k]
    BY <1>6, <1>8
  <2>4. QED
    BY <2>2, <2>3 DEF Messages
<1>11. QED
  BY <1>3, <1>8, <1>9, <1>10 DEF Messages

-----------------------------------------------------------------------------
(* All of the invariant but the queue of answers, after a pass.                *)
PassDone ==
  /\ opt' \in Option /\ counter' \in 1..AuthServers
  /\ ss' \in Seq(SessionType) /\ Len(ss') =< MaxSession
  /\ req' \in [Slot -> Waiter]
  /\ inq' \in [AuthServer -> Seq(Asked)]
  /\ db' \in [User -> SUBSET Cred]
  /\ served' \in [last : SUBSET Carried, who : [1..MaxSession -> SUBSET User]]
  /\ \A s \in DOMAIN ss' : SessionOK(opt', ss'[s])
  /\ KeysProven' /\ ServedIsProven' /\ TokensInUse' /\ Waits' /\ OwnUser'

(* A pass keeps it.                                                            *)
LEMMA PassKeepsAll ==
  ASSUME AuthAssumption, AuthInv, NEW i \in Slot, NEW s, NEW x, NEW r, NEW can_resume \in BOOLEAN,
         TakenUp(s, x, r), read_client_connection(i, s, x, r, can_resume),
         opt' = opt, db' = db, granted' = granted
  PROVE  PassDone
<1> DEFINE v == handle_turn_command(x, r.q, can_resume).v
<1>1. AuthState /\ KeysProven /\ TokensInUse /\ Waits /\ OwnUser /\ \A t \in DOMAIN ss : SessionOK(opt, ss[t])
  BY DEF AuthInv, Proven
<1>2. Passed(s, x)
  BY <1>1, PassSession
<1>3. Turned(i, s, can_resume, v)
  BY <1>1, PassRequest
<1>4. Asks(i, s, v)
  BY <1>1, PassAsks
<1>5. Noted(s, ss'[s])
  BY <1>1, PassServed
<1> HIDE DEF v
<1>6. KeysProven' /\ OwnUser' /\ Waits'
  BY <1>1, <1>2, <1>3, <1>5, PassProven, PassOwnUser, PassWaits
<1>7. ServedIsProven'
  BY <1>5 DEF Noted, ServedIsProven
<1>8. \A t \in DOMAIN ss' : SessionOK(opt', ss'[t])
  BY <1>1, <1>2, PassKeeps DEF Passed
<1>9. inq' \in [AuthServer -> Seq(Asked)] /\ TokensInUse'
  <2>1. CASE v # "postponed"
    BY <2>1, <1>1, <1>4 DEF Asks, AuthState, TokensInUse
  <2>2. CASE v = "postponed"
    <3>1. PICK sn \in AuthServer, m \in Asked : (m.oauth => opt.oauth) /\ inq' = [inq EXCEPT ![sn] = Append(@, m)]
      BY <2>2, <1>4 DEF Asks
    <3>2. inq \in [AuthServer -> Seq(Asked)] /\ inq[sn] \in Seq(Asked)
      BY <1>1 DEF AuthState
    <3>3. Append(inq[sn], m) \in Seq(Asked)
      BY <3>2, AppendProperties
    <3>4. inq' \in [AuthServer -> Seq(Asked)]
      BY <3>1, <3>2, <3>3
    <3>5. ASSUME NEW a \in AuthServer, NEW k \in DOMAIN inq'[a] PROVE inq'[a][k].oauth => opt.oauth
      <4>1. CASE a # sn
        BY <4>1, <1>1, <3>1, <3>2 DEF TokensInUse
      <4>2. CASE a = sn
        <5>1. inq'[a] = Append(inq[sn], m)
          BY <4>2, <3>1, <3>2
        <5>2. inq'[a][k] = m \/ (k \in DOMAIN inq[sn] /\ inq'[a][k] = inq[sn][k])
          BY <5>1, <3>2, AppendProperties, LenProperties
        <5>3. QED
          BY <5>2, <1>1, <3>1 DEF TokensInUse
      <4>3. QED
        BY <4>1, <4>2
    <3>6. QED
      BY <3>4, <3>5 DEF TokensInUse
  <2>3. QED
    BY <2>1, <2>2
<1>10. QED
  BY <1>1, <1>2, <1>3, <1>4, <1>5, <1>6, <1>7, <1>8, <1>9 DEF PassDone, AuthState, Passed, Turned, Asks, Noted

(* A request arrives.                                                          *)
LEMMA ArrivesKeeps ==
  ASSUME AuthAssumption, AuthInv, NEW i \in Slot, NEW s \in DOMAIN ss, NEW q \in Request, Arrives(i, s, q)
  PROVE  AuthInv'
<1> DEFINE r == [req[i] EXCEPT !.s = s, !.q = q, !.answers = 0, !.freed = 0]
           v == handle_turn_command(ss[s], q, TRUE).v
<1>1. /\ ss[s].live /\ req[i].freed = 1 /\ q.nonce =< ss[s].nonce
      /\ read_client_connection(i, s, ss[s], r, TRUE)
      /\ opt' = opt /\ outq' = outq /\ db' = db /\ granted' = granted
  BY DEF Arrives
<1>2. AuthState /\ Proven /\ Messages /\ \A t \in DOMAIN ss : SessionOK(opt, ss[t])
  BY DEF AuthInv
<1>3. ss[s] \in SessionType /\ s \in 0..MaxSession
  BY <1>2, ElementOfSeq, LenProperties DEF AuthState, AuthAssumption
<1>4. r \in Waiter /\ r.s = s /\ r.answers = 0 /\ r.freed = 0 /\ r.q = q
  <2>1. req[i] \in Waiter
    BY <1>2 DEF AuthState
  <2>2. QED
    BY <2>1, <1>3 DEF Waiter
<1> HIDE DEF r
<1>5. TakenUp(s, ss[s], r)
  BY <1>1, <1>2, <1>3, <1>4 DEF TakenUp, Proven, KeysProven
<1>6. PassDone
  BY <1>1, <1>5, PassKeepsAll
<1>7. Turned(i, s, TRUE, v) /\ Asks(i, s, v)
  BY <1>1, <1>2, <1>4, <1>5, PassRequest, PassAsks
<1> HIDE DEF v
<1>8. Messages'
  <2>1. CASE v = "postponed"
    <3>1. PICK sn \in AuthServer, m \in Asked :
             m.slot = i /\ m.s = s /\ inq' = [inq EXCEPT ![sn] = Append(@, m)]
      BY <2>1, <1>7 DEF Asks
    <3>2. req'[i].freed = 0 /\ req'[i].s = s /\ \A j \in Slot : j # i => req'[j] = req[j]
      BY <2>1, <1>7 DEF Turned
    <3>3. QED
      BY <1>1, <1>2, <3>1, <3>2, MessagesPosted
  <2>2. CASE v # "postponed"
    <3>1. inq' = inq /\ outq' = outq /\ req'[i].freed = 1 /\ \A j \in Slot : j # i => req'[j] = req[j]
      BY <2>2, <1>1, <1>7 DEF Turned, Asks
    <3>2. Q' = Q
      BY <3>1 DEF Q, Queue
    <3>3. \A j \in Slot : req'[j].freed = req[j].freed
      BY <1>1, <3>1
    <3>4. ~Mentions(Q, i)
      BY <1>1, <1>2 DEF Messages
    <3>5. ASSUME NEW a \in Queues, NEW k \in DOMAIN Q[a] PROVE Q[a][k].s = req'[Q[a][k].slot].s
      <4>1. Q[a][k].slot # i
        BY <3>4, QueuesAre DEF Mentions
      <4>2. Q[a][k].slot \in Slot
        BY <1>2, QueuesHold, ElementOfSeq DEF Asked, Answered
      <4>3. QED
        BY <1>2, <3>1, <4>1, <4>2 DEF Messages
    <3>6. QED
      BY <1>2, <3>2, <3>3, <3>5 DEF Messages
  <2>3. QED
    BY <2>1, <2>2
<1>9. AnswersProven'
  BY <1>1, <1>2 DEF Proven, AnswersProven
<1>10. QED
  BY <1>1, <1>2, <1>6, <1>8, <1>9 DEF AuthInv, AuthState, PassDone, Proven

(* The first message of a queue is about a request that waits, and names its   *)
(* session.                                                                    *)
LEMMA FirstMessage ==
  ASSUME AuthAssumption, AuthInv, NEW a \in Queues, Q[a] # <<>>
  PROVE  /\ Head(Q[a]) = Q[a][1] /\ 1 \in DOMAIN Q[a] /\ Head(Q[a]).slot \in Slot
         /\ req[Head(Q[a]).slot].freed = 0 /\ req[Head(Q[a]).slot].s = Head(Q[a]).s
         /\ Head(Q[a]).s \in DOMAIN ss
         /\ WaitsFor(req[Head(Q[a]).slot], ss[Head(Q[a]).s])
<1>1. AuthState /\ Messages /\ Waits
  BY DEF AuthInv
<1>2. Q \in [Queues -> Seq(Asked \cup Answered)] /\ Q[a] \in Seq(Asked \cup Answered)
  BY <1>1, QueuesHold
<1>3. Head(Q[a]) = Q[a][1] /\ 1 \in DOMAIN Q[a]
  BY <1>2
<1> DEFINE m == Q[a][1]
<1>4. m \in Asked \cup Answered
  BY <1>2, <1>3, ElementOfSeq
<1>5. m.slot \in Slot /\ m.s \in 1..MaxSession
  BY <1>4 DEF Asked, Answered
<1>6. req[m.slot].freed = 0 /\ req[m.slot].s = m.s
  <2>1. Mentions(Q, m.slot)
    BY <1>2, <1>3 DEF Mentions
  <2>2. QED
    BY <1>1, <1>3, <1>5, <2>1 DEF Messages
<1>7. WaitsFor(req[m.slot], ss[m.s]) /\ m.s =< Len(ss)
  BY <1>1, <1>5, <1>6 DEF Waits
<1>8. m.s \in DOMAIN ss
  BY <1>1, <1>5, <1>7, LenProperties DEF AuthState, AuthAssumption
<1>9. QED
  BY <1>3, <1>5, <1>6, <1>7, <1>8

(* An authentication thread answers a question.                                *)
LEMMA ReceiveKeeps ==
  ASSUME AuthAssumption, AuthInv, NEW a \in AuthServer, auth_server_receive_message(a)
  PROVE  AuthInv'
<1> DEFINE am == Head(inq[a])
           q == req[am.slot].q
           f == get_user_key(am.oauth, q, am.realm)
           m == [slot |-> am.slot, s |-> am.s, found |-> f]
<1>1. /\ inq[a] # <<>> /\ outq' = Append(outq, m) /\ inq' = [inq EXCEPT ![a] = Tail(@)]
      /\ granted' = IF f.success THEN granted \cup {[s |-> am.s, key |-> f.key]} ELSE granted
      /\ opt' = opt /\ ss' = ss /\ req' = req /\ counter' = counter /\ db' = db /\ served' = served
  BY DEF auth_server_receive_message
<1>2. AuthState /\ Proven /\ Messages /\ Waits /\ OwnUser /\ \A t \in DOMAIN ss : SessionOK(opt, ss[t])
  BY DEF AuthInv
<1>3. a \in Queues /\ Q[a] = inq[a]
  BY QueuesAre
<1>4. /\ am = inq[a][1] /\ 1 \in DOMAIN inq[a] /\ am.slot \in Slot
      /\ am.s \in DOMAIN ss /\ WaitsFor(req[am.slot], ss[am.s])
  <2>1. Q[a] # <<>>
    BY <1>1, <1>3
  <2>2. QED
    BY <1>3, <2>1, FirstMessage
<1>5. am \in Asked /\ (am.oauth => opt.oauth)
  <2>1. inq[a] \in Seq(Asked)
    BY <1>2 DEF AuthState
  <2>2. QED
    BY <1>2, <1>4, <2>1, ElementOfSeq DEF Proven, TokensInUse
<1>6. f \in Found /\ (f.oauth => opt.oauth)
  <2>1. opt \in Option /\ db \in [User -> SUBSET Cred] /\ req[am.slot] \in Waiter
    BY <1>2, <1>4 DEF AuthState
  <2>2. q \in Request /\ q.user \in User /\ q.realm \in Realm /\ q.cred \in Cred
    BY <1>4, <2>1 DEF WaitsFor, Waiter
  <2>3. am.oauth \in BOOLEAN /\ am.realm \in Realm
    BY <1>5 DEF Asked
  <2> HIDE DEF am, q
  <2>4. QED
    BY <1>5, <2>1, <2>2, <2>3, FindingRight
<1>7. m \in Answered /\ m.slot = am.slot /\ m.s = am.s /\ m.found = f
  <2>1. am.s \in 1..MaxSession /\ am.slot \in Slot
    BY <1>5 DEF Asked
  <2> HIDE DEF f, am
  <2>2. QED
    BY <1>6, <2>1 DEF Answered
<1> HIDE DEF f, am
<1> HIDE DEF m
<1>8. Messages'
  BY <1>1, <1>2, <1>7, MessagesMoved DEF am
<1>9. granted \subseteq granted' /\ (f.success => [s |-> m.s, key |-> m.found.key] \in granted')
  BY <1>1, <1>7
<1>10. outq \in Seq(Answered) /\ inq \in [AuthServer -> Seq(Asked)]
  BY <1>2 DEF AuthState
<1>11. outq' \in Seq(Answered) /\ AnswersProven'
  <2>1. outq' \in Seq(Answered) /\ \A k \in DOMAIN outq' : outq'[k] = m \/ (k \in DOMAIN outq /\ outq'[k] = outq[k])
    BY <1>1, <1>7, <1>10, AppendProperties, LenProperties
  <2>2. ASSUME NEW k \in DOMAIN outq', outq'[k].found.success
        PROVE  [s |-> outq'[k].s, key |-> outq'[k].found.key] \in granted' /\ (outq'[k].found.oauth => opt.oauth)
    <3>1. CASE outq'[k] = m
      BY <3>1, <2>2, <1>6, <1>7, <1>9
    <3>2. CASE k \in DOMAIN outq /\ outq'[k] = outq[k]
      BY <3>2, <2>2, <1>2, <1>9 DEF Proven, AnswersProven
    <3>3. QED
      BY <2>1, <3>1, <3>2
  <2>3. QED
    BY <1>1, <2>1, <2>2 DEF AnswersProven
<1>12. inq' \in [AuthServer -> Seq(Asked)] /\ TokensInUse'
  <2>1. inq[a] \in Seq(Asked) /\ inq[a] # <<>>
    BY <1>1, <1>10
  <2>2. Tail(inq[a]) \in Seq(Asked) /\ \A k \in DOMAIN Tail(inq[a]) : k + 1 \in DOMAIN inq[a] /\ Tail(inq[a])[k] = inq[a][k + 1]
    BY <2>1
  <2>3. inq' \in [AuthServer -> Seq(Asked)] /\ inq'[a] = Tail(inq[a]) /\ \A b \in AuthServer : b # a => inq'[b] = inq[b]
    BY <1>1, <1>10, <2>2
  <2>4. ASSUME NEW b \in AuthServer, NEW k \in DOMAIN inq'[b] PROVE inq'[b][k].oauth => opt.oauth
    <3>1. CASE b = a
      BY <3>1, <1>2, <2>2, <2>3 DEF Proven, TokensInUse
    <3>2. CASE b # a
      BY <3>2, <1>2, <2>3 DEF Proven, TokensInUse
    <3>3. QED
      BY <3>1, <3>2
  <2>5. QED
    BY <1>1, <2>3, <2>4 DEF TokensInUse
<1>13. KeysProven' /\ ServedIsProven'
  BY <1>1, <1>2, <1>9 DEF Proven, KeysProven, ServedIsProven
<1>14. Waits' /\ OwnUser'
  BY <1>1, <1>2 DEF Waits, WaitsFor, OwnUser
<1>15. AuthState'
  BY <1>1, <1>2, <1>11, <1>12 DEF AuthState
<1>16. QED
  BY <1>1, <1>2, <1>8, <1>11, <1>12, <1>13, <1>14, <1>15 DEF AuthInv, Proven

(* The answers that are left when the first was taken.                         *)
LEMMA AnswersLeft ==
  ASSUME outq \in Seq(Answered), outq # <<>>, outq' = Tail(outq), AnswersProven, opt' = opt, granted' = granted
  PROVE  outq' \in Seq(Answered) /\ AnswersProven'
<1>1. outq' \in Seq(Answered) /\ \A k \in DOMAIN outq' : k + 1 \in DOMAIN outq /\ outq'[k] = outq[k + 1]
  OBVIOUS
<1>2. QED
  BY <1>1 DEF AnswersProven

(* A request whose answer has come is taken up again, or its buffer is freed.  *)
LEMMA AnswerKeeps ==
  ASSUME AuthAssumption, AuthInv, handle_relay_auth_message
  PROVE  AuthInv'
<1> DEFINE am == Head(outq)
           i == am.slot
           s == am.s
<1>1. /\ outq # <<>> /\ outq' = Tail(outq)
      /\ opt' = opt /\ db' = db /\ granted' = granted
  BY DEF handle_relay_auth_message
<1>2. AuthState /\ Proven /\ Messages /\ Waits /\ OwnUser /\ \A t \in DOMAIN ss : SessionOK(opt, ss[t])
  BY DEF AuthInv
<1>3. 0 \in Queues /\ Q[0] = outq
  BY QueuesAre
<1>4. /\ am = outq[1] /\ 1 \in DOMAIN outq /\ i \in Slot /\ req[i].freed = 0 /\ req[i].s = s
      /\ s \in DOMAIN ss /\ WaitsFor(req[i], ss[s])
  <2>1. Q[0] # <<>>
    BY <1>1, <1>3
  <2>2. QED
    BY <1>3, <2>1, FirstMessage
<1>5. am \in Answered /\ req[i] \in Waiter /\ ss[s] \in SessionType
  BY <1>2, <1>4, ElementOfSeq DEF AuthState
<1>6. outq' \in Seq(Answered) /\ AnswersProven'
  BY <1>1, <1>2, AnswersLeft DEF AuthState, Proven
<1>7. CASE ss[s].live /\ resume_processing_after_username_check(am)
  <2> DEFINE f == am.found
             x == TakeKey(ss[s], f)
             v == handle_turn_command(x, req[i].q, FALSE).v
  <2>1. read_client_connection(i, s, x, req[i], FALSE)
    BY <1>7 DEF resume_processing_after_username_check
  <2>2. f \in Found /\ (f.success => [s |-> s, key |-> f.key] \in granted /\ (f.oauth => opt.oauth))
    BY <1>2, <1>4, <1>5 DEF Answered, Proven, AnswersProven
  <2> HIDE DEF f
  <2>3. Took(opt, ss[s], f, x)
    BY <1>2, <1>4, <1>5, <2>2, KeyTaken
  <2> HIDE DEF x, s, i, am
  <2>4. x.hmackey # NoKey => [s |-> s, key |-> x.hmackey] \in granted
    BY <1>2, <1>4, <2>2, <2>3 DEF Took, Proven, KeysProven
  <2>5. TakenUp(s, x, req[i])
    BY <1>4, <1>5, <1>7, <2>3, <2>4 DEF TakenUp, Took, WaitsFor
  <2>6. PassDone
    BY <1>1, <1>4, <2>1, <2>5, PassKeepsAll
  <2>7. Turned(i, s, FALSE, v) /\ Asks(i, s, v)
    BY <1>2, <1>4, <2>1, <2>5, PassRequest, PassAsks
  <2> HIDE DEF v
  <2>8. inq' = inq /\ req'[i].freed = 1 /\ \A j \in Slot : j # i => req'[j] = req[j]
    BY <2>7 DEF Turned, Asks
  <2>9. Messages'
    BY <1>1, <1>2, <2>8, MessagesTaken DEF i, am
  <2>10. QED
    BY <1>1, <1>2, <1>6, <2>6, <2>9 DEF AuthInv, AuthState, PassDone, Proven
<1>8. CASE ~ss[s].live /\ req' = [req EXCEPT ![i] = Done(@, 0)] /\ UNCHANGED <<ss, inq, counter, served>>
  <2> DEFINE r == Done(req[i], 0)
  <2> HIDE DEF s, i, am
  <2>1. req[i].s = s /\ req[i].answers = 0 /\ req[i].freed = 0 /\ s # 0 /\ s \in 0..MaxSession
    BY <1>4, <1>5 DEF WaitsFor, Waiter
  <2>2. r = [s |-> s, q |-> NoRequest, answers |-> 0, freed |-> 1]
    <3>1. req[i].answers + 0 = 0 /\ req[i].freed + 1 = 1
      BY <2>1
    <3>2. r = [Idle EXCEPT !.s = s, !.answers = 0, !.freed = 1]
      BY <2>1, <3>1, Zenon DEF Done
    <3>3. QED
      BY <3>2 DEF Idle
  <2>3. NoRequest \in Request
    BY DEF NoRequest, Request, Method, AuthAssumption
  <2>4. r \in Waiter /\ r.s = s /\ r.answers = 0 /\ r.freed = 1
    BY <2>1, <2>2, <2>3 DEF Waiter
  <2> HIDE DEF r
  <2>5. req' \in [Slot -> Waiter] /\ req'[i] = r /\ \A j \in Slot : j # i => req'[j] = req[j]
    BY <1>2, <1>4, <1>8, <2>4 DEF AuthState, r
  <2>6. ss' = ss /\ inq' = inq /\ counter' = counter /\ served' = served
    BY <1>8
  <2>7. Messages'
    BY <1>1, <1>2, <2>4, <2>5, <2>6, MessagesTaken DEF i, am
  <2>8. Waits'
    <3> SUFFICES ASSUME NEW j \in Slot
                 PROVE  /\ req'[j].s =< Len(ss)
                        /\ req'[j].freed = 0 => WaitsFor(req'[j], ss[req'[j].s])
                        /\ req'[j].freed = 1 /\ req'[j].answers = 0 => req'[j].s = 0 \/ ~ss[req'[j].s].live
      BY <2>6 DEF Waits, WaitsFor
    <3>1. CASE j = i
      <4>1. s =< Len(ss)
        BY <1>2, <1>4 DEF Waits
      <4>2. QED
        BY <3>1, <4>1, <1>8, <2>4, <2>5
    <3>2. CASE j # i
      BY <3>2, <1>2, <2>5 DEF Waits
    <3>3. QED
      BY <3>1, <3>2
  <2>9. OwnUser' /\ KeysProven' /\ ServedIsProven' /\ TokensInUse'
    BY <1>1, <1>2, <2>6 DEF OwnUser, Proven, KeysProven, ServedIsProven, TokensInUse
  <2>10. AuthState'
    BY <1>1, <1>2, <1>6, <2>5, <2>6 DEF AuthState
  <2>11. QED
    BY <1>1, <1>2, <1>6, <2>6, <2>7, <2>8, <2>9, <2>10 DEF AuthInv, Proven
<1>9. QED
  BY <1>7, <1>8 DEF handle_relay_auth_message

-----------------------------------------------------------------------------
(* A step of the environment: the requests and the queues stay, and a session  *)
(* that lives is one that lived, with its user, its nonce and no other key, or *)
(* is new.                                                                     *)
Around ==
  /\ opt' = opt /\ req' = req /\ inq' = inq /\ outq' = outq /\ counter' = counter
  /\ served' = served /\ granted' = granted
  /\ db' \in [User -> SUBSET Cred]
  /\ ss' \in Seq(SessionType) /\ Len(ss) =< Len(ss') /\ Len(ss') =< MaxSession
  /\ \A t \in 1..Len(ss') : SessionOK(opt, ss'[t])
  /\ \A t \in 1..Len(ss) :
       /\ ss'[t].hmackey \in {NoKey, ss[t].hmackey}
       /\ ss'[t].live => ss[t].live /\ ss'[t].nonce = ss[t].nonce /\ ss'[t].user = ss[t].user
  /\ \A t \in 1..Len(ss') : t > Len(ss) => ss'[t].hmackey = NoKey

(* Such a step keeps the invariant.                                            *)
LEMMA AroundKeeps ==
  ASSUME AuthAssumption, AuthInv, Around
  PROVE  AuthInv'
<1>1. AuthState /\ Proven /\ Messages /\ Waits /\ OwnUser
  BY DEF AuthInv
<1>2. /\ DOMAIN ss = 1..Len(ss) /\ DOMAIN ss' = 1..Len(ss') /\ Len(ss) \in Nat /\ Len(ss') \in Nat
      /\ Len(ss) =< Len(ss')
  BY <1>1, LenProperties DEF AuthState, Around
<1>3. AuthState' /\ \A t \in DOMAIN ss' : SessionOK(opt', ss'[t])
  BY <1>1, <1>2 DEF AuthState, Around
<1>4. Messages'
  <2>1. Q' = Q
    BY DEF Q, Queue, Around
  <2>2. QED
    BY <1>1, <2>1 DEF Messages, Around
<1>5. AnswersProven' /\ ServedIsProven' /\ TokensInUse'
  BY <1>1 DEF Around, Proven, AnswersProven, ServedIsProven, TokensInUse
<1>6. KeysProven'
  <2> SUFFICES ASSUME NEW t \in 1..Len(ss'), ss'[t].hmackey # NoKey
               PROVE  [s |-> t, key |-> ss'[t].hmackey] \in granted
    BY <1>2 DEF KeysProven, Around
  <2>1. t \in 1..Len(ss)
    BY <1>2 DEF Around
  <2>2. QED
    BY <1>1, <1>2, <2>1 DEF Around, Proven, KeysProven
<1>7. Waits'
  <2> SUFFICES ASSUME NEW j \in Slot
               PROVE  /\ req[j].s =< Len(ss')
                      /\ req[j].freed = 0 => WaitsFor(req[j], ss'[req[j].s])
                      /\ req[j].freed = 1 /\ req[j].answers = 0 => req[j].s = 0 \/ ~ss'[req[j].s].live
    BY DEF Waits, WaitsFor, Around
  <2>1. req[j].s =< Len(ss) /\ req[j].s \in Nat
    BY <1>1 DEF Waits, AuthState, Waiter, AuthAssumption
  <2>2. req[j].s # 0 => req[j].s \in 1..Len(ss)
    BY <1>2, <2>1
  <2>3. ASSUME req[j].freed = 0 PROVE WaitsFor(req[j], ss'[req[j].s])
    BY <2>2, <2>3, <1>1 DEF Waits, WaitsFor, Around
  <2>4. ASSUME req[j].freed = 1, req[j].answers = 0 PROVE req[j].s = 0 \/ ~ss'[req[j].s].live
    BY <2>2, <2>4, <1>1 DEF Waits, Around
  <2>5. QED
    BY <1>2, <2>1, <2>3, <2>4
<1>8. OwnUser'
  <2> SUFFICES ASSUME NEW t \in 1..MaxSession
               PROVE  /\ t > Len(ss') => served.who[t] = {}
                      /\ ~opt.oauth => \E u \in User \cup {NoUser} : served.who[t] \subseteq {u}
                      /\ ~opt.oauth /\ t =< Len(ss') /\ ss'[t].live => served.who[t] \subseteq {ss'[t].user}
    BY DEF OwnUser, Around
  <2>1. t > Len(ss) => served.who[t] = {}
    BY <1>1 DEF OwnUser
  <2>2. ~opt.oauth => \E u \in User \cup {NoUser} : served.who[t] \subseteq {u}
    BY <1>1 DEF OwnUser
  <2>3. ASSUME ~opt.oauth, t =< Len(ss'), ss'[t].live PROVE served.who[t] \subseteq {ss'[t].user}
    <3>1. CASE t =< Len(ss)
      <4>1. t \in 1..Len(ss)
        BY <3>1, <1>2 DEF AuthAssumption
      <4>2. QED
        BY <2>3, <3>1, <4>1, <1>1 DEF OwnUser, Around
    <3>2. CASE ~(t =< Len(ss))
      BY <3>2, <2>1, <1>2 DEF AuthAssumption
    <3>3. QED
      BY <3>1, <3>2
  <2>4. t > Len(ss') => t > Len(ss)
    BY <1>2 DEF AuthAssumption
  <2>5. QED
    BY <2>1, <2>2, <2>3, <2>4
<1>9. QED
  BY <1>3, <1>4, <1>5, <1>6, <1>7, <1>8 DEF AuthInv, Proven

(* A new session, and one that has ended, are sessions without a key.          *)
LEMMA NewIsRight ==
  ASSUME AuthAssumption, NEW o
  PROVE  /\ NewSession \in SessionType /\ SessionOK(o, NewSession) /\ NewSession.hmackey = NoKey
         /\ LET x == [NewSession EXCEPT !.live = FALSE]
            IN  x \in SessionType /\ SessionOK(o, x) /\ x.hmackey = NoKey /\ x.live = FALSE
<1>1. NoKey \in [user : User \cup {NoUser}, realm : Realm \cup {NoRealm}, cred : Cred \cup {0}]
  BY DEF NoKey
<1>2. 0 \in 0..MaxNonce /\ DefaultRealm \in Realm
  BY DEF AuthAssumption
<1>3. NewSession \in SessionType
  BY <1>1, <1>2 DEF NewSession, SessionType
<1>4. NewSession.hmackey = NoKey /\ NewSession.expired = FALSE /\ NewSession.oauth = FALSE /\ NewSession.counted = NoRealm
  BY DEF NewSession
<1> DEFINE x == [NewSession EXCEPT !.live = FALSE]
<1>5. /\ x \in SessionType /\ x.live = FALSE
      /\ x.hmackey = NoKey /\ x.expired = FALSE /\ x.oauth = FALSE /\ x.counted = NoRealm
  BY <1>3, <1>4 DEF SessionType
<1> HIDE DEF x
<1>6. SessionOK(o, x) /\ SessionOK(o, NewSession)
  BY <1>4, <1>5 DEF SessionOK
<1>7. QED
  BY <1>3, <1>4, <1>5, <1>6 DEF x

(* A session of the environment's choice is put for one that there was.        *)
LEMMA ReplacedIsAround ==
  ASSUME AuthAssumption, AuthInv, NEW s \in DOMAIN ss, NEW y \in SessionType, SessionOK(opt, y),
         y.hmackey \in {NoKey, ss[s].hmackey},
         y.live => ss[s].live /\ y.nonce = ss[s].nonce /\ y.user = ss[s].user,
         ss' = [ss EXCEPT ![s] = y],
         UNCHANGED <<opt, req, inq, outq, counter, db, changes, served, granted>>
  PROVE  Around
<1>1. AuthState /\ \A t \in DOMAIN ss : SessionOK(opt, ss[t])
  BY DEF AuthInv
<1>2. ss \in Seq(SessionType) /\ Len(ss) =< MaxSession /\ DOMAIN ss = 1..Len(ss) /\ Len(ss) \in Nat
  BY <1>1, LenProperties DEF AuthState
<1>3. ss' \in Seq(SessionType) /\ Len(ss') = Len(ss) /\ ss'[s] = y /\ \A t \in DOMAIN ss : t # s => ss'[t] = ss[t]
  BY <1>2, ExceptSeq
<1>4. ASSUME NEW t \in 1..Len(ss)
      PROVE  /\ SessionOK(opt, ss'[t]) /\ ss'[t].hmackey \in {NoKey, ss[t].hmackey}
             /\ ss'[t].live => ss[t].live /\ ss'[t].nonce = ss[t].nonce /\ ss'[t].user = ss[t].user
  <2>1. CASE t = s
    BY <2>1, <1>3
  <2>2. CASE t # s
    BY <2>2, <1>1, <1>2, <1>3
  <2>3. QED
    BY <2>1, <2>2
<1>5. QED
  BY <1>1, <1>2, <1>3, <1>4 DEF Around, AuthState

(* The steps of clients, of time and of administrators are such steps.         *)
LEMMA EnvironmentIsAround ==
  ASSUME AuthAssumption, AuthInv,
         \/ OpenSession
         \/ \E s \in DOMAIN ss : CloseSession(s) \/ NonceExpires(s)
         \/ \E u \in User, cs \in {{}} \cup {{c} : c \in opt.creds} : ChangeCred(u, cs)
  PROVE  Around
<1>1. AuthState /\ \A t \in DOMAIN ss : SessionOK(opt, ss[t])
  BY DEF AuthInv
<1>2. /\ ss \in Seq(SessionType) /\ Len(ss) =< MaxSession /\ DOMAIN ss = 1..Len(ss) /\ Len(ss) \in Nat
      /\ \A t \in DOMAIN ss : ss[t] \in SessionType
  BY <1>1, LenProperties, ElementOfSeq DEF AuthState
<1>3. CASE OpenSession
  <2>1. Len(ss) < MaxSession /\ ss' = Append(ss, NewSession)
        /\ UNCHANGED <<opt, req, inq, outq, counter, db, changes, served, granted>>
    BY <1>3 DEF OpenSession
  <2>2. NewSession \in SessionType /\ SessionOK(opt, NewSession) /\ NewSession.hmackey = NoKey
    BY NewIsRight
  <2>3. ss' \in Seq(SessionType) /\ Len(ss') = Len(ss) + 1 /\ ss'[Len(ss) + 1] = NewSession
        /\ \A t \in 1..Len(ss) : ss'[t] = ss[t]
    BY <1>2, <2>1, <2>2, AppendProperties
  <2>4. Len(ss') =< MaxSession /\ Len(ss) =< Len(ss')
        /\ \A t \in 1..Len(ss') : t \in 1..Len(ss) \/ t = Len(ss) + 1
    BY <1>2, <2>1, <2>3 DEF AuthAssumption
  <2>5. \A t \in 1..Len(ss) : ~(t > Len(ss))
    BY <1>2
  <2>6. QED
    BY <1>1, <1>2, <2>1, <2>2, <2>3, <2>4, <2>5 DEF Around, AuthState
<1>4. ASSUME NEW s \in DOMAIN ss, CloseSession(s) PROVE Around
  <2>1. ss' = [ss EXCEPT ![s] = [NewSession EXCEPT !.live = FALSE]]
        /\ UNCHANGED <<opt, req, inq, outq, counter, db, changes, served, granted>>
    BY <1>4 DEF CloseSession
  <2>2. PICK y : y = [NewSession EXCEPT !.live = FALSE]
    OBVIOUS
  <2>3. y \in SessionType /\ SessionOK(opt, y) /\ y.hmackey = NoKey /\ y.live = FALSE
    BY <2>2, NewIsRight
  <2>4. QED
    BY <2>1, <2>2, <2>3, ReplacedIsAround
<1>5. ASSUME NEW s \in DOMAIN ss, NonceExpires(s) PROVE Around
  <2> DEFINE y == [ss[s] EXCEPT !.expired = TRUE]
  <2>1. ss[s].nonce \in 1..(MaxNonce - 1) /\ ss' = [ss EXCEPT ![s] = y]
        /\ UNCHANGED <<opt, req, inq, outq, counter, db, changes, served, granted>>
    BY <1>2, <1>5 DEF NonceExpires
  <2>2. y \in SessionType
    BY <1>2 DEF SessionType
  <2>3. /\ y.live = ss[s].live /\ y.nonce = ss[s].nonce /\ y.user = ss[s].user /\ y.hmackey = ss[s].hmackey
        /\ y.oauth = ss[s].oauth /\ y.counted = ss[s].counted /\ y.realm = ss[s].realm
        /\ y.origin_set = ss[s].origin_set
    BY <1>2 DEF SessionType
  <2> HIDE DEF y
  <2>4. y.nonce < MaxNonce
    BY <2>1, <2>3 DEF AuthAssumption
  <2>5. SessionOK(opt, y)
    BY <1>1, <2>3, <2>4 DEF SessionOK
  <2>6. QED
    BY <2>1, <2>2, <2>3, <2>5, ReplacedIsAround
<1>6. ASSUME NEW u \in User, NEW cs \in {{}} \cup {{c} : c \in opt.creds}, ChangeCred(u, cs) PROVE Around
  <2>1. db' = [db EXCEPT ![u] = cs] /\ UNCHANGED <<opt, ss, req, inq, outq, counter, served, granted>>
    BY <1>6 DEF ChangeCred
  <2>2. cs \subseteq Cred
    BY <1>1 DEF AuthState, Option
  <2>3. db' \in [User -> SUBSET Cred]
    BY <1>1, <2>1, <2>2 DEF AuthState
  <2>4. \A t \in 1..Len(ss) : ~(t > Len(ss))
    BY <1>2
  <2>5. Len(ss) =< Len(ss)
    BY <1>2
  <2>6. QED
    BY <1>1, <1>2, <2>1, <2>3, <2>4, <2>5 DEF Around
<1>7. QED
  BY <1>3, <1>4, <1>5, <1>6

(* The invariant holds when the server starts.                                 *)
LEMMA AuthInvInit ==
  ASSUME AuthAssumption, AuthInit
  PROVE  AuthInv
<1>1. opt \in Option /\ opt.creds \in SUBSET Cred /\ opt.creds # {}
  <2>1. opt \in Option
    BY DEF AuthInit, AuthAssumption
  <2>2. QED
    BY <2>1 DEF Option
<1>2. ss = <<>> /\ req = [i \in Slot |-> Idle] /\ inq = [a \in AuthServer |-> <<>>] /\ outq = <<>> /\ counter = 1
      /\ served = [last |-> {}, who |-> [s \in 1..MaxSession |-> {}]]
      /\ db = [u \in User |-> {CHOOSE c \in opt.creds : TRUE}]
  BY DEF AuthInit
<1>3. Len(ss) = 0 /\ DOMAIN ss = {} /\ DOMAIN outq = {} /\ ss \in Seq(SessionType) /\ outq \in Seq(Answered)
  BY <1>2
<1>4. NoRequest \in Request
  BY DEF NoRequest, Request, Method, AuthAssumption
<1>5. Idle \in Waiter /\ Idle.s = 0 /\ Idle.freed = 1
  BY <1>4 DEF Idle, Waiter, AuthAssumption
<1>6. db \in [User -> SUBSET Cred]
  <2> DEFINE c0 == CHOOSE c \in opt.creds : TRUE
  <2>1. c0 \in opt.creds
    BY <1>1
  <2> HIDE DEF c0
  <2>2. db = [u \in User |-> {c0}]
    BY <1>2 DEF c0
  <2>3. QED
    BY <1>1, <2>1, <2>2
<1>7. AuthState
  <2>1. inq \in [AuthServer -> Seq(Asked)]
    BY <1>2
  <2>2. req \in [Slot -> Waiter]
    BY <1>2, <1>5
  <2>3. served \in [last : SUBSET Carried, who : [1..MaxSession -> SUBSET User]]
    BY <1>2
  <2>4. counter \in 1..AuthServers /\ Len(ss) =< MaxSession
    BY <1>2, <1>3 DEF AuthAssumption
  <2>5. QED
    BY <1>1, <1>3, <1>6, <2>1, <2>2, <2>3, <2>4 DEF AuthState
<1>8. Proven
  BY <1>2, <1>3 DEF Proven, KeysProven, AnswersProven, ServedIsProven, TokensInUse
<1>9. Waits
  BY <1>2, <1>3, <1>5 DEF Waits
<1>10. Messages
  <2>1. \A a \in Queues : Q[a] = <<>> /\ DOMAIN Q[a] = {}
    BY <1>2 DEF Q, Queue, Queues
  <2>2. DOMAIN Q = Queues
    BY DEF Q
  <2>3. QED
    BY <1>2, <1>5, <2>1, <2>2 DEF Messages, Apart, Mentions
<1>11. OwnUser
  BY <1>2, <1>3 DEF OwnUser, AuthAssumption
<1>12. QED
  BY <1>3, <1>7, <1>8, <1>9, <1>10, <1>11 DEF AuthInv

(* Every step keeps it.                                                        *)
LEMMA AuthInvNext ==
  ASSUME AuthAssumption, AuthInv, [AuthNext]_authVars
  PROVE  AuthInv'
<1>1. CASE UNCHANGED authVars
  <2>1. Around
    <3>1. AuthState /\ \A t \in DOMAIN ss : SessionOK(opt, ss[t])
      BY DEF AuthInv
    <3>2. DOMAIN ss = 1..Len(ss) /\ Len(ss) \in Nat
      BY <3>1, LenProperties DEF AuthState
    <3>3. Len(ss) =< Len(ss) /\ \A t \in 1..Len(ss) : ~(t > Len(ss))
      BY <3>2
    <3>4. QED
      BY <1>1, <3>1, <3>2, <3>3 DEF Around, AuthState, authVars
  <2>2. QED
    BY <2>1, AroundKeeps
<1>2. ASSUME NEW i \in Slot, NEW s \in DOMAIN ss, NEW q \in {q \in Request : Meaningful(q)}, Arrives(i, s, q)
      PROVE  AuthInv'
  BY <1>2, ArrivesKeeps
<1>3. ASSUME NEW a \in AuthServer, auth_server_receive_message(a) PROVE AuthInv'
  BY <1>3, ReceiveKeeps
<1>4. CASE handle_relay_auth_message
  BY <1>4, AnswerKeeps
<1>5. CASE \/ OpenSession
           \/ \E s \in DOMAIN ss : CloseSession(s) \/ NonceExpires(s)
           \/ \E u \in User, cs \in {{}} \cup {{c} : c \in opt.creds} : ChangeCred(u, cs)
  BY <1>5, EnvironmentIsAround, AroundKeeps
<1>6. QED
  BY <1>1, <1>2, <1>3, <1>4, <1>5 DEF AuthNext

(* And it says that what is served is proven.                                  *)
LEMMA AuthInvSays ==
  ASSUME AuthAssumption, AuthInv
  PROVE  ServedAsProven
<1>1. AuthState /\ Proven /\ Messages /\ Waits /\ OwnUser /\ \A t \in DOMAIN ss : SessionOK(opt, ss[t])
  BY DEF AuthInv
<1>2. DOMAIN ss = 1..Len(ss) /\ Len(ss) \in Nat /\ \A t \in DOMAIN ss : ss[t] \in SessionType
  BY <1>1, LenProperties, ElementOfSeq DEF AuthState
<1>3. AuthTypeOK
  <2>1. ASSUME NEW i \in Slot PROVE req[i].q \in Request /\ req[i].s \in 0..Len(ss)
    <3>1. req[i] \in Waiter /\ req[i].s =< Len(ss)
      BY <1>1 DEF AuthState, Waits
    <3>2. req[i].s \in Nat /\ req[i].q \in Request
      BY <3>1 DEF Waiter, AuthAssumption
    <3>3. QED
      BY <1>2, <3>1, <3>2
  <2>2. QED
    BY <1>1, <1>2, <2>1 DEF AuthTypeOK, AuthState
<1>4. OneUserServed
  <2> SUFFICES ASSUME ~opt.oauth, NEW s \in 1..MaxSession PROVE Cardinality(served.who[s]) =< 1
    BY DEF OneUserServed
  <2>1. PICK u : served.who[s] \subseteq {u}
    BY <1>1 DEF OwnUser
  <2>2. served.who[s] = {} \/ served.who[s] = {u}
    BY <2>1
  <2>3. Cardinality({}) = 0 /\ Cardinality({u}) = 1
    BY FS_EmptySet, FS_Singleton
  <2>4. QED
    BY <2>2, <2>3
<1>5. CountedInItsRealm
  BY <1>1 DEF CountedInItsRealm, SessionOK
<1>6. OneMessageOneBuffer
  <2> SUFFICES ASSUME NEW i \in Slot
               PROVE  /\ req[i].freed \in {0, 1} /\ req[i].answers =< req[i].freed
                      /\ req[i].freed = 0 <=> \E a \in AuthServer \cup {0} : \E k \in DOMAIN Queue(a) : About(a, k, i)
                      /\ \A a, b \in AuthServer \cup {0} : \A j \in DOMAIN Queue(a), k \in DOMAIN Queue(b) :
                           About(a, j, i) /\ About(b, k, i) => a = b /\ j = k
                      /\ req[i].freed = 1 /\ req[i].answers = 0 => req[i].s = 0 \/ ~ss[req[i].s].live
    BY DEF OneMessageOneBuffer
  <2>1. DOMAIN Q = AuthServer \cup {0} /\ \A a \in AuthServer \cup {0} : Q[a] = Queue(a)
    BY DEF Q, Queues
  <2>2. req[i].freed \in {0, 1} /\ req[i].answers \in {0, 1} /\ (req[i].freed = 0 => req[i].answers = 0)
    BY <1>1 DEF AuthState, Waiter, Waits, WaitsFor
  <2>3. req[i].freed = 0 <=> \E a \in AuthServer \cup {0} : \E k \in DOMAIN Queue(a) : About(a, k, i)
    BY <1>1, <2>1 DEF Messages, Mentions, About
  <2>4. \A a, b \in AuthServer \cup {0} : \A j \in DOMAIN Queue(a), k \in DOMAIN Queue(b) :
           About(a, j, i) /\ About(b, k, i) => a = b /\ j = k
    BY <1>1, <2>1 DEF Messages, Apart, About
  <2>5. req[i].freed = 1 /\ req[i].answers = 0 => req[i].s = 0 \/ ~ss[req[i].s].live
    BY <1>1 DEF Waits
  <2>6. req[i].answers =< req[i].freed
    BY <2>2
  <2>7. QED
    BY <2>2, <2>3, <2>4, <2>5, <2>6
<1>7. QED
  BY <1>1, <1>3, <1>4, <1>5, <1>6 DEF ServedAsProven, Proven

(* Whatever is carried out under authentication was signed with a key found    *)
(* for that user and that session, a session serves one user, a waiting        *)
(* request has one message and one buffer, and the session is counted in its   *)
(* realm - for every number of users, sessions, requests and threads           *)
(* (check_stun_auth, resume_processing_after_username_check).                  *)
THEOREM AlwaysServedAsProven ==
  ASSUME AuthAssumption
  PROVE  AuthSpec => []ServedAsProven
<1>1. AuthInit => AuthInv
  BY AuthInvInit
<1>2. AuthInv /\ [AuthNext]_authVars => AuthInv'
  BY AuthInvNext
<1>3. AuthInv => ServedAsProven
  BY AuthInvSays
<1>4. QED
  BY <1>1, <1>2, <1>3, PTL DEF AuthSpec

-----------------------------------------------------------------------------
(* The lock keeps writers alone and loses no wakeup, for any finite number *)
(* of threads.  The counters are related to the sets of threads inside;    *)
(* entering adds one element to a set, leaving removes one, and the rest   *)
(* of the invariant follows without arithmetic.                            *)

\* A counter that goes up stays a natural number.
LEMMA NextNatural == \A n \in Nat : n + 1 \in Nat
  OBVIOUS

\* The threads at a place are finitely many, so that they can be counted.
LEMMA InFinite == ASSUME NEW p PROVE IsFiniteSet(In(p)) /\ Cardinality(In(p)) \in Nat
  <1>1. In(p) \subseteq Threads  BY DEF In
  <1>2. IsFiniteSet(In(p))  BY <1>1, FS_Subset, LockAssumption
  <1> QED  BY <1>2, FS_CardinalityType

\* A counter of a place is zero exactly when nobody is there.
LEMMA NobodyThere == ASSUME NEW p PROVE Cardinality(In(p)) = 0 <=> In(p) = {}
  BY InFinite, FS_EmptySet

\* A thread that goes from one place to another is counted at the new one.
LEMMA Moves ==
  ASSUME LockTypeOK, NEW t \in Threads, NEW from, NEW to \in Places, from # to,
         at[t] = from, at' = [at EXCEPT ![t] = to]
  PROVE  /\ Cardinality(In(to)') = Cardinality(In(to)) + 1
         /\ Cardinality(In(from)') = Cardinality(In(from)) - 1
         /\ \A p : p # from /\ p # to => In(p)' = In(p)
         /\ t \in In(to)' /\ at' \in [Threads -> Places]
  <1>1. at \in [Threads -> Places]  BY DEF LockTypeOK
  <1>2. In(to)' = In(to) \cup {t} /\ t \notin In(to)  BY <1>1 DEF In
  <1>3. In(from)' = In(from) \ {t} /\ t \in In(from)  BY <1>1 DEF In
  <1>4. \A p : p # from /\ p # to => In(p)' = In(p)  BY <1>1 DEF In
  <1>5. at' \in [Threads -> Places]  BY <1>1
  <1>6. Cardinality(In(to) \cup {t}) = Cardinality(In(to)) + 1
    BY <1>2, InFinite, FS_AddElement
  <1>7. Cardinality(In(from) \ {t}) = Cardinality(In(from)) - 1
    BY <1>3, InFinite, FS_RemoveElement
  <1> QED  BY <1>2, <1>3, <1>4, <1>5, <1>6, <1>7

\* The writer is named by write_thread, so there is at most one, and none when
\* the lock is free.
LEMMA WriterAlone == LockTypeOK /\ WriterNamed => In("writes") = IF Free THEN {} ELSE {write_thread}
  BY LockAssumption DEF LockTypeOK, WriterNamed, In, Free

\* Nobody is inside at the start.
LEMMA InitHolds == LockInit => LockInv
  <1> SUFFICES ASSUME LockInit PROVE LockInv  OBVIOUS
  <1>1. LockTypeOK  BY DEF LockInit, LockTypeOK, Places
  <1>2. In("reads") = {} /\ In("writes") = {}  BY DEF LockInit, In
  <1>3. Counted  BY <1>2, NobodyThere DEF Counted, LockInit
  <1>4. WriterNamed /\ OneWriter /\ NoLostWakeup  BY LockAssumption DEF LockInit, WriterNamed, OneWriter, NoLostWakeup
  <1> QED  BY <1>1, <1>3, <1>4 DEF LockInv

\* A thread that calls a function, or wakes up, is nowhere that counts.
LEMMA EnterKeeps == ASSUME LockInv, NEW t \in Threads, NEW write \in BOOLEAN, Enter(t, write) PROVE LockInv'
  <1> USE DEF LockInv
  <1> DEFINE to == IF write THEN "wants write" ELSE "wants read"
  <1>1. LockTypeOK'  BY DEF LockTypeOK, Enter, Places
  <1>2. In("reads")' = In("reads") /\ In("writes")' = In("writes")  BY DEF Enter, In, LockTypeOK
  <1>3. Counted'  BY <1>2 DEF Counted, Enter
  <1>4. WriterNamed' /\ OneWriter'  BY DEF Enter, WriterNamed, OneWriter, LockTypeOK
  <1>5. t \notin asleep  BY DEF NoLostWakeup, Enter
  <1>6. \A u \in asleep' : u \in asleep /\ at'[u] = at[u]  BY <1>5 DEF Enter, LockTypeOK
  <1>7. NoLostWakeup'  BY <1>2, <1>6 DEF NoLostWakeup
  <1> QED  BY <1>1, <1>3, <1>4, <1>7

LEMMA WakeupKeeps == ASSUME LockInv, NEW t \in Threads, SpuriousWakeup(t) PROVE LockInv'
  BY DEF LockInv, SpuriousWakeup, LockTypeOK, Counted, WriterNamed, OneWriter, NoLostWakeup, In

LEMMA LockWriteKeeps == ASSUME LockInv, NEW t \in Threads, sqlite_lock_write(t) PROVE LockInv'
  <1> USE DEF LockInv
  <1>1. CASE ~CanWrite(t)
    <2>1. asleep' = asleep \cup {t} /\ UNCHANGED <<read_threads, write_level, write_thread, at>>
      BY <1>1 DEF sqlite_lock_write
    <2>2. In("reads")' = In("reads") /\ In("writes")' = In("writes")  BY <2>1 DEF In
    <2>3. In("reads") \cup In("writes") # {}
      <3>1. CASE Free
        <4>1. ~(read_threads < 1)  BY <1>1, <3>1 DEF CanWrite
        <4>2. Cardinality(In("reads")) # 0  BY <4>1 DEF Counted
        <4> QED  BY <4>2, NobodyThere
      <3>2. CASE ~Free  BY <3>2, WriterAlone
      <3> QED  BY <3>1, <3>2
    <2>4. NoLostWakeup'  BY <2>1, <2>2, <2>3 DEF NoLostWakeup, sqlite_lock_write
    <2> QED  BY <2>1, <2>2, <2>4 DEF LockTypeOK, Counted, WriterNamed, OneWriter
  <1>2. CASE CanWrite(t)
    <2>1. Free /\ read_threads < 1
      BY <1>2 DEF CanWrite, WriterNamed, sqlite_lock_write
    <2>2. In("reads") = {}  BY <2>1, NobodyThere, InFinite DEF Counted
    <2>3. In("writes") = {}  BY <2>1, WriterAlone
    <2>4. /\ write_level' = write_level + 1 /\ write_thread' = t /\ asleep' = asleep
          /\ at' = [at EXCEPT ![t] = "writes"] /\ read_threads' = read_threads /\ at[t] = "wants write"
      BY <1>2 DEF sqlite_lock_write
    <2>5. asleep = {}  BY <2>2, <2>3 DEF NoLostWakeup
    <2>6. /\ Cardinality(In("writes")') = Cardinality(In("writes")) + 1 /\ In("reads")' = In("reads")
          /\ at' \in [Threads -> Places]
      BY <2>4, Moves DEF Places
    <2>7. LockTypeOK'
      <3>1. write_level \in Nat /\ read_threads \in Nat /\ asleep \subseteq Threads  BY DEF LockTypeOK
      <3>2. write_level' \in Nat /\ read_threads' \in Nat  BY <3>1, <2>4, NextNatural
      <3> QED  BY <2>4, <2>6, <3>1, <3>2 DEF LockTypeOK
    <2>8. Counted'  BY <2>4, <2>6 DEF Counted
    <2>9. WriterNamed'  BY <2>1, <2>4, LockAssumption DEF WriterNamed, LockTypeOK, Free
    <2>10. \A u \in Threads : u # t => at'[u] = at[u] /\ at[u] \notin {"reads", "writes"}
      BY <2>2, <2>3, <2>4 DEF In, LockTypeOK
    <2>11. OneWriter'  BY <2>4, <2>10 DEF OneWriter, LockTypeOK
    <2>12. NoLostWakeup'  BY <2>4, <2>5 DEF NoLostWakeup
    <2> QED  BY <2>7, <2>8, <2>9, <2>11, <2>12
  <1> QED  BY <1>1, <1>2

LEMMA LockReadKeeps == ASSUME LockInv, NEW t \in Threads, sqlite_lock_read(t) PROVE LockInv'
  <1> USE DEF LockInv
  <1>1. CASE ~CanRead(t)
    <2>1. asleep' = asleep \cup {t} /\ UNCHANGED <<read_threads, write_level, write_thread, at>>
      BY <1>1 DEF sqlite_lock_read
    <2>2. In("reads")' = In("reads") /\ In("writes")' = In("writes")  BY <2>1 DEF In
    <2>3. In("writes") # {}  BY <1>1, WriterAlone DEF CanRead
    <2>4. NoLostWakeup'  BY <2>1, <2>2, <2>3 DEF NoLostWakeup, sqlite_lock_read
    <2> QED  BY <2>1, <2>2, <2>4 DEF LockTypeOK, Counted, WriterNamed, OneWriter
  <1>2. CASE CanRead(t)
    <2>1. Free  BY <1>2 DEF CanRead, WriterNamed, sqlite_lock_read
    <2>2. In("writes") = {}  BY <2>1, WriterAlone
    <2>3. /\ read_threads' = read_threads + 1 /\ asleep' = asleep /\ at[t] = "wants read" /\ t \notin asleep
          /\ at' = [at EXCEPT ![t] = "reads"] /\ UNCHANGED <<write_level, write_thread>>
      BY <1>2 DEF sqlite_lock_read
    <2>4. /\ Cardinality(In("reads")') = Cardinality(In("reads")) + 1 /\ In("writes")' = In("writes")
          /\ at' \in [Threads -> Places] /\ t \in In("reads")'
      BY <2>3, Moves DEF Places
    <2>5. LockTypeOK'
      <3>1. read_threads \in Nat /\ write_level \in Nat /\ asleep \subseteq Threads
            /\ write_thread \in Threads \cup {NullThread}
        BY DEF LockTypeOK
      <3>2. read_threads' \in Nat  BY <3>1, <2>3, NextNatural
      <3> QED  BY <2>3, <2>4, <3>1, <3>2 DEF LockTypeOK
    <2>6. Counted'  BY <2>3, <2>4 DEF Counted
    <2>7. WriterNamed'  BY <2>3 DEF WriterNamed, LockTypeOK
    <2>8. OneWriter'  BY <2>2, <2>4 DEF OneWriter, In
    <2>9. \A u \in asleep : at[u] = "wants write" /\ at'[u] = at[u]
      BY <2>2, <2>3 DEF NoLostWakeup, LockTypeOK
    <2>10. NoLostWakeup'  BY <2>3, <2>4, <2>9 DEF NoLostWakeup
    <2> QED  BY <2>5, <2>6, <2>7, <2>8, <2>10
  <1> QED  BY <1>1, <1>2

LEMMA UnlockWriteKeeps == ASSUME LockInv, NEW t \in Threads, sqlite_unlock_write(t) PROVE LockInv'
  <1> USE DEF LockInv
  <1>1. at[t] = "writes" /\ at' = [at EXCEPT ![t] = "out"] /\ read_threads' = read_threads
    BY DEF sqlite_unlock_write
  <1>2. In("writes") = {t}  BY <1>1, WriterAlone DEF WriterNamed, Free, In, LockTypeOK
  <1>3. write_level = 1  BY <1>2, FS_Singleton DEF Counted
  <1>4. write_level' = 0 /\ write_thread' = NullThread /\ asleep' = {}  BY <1>3 DEF sqlite_unlock_write
  <1>5. /\ Cardinality(In("writes")') = Cardinality(In("writes")) - 1 /\ In("reads")' = In("reads")
        /\ at' \in [Threads -> Places]
    BY <1>1, Moves DEF Places
  <1>6. LockTypeOK'  BY <1>1, <1>4, <1>5 DEF LockTypeOK
  <1>7. Counted'  BY <1>1, <1>3, <1>4, <1>5 DEF Counted
  <1>8. \A u \in Threads : at'[u] # "writes"  BY <1>1, <1>2 DEF In, LockTypeOK
  <1>9. WriterNamed'  BY <1>4, <1>8, LockAssumption DEF WriterNamed
  <1>10. OneWriter' /\ NoLostWakeup'  BY <1>4, <1>8 DEF OneWriter, NoLostWakeup
  <1> QED  BY <1>6, <1>7, <1>9, <1>10

LEMMA UnlockReadKeeps == ASSUME LockInv, NEW t \in Threads, sqlite_unlock_read(t) PROVE LockInv'
  <1> USE DEF LockInv
  <1>1. /\ at[t] = "reads" /\ at' = [at EXCEPT ![t] = "out"] /\ read_threads' = read_threads - 1
        /\ asleep' = (IF read_threads' = 0 THEN {} ELSE asleep) /\ UNCHANGED <<write_level, write_thread>>
    BY DEF sqlite_unlock_read
  <1>2. In("writes") = {}  BY <1>1 DEF OneWriter, In, LockTypeOK
  <1>3. /\ Cardinality(In("reads")') = Cardinality(In("reads")) - 1 /\ In("writes")' = In("writes")
        /\ at' \in [Threads -> Places]
    BY <1>1, Moves DEF Places
  <1>4. Cardinality(In("reads")') \in Nat
    <2>1. In("reads")' \subseteq Threads  BY DEF In
    <2> QED  BY <2>1, FS_Subset, FS_CardinalityType, LockAssumption
  <1>5. read_threads' = Cardinality(In("reads")')  BY <1>1, <1>3 DEF Counted
  <1>6. LockTypeOK'  BY <1>1, <1>3, <1>4, <1>5 DEF LockTypeOK
  <1>7. Counted'  BY <1>1, <1>3, <1>5 DEF Counted
  <1>8. WriterNamed'  BY <1>1 DEF WriterNamed, LockTypeOK
  <1>9. OneWriter'  BY <1>2, <1>3 DEF OneWriter, In
  <1>10. NoLostWakeup'
    <2>1. CASE read_threads' = 0  BY <1>1, <2>1 DEF NoLostWakeup
    <2>2. CASE read_threads' # 0
      <3>1. In("reads")' # {}
        <4>1. Cardinality(In("reads")') # 0  BY <2>2, <1>5
        <4> QED  BY <4>1, FS_EmptySet
      <3>2. \A u \in asleep : at[u] = "wants write" /\ at'[u] = at[u]
        BY <1>1, <1>2 DEF NoLostWakeup, LockTypeOK
      <3> QED  BY <1>1, <2>2, <3>1, <3>2 DEF NoLostWakeup
    <2> QED  BY <2>1, <2>2
  <1> QED  BY <1>6, <1>7, <1>8, <1>9, <1>10

\* Every step of every thread keeps the invariant.
LEMMA StepKeeps == LockInv /\ [LockNext]_lockVars => LockInv'
  <1> SUFFICES ASSUME LockInv, [LockNext]_lockVars PROVE LockInv'  OBVIOUS
  <1>1. CASE UNCHANGED lockVars
    BY <1>1 DEF lockVars, LockInv, LockTypeOK, Counted, WriterNamed, OneWriter, NoLostWakeup, In
  <1>2. ASSUME NEW t \in Threads, LockStep(t) PROVE LockInv'
    BY <1>2, LockWriteKeeps, LockReadKeeps, UnlockWriteKeeps, UnlockReadKeeps DEF LockStep
  <1>3. ASSUME NEW t \in Threads, SpuriousWakeup(t) \/ Enter(t, TRUE) \/ Enter(t, FALSE) PROVE LockInv'
    BY <1>3, WakeupKeeps, EnterKeeps
  <1> QED  BY <1>1, <1>2, <1>3 DEF LockNext

\* sqlite_lock and sqlite_unlock keep the whole invariant.
THEOREM LockInvariant == LockSpec => []LockInv
  BY InitHolds, StepKeeps, PTL DEF LockSpec

\* A thread that writes to the SQLite file is alone in it, whatever the number
\* of threads and the order in which they come and go, and no thread sleeps in
\* pthread_cond_wait while nobody holds what it waits for.
THEOREM LockAlwaysSound == LockSpec => []LockSound
  <1>1. LockInv => LockSound  BY DEF LockInv, LockSound
  <1> QED  BY <1>1, LockInvariant, PTL

-----------------------------------------------------------------------------
(* Administrators are confined for every value of the constants.  What is     *)
(* needed beside the types, which say that the session of an administrator of *)
(* a realm has nothing in eff, is that a page was sent to some connection.    *)

(* A connection's session, the invariant, and what a form may do.             *)
AdminSession == [ok : BOOLEAN, login : DOMAIN AdminRealm \cup {""}, realm : Optional, eff : Optional]
AdminInv == AdminTypeOK /\ PageConfined /\ page.conn \in Conns
AdminStepOK == Confined /\ RealmKept

(* A form copies into the buffer of a connection's realm the realm that is    *)
(* there, or, for the server's administrator, the one looked at into another. *)
LEMMA LooksAt ==
  ASSUME AdminAssumption, AdminInv, NEW c \in Conns, NEW r \in Optional, as[c].ok
  PROVE  LET a == SetEffRealm(c, r) IN
         /\ a \in AdminSession /\ a.ok /\ a.realm = as[c].realm /\ a.login = as[c].login
         /\ a.realm # "" => a.eff = "" /\ current_eff_realm(a) = a.realm
<1>1. as[c] \in AdminSession /\ (as[c].realm # "" => as[c].eff = "")
  BY DEF AdminInv, AdminTypeOK, AdminSession
<1>2. PICK s \in AdminSession : s = as[c]
  BY <1>1
<1>3. CASE s.realm # ""
  <2>1. SetEffRealm(c, r) = [s EXCEPT !.realm = s.realm]
    BY <1>2, <1>3 DEF SetEffRealm, is_superuser, current_realm
  <2> QED BY <1>1, <1>2, <1>3, <2>1 DEF AdminSession, current_eff_realm
<1>4. CASE s.realm = ""
  <2>1. SetEffRealm(c, r) = [s EXCEPT !.eff = r]
    BY <1>2, <1>4 DEF SetEffRealm, is_superuser, is_as_ok
  <2> QED BY <1>2, <1>4, <2>1 DEF AdminSession
<1> QED BY <1>3, <1>4

(* A connection's session changes and a page is sent to it: what it may be.   *)
LEMMA PageAnswered ==
  ASSUME AdminAssumption, AdminInv, NEW c \in Conns, NEW a \in AdminSession, NEW lists,
         as' = [as EXCEPT ![c] = a], page' = [conn |-> c, lists |-> lists],
         a.ok => a.realm = AdminRealm[a.login] /\ (a.realm # "" => a.eff = ""),
         as[c].ok /\ a.ok => a.realm = as[c].realm /\ a.login = as[c].login,
         lists # {} => a.ok, a.realm # "" => \A r \in lists : r.realm = a.realm,
         \A r \in records' : r.kind \in Kinds /\ r.name \in Names /\ (r.realm = "" => r.kind = "ip"),
         options' \subseteq Realms
  PROVE  AdminInv' /\ RealmKept /\ page'.conn = c
<1>1. as \in [Conns -> AdminSession]
  BY DEF AdminInv, AdminTypeOK, AdminSession
<1>2. as' \in [Conns -> AdminSession] /\ as'[c] = a /\ \A d \in Conns : d # c => as'[d] = as[d]
  BY <1>1
<1>3. page'.conn = c /\ page'.lists = lists
  OBVIOUS
<1>4. AdminTypeOK'
  BY <1>2 DEF AdminInv, AdminTypeOK, AdminSession
<1>5. PageConfined'
  BY <1>2, <1>3 DEF PageConfined
<1>6. RealmKept
  BY <1>2 DEF RealmKept
<1> QED BY <1>3, <1>4, <1>5, <1>6 DEF AdminInv

(* The same when the session is left as it is and the page lists nothing.     *)
LEMMA HomeAnswered ==
  ASSUME AdminAssumption, AdminInv, NEW c \in Conns, as' = as, page' = [conn |-> c, lists |-> {}],
         \A r \in records' : r.kind \in Kinds /\ r.name \in Names /\ (r.realm = "" => r.kind = "ip"),
         options' \subseteq Realms
  PROVE  AdminInv' /\ RealmKept /\ page'.conn = c
<1>1. as \in [Conns -> AdminSession] /\ as[c] \in AdminSession
  BY DEF AdminInv, AdminTypeOK, AdminSession
<1>2. as' = [as EXCEPT ![c] = as[c]]
  BY <1>1
<1>3. as[c].ok => as[c].realm = AdminRealm[as[c].login] /\ (as[c].realm # "" => as[c].eff = "")
  BY DEF AdminInv, AdminTypeOK
<1> QED BY <1>1, <1>2, <1>3, PageAnswered

(* Nothing changes but who is logged on and which page was sent.              *)
LEMMA NothingChanged == UNCHANGED <<records, options, globals>> => Confined
BY DEF Confined

(* The realm of a new record, and of one to delete.                           *)
LEMMA RecordsRealm ==
  ASSUME AdminAssumption, AdminInv, NEW c \in Conns, as[c].ok, NEW r \in Optional, NEW q \in Optional
  PROVE  /\ AddRealm(c, SetEffRealm(c, r), q) \in Realms
         /\ as[c].realm # "" => AddRealm(c, SetEffRealm(c, r), q) = as[c].realm
         /\ as[c].realm # "" => DeleteRealm(c, q) = as[c].realm
<1> DEFINE a == SetEffRealm(c, r)
<1>1. a \in AdminSession /\ as[c].realm \in Optional
  BY LooksAt DEF AdminInv, AdminTypeOK
<1> HIDE DEF a
<1>2. current_eff_realm(a) \in Optional
  BY <1>1 DEF AdminSession, current_eff_realm
<1>3. AddRealm(c, a, q) \in Realms /\ (as[c].realm # "" => AddRealm(c, a, q) = as[c].realm)
  BY <1>1, <1>2 DEF AddRealm, is_superuser, is_as_ok, current_realm, Optional, AdminAssumption
<1> QED BY <1>3 DEF a, DeleteRealm, is_superuser, current_realm

(* The forms that concern users and secrets.                                  *)
LEMMA RecordsFormKeeps ==
  ASSUME AdminAssumption, AdminInv, NEW c \in Conns, NEW kind \in Kinds, NEW r \in Optional,
         NEW delRealm \in Optional, NEW addRealm \in Optional, NEW del \in Name, NEW add \in Name,
         NEW right \in BOOLEAN, RecordsForm(c, kind, r, del, delRealm, add, addRealm, right)
  PROVE  AdminInv' /\ AdminStepOK
<1> DEFINE a == SetEffRealm(c, r)
           gone == Rec(kind, del, DeleteRealm(c, delRealm))
           new == Rec(kind, add, AddRealm(c, a, addRealm))
<1>1. /\ as[c].ok /\ as' = [as EXCEPT ![c] = a] /\ page' = [conn |-> c, lists |-> Listed(kind, a, records')]
      /\ UNCHANGED <<options, globals>>
  BY DEF RecordsForm, is_as_ok, Show
<1>2. /\ a \in AdminSession /\ a.ok /\ a.realm = as[c].realm /\ a.login = as[c].login
      /\ a.realm # "" => a.eff = "" /\ current_eff_realm(a) = a.realm
  BY <1>1, LooksAt
<1>3. /\ gone.realm = DeleteRealm(c, delRealm) /\ new.realm = AddRealm(c, a, addRealm) /\ new.kind = kind /\ new.name = add
      /\ new.realm \in Realms /\ (as[c].realm # "" => new.realm = as[c].realm /\ gone.realm = as[c].realm)
  BY <1>1, RecordsRealm DEF Rec
<1>4. \A x : x \in records' => x \in records \/ (x = new /\ add # "")
  BY DEF RecordsForm
<1>5. \A x : x \in records => x \in records' \/ x = gone
  BY DEF RecordsForm
<1> HIDE DEF a, gone, new
<1>6. \A x \in records' : x.kind \in Kinds /\ x.name \in Names /\ (x.realm = "" => x.kind = "ip")
  BY <1>3, <1>4 DEF AdminInv, AdminTypeOK, Name, AdminAssumption
<1>7. a.realm # "" => \A x \in Listed(kind, a, records') : x.realm = a.realm
  BY <1>2 DEF Listed
<1>8. as[c].ok => as[c].realm = AdminRealm[as[c].login]
  BY DEF AdminInv, AdminTypeOK
<1>9. options' \subseteq Realms
  BY <1>1 DEF AdminInv, AdminTypeOK
<1>10. AdminInv' /\ RealmKept /\ page'.conn = c
  BY <1>1, <1>2, <1>6, <1>7, <1>8, <1>9, PageAnswered
<1>11. Confined
  BY <1>1, <1>3, <1>4, <1>5, <1>10 DEF Confined
<1> QED BY <1>10, <1>11 DEF AdminStepOK

(* The form that concerns origins.                                            *)
LEMMA OriginsFormKeeps ==
  ASSUME AdminAssumption, AdminInv, NEW c \in Conns, NEW r \in Optional, NEW addRealm \in Optional,
         NEW del \in Name, NEW add \in Name, OriginsForm(c, r, del, add, addRealm)
  PROVE  AdminInv' /\ AdminStepOK
<1> DEFINE a == SetEffRealm(c, r)
           new == Rec("origin", add, AddRealm(c, a, addRealm))
<1>1. /\ as[c].ok /\ as' = [as EXCEPT ![c] = a] /\ page' = [conn |-> c, lists |-> Listed("origin", a, records')]
      /\ UNCHANGED <<options, globals>> /\ "origin" \in Kinds
  BY DEF OriginsForm, is_as_ok, Show
<1>2. /\ a \in AdminSession /\ a.ok /\ a.realm = as[c].realm /\ a.login = as[c].login
      /\ a.realm # "" => a.eff = "" /\ current_eff_realm(a) = a.realm
  BY <1>1, LooksAt
<1>3. /\ new.realm = AddRealm(c, a, addRealm) /\ new.kind = "origin" /\ new.name = add
      /\ new.realm \in Realms /\ (as[c].realm # "" => new.realm = as[c].realm)
  BY <1>1, RecordsRealm DEF Rec
<1>4. \A x : x \in records' => x \in records \/ (x = new /\ add # "")
  BY DEF OriginsForm
<1>5. \A x : x \in records => x \in records' \/ as[c].realm = ""
  BY DEF OriginsForm, is_superuser
<1> HIDE DEF a, new
<1>6. \A x \in records' : x.kind \in Kinds /\ x.name \in Names /\ (x.realm = "" => x.kind = "ip")
  BY <1>1, <1>3, <1>4 DEF AdminInv, AdminTypeOK, Name, AdminAssumption
<1>7. a.realm # "" => \A x \in Listed("origin", a, records') : x.realm = a.realm
  BY <1>2 DEF Listed
<1>8. as[c].ok => as[c].realm = AdminRealm[as[c].login]
  BY DEF AdminInv, AdminTypeOK
<1>9. options' \subseteq Realms
  BY <1>1 DEF AdminInv, AdminTypeOK
<1>10. AdminInv' /\ RealmKept /\ page'.conn = c
  BY <1>1, <1>2, <1>6, <1>7, <1>8, <1>9, PageAnswered
<1>11. Confined
  BY <1>1, <1>3, <1>4, <1>5, <1>10 DEF Confined
<1> QED BY <1>10, <1>11 DEF AdminStepOK

(* The form that concerns options and address ranges.                         *)
LEMMA UpdateFormKeeps ==
  ASSUME AdminAssumption, AdminInv, NEW c \in Conns, NEW param \in BOOLEAN, NEW delRealm \in Optional,
         NEW addRealm \in Optional, NEW del \in Name, NEW add \in Name,
         UpdateForm(c, param, del, delRealm, add, addRealm)
  PROVE  AdminInv' /\ AdminStepOK
<1> DEFINE own(r) == IF r = "" THEN current_realm(c) ELSE r
           gone == Rec("ip", del, own(delRealm))
           new == Rec("ip", add, own(addRealm))
<1>1. as[c].ok /\ as' = as /\ page' = [conn |-> c, lists |-> {}] /\ globals' = globals /\ "ip" \in Kinds
  BY DEF UpdateForm, is_as_ok, HomePage, Show
<1>2. new.kind = "ip" /\ new.name = add /\ new.realm = own(addRealm) /\ gone.realm = own(delRealm)
  BY DEF Rec
<1>3. \A x : x \in records' => x \in records \/ (x = new /\ add # "" /\ MayChangeIp(c, own(addRealm)))
  BY DEF UpdateForm
<1>4. \A x : x \in records => x \in records' \/ (x = gone /\ MayChangeIp(c, own(delRealm)))
  BY DEF UpdateForm
<1> HIDE DEF own, gone, new
<1>5. \A x : (x \in records' /\ x \notin records) \/ (x \in records /\ x \notin records') => as[c].realm = "" \/ x.realm = as[c].realm
  BY <1>2, <1>3, <1>4 DEF MayChangeIp, current_realm
<1>6. \A x \in records' : x.kind \in Kinds /\ x.name \in Names /\ (x.realm = "" => x.kind = "ip")
  BY <1>1, <1>2, <1>3 DEF AdminInv, AdminTypeOK, Name
<1>7. /\ \A x \in options' : x \in options \/ x = IF current_eff_realm(as[c]) = "" THEN MainRealm ELSE current_eff_realm(as[c])
      /\ current_eff_realm(as[c]) \in Optional
      /\ as[c].realm # "" => current_eff_realm(as[c]) = as[c].realm
  BY DEF UpdateForm, update_param, current_eff_realm, AdminInv, AdminTypeOK
<1>8. options' \subseteq Realms
  BY <1>7 DEF AdminInv, AdminTypeOK, AdminAssumption, Optional
<1>9. AdminInv' /\ RealmKept /\ page'.conn = c
  BY <1>1, <1>6, <1>8, HomeAnswered
<1>10. Confined
  BY <1>1, <1>5, <1>7, <1>9 DEF Confined
<1> QED BY <1>9, <1>10 DEF AdminStepOK

(* The other forms.                                                           *)
LEMMA OtherFormsKeep ==
  ASSUME AdminAssumption, AdminInv, NEW c \in Conns,
         \/ Unauthorized(c) \/ Reconnect(c) \/ LogoutForm(c) \/ ToggleForm(c)
         \/ \E name \in DOMAIN AdminRealm, right \in BOOLEAN : LogonForm(c, name, right)
         \/ \E r \in Optional : LookForm(c, r)
         \/ \E del, add \in Name : OauthForm(c, del, add)
  PROVE  AdminInv' /\ AdminStepOK
<1>1. records' = records /\ options' = options /\ page' = [conn |-> c, lists |-> {}]
  BY DEF Unauthorized, Reconnect, LogoutForm, ToggleForm, LogonForm, LookForm, OauthForm, HomePage, LogonPage, Show
<1>2. /\ \A r \in records' : r.kind \in Kinds /\ r.name \in Names /\ (r.realm = "" => r.kind = "ip")
      /\ options' \subseteq Realms
  BY <1>1 DEF AdminInv, AdminTypeOK
<1>3. /\ as[c] \in AdminSession
      /\ as[c].ok => as[c].realm = AdminRealm[as[c].login] /\ (as[c].realm # "" => as[c].eff = "")
  BY DEF AdminInv, AdminTypeOK, AdminSession
<1>4. ASSUME as' = as, globals' = globals \/ (as[c].ok /\ as[c].realm = "") PROVE AdminInv' /\ AdminStepOK
  <2>1. AdminInv' /\ RealmKept /\ page'.conn = c
    BY <1>1, <1>2, <1>4, HomeAnswered
  <2>2. Confined
    BY <1>1, <1>4, <2>1 DEF Confined
  <2> QED BY <2>1, <2>2 DEF AdminStepOK
<1>5. ASSUME NEW a \in AdminSession, as' = [as EXCEPT ![c] = a], globals' = globals,
             a.ok => a.realm = AdminRealm[a.login] /\ (a.realm # "" => a.eff = ""),
             as[c].ok /\ a.ok => a.realm = as[c].realm /\ a.login = as[c].login
      PROVE  AdminInv' /\ AdminStepOK
  <2>1. AdminInv' /\ RealmKept
    BY <1>1, <1>2, <1>5, PageAnswered
  <2>2. Confined
    BY <1>1, <1>5, NothingChanged
  <2> QED BY <2>1, <2>2 DEF AdminStepOK
<1>6. CASE Unauthorized(c)
  BY <1>4, <1>6 DEF Unauthorized
<1>7. CASE Reconnect(c) \/ LogoutForm(c)
  <2>1. NoSession \in AdminSession /\ ~NoSession.ok
    BY DEF NoSession, AdminSession, Optional
  <2> QED BY <1>5, <1>7, <2>1 DEF Reconnect, LogoutForm
<1>8. CASE ToggleForm(c)
  BY <1>4, <1>8 DEF ToggleForm, is_superuser, is_as_ok
<1>9. ASSUME NEW name \in DOMAIN AdminRealm, NEW right \in BOOLEAN, LogonForm(c, name, right)
      PROVE  AdminInv' /\ AdminStepOK
  <2>1. CASE MayLogon(c) /\ right
    <3> DEFINE a == [ok |-> TRUE, login |-> name, realm |-> AdminRealm[name], eff |-> ""]
    <3>1. a \in AdminSession /\ a.realm = AdminRealm[a.login] /\ a.eff = ""
      BY DEF AdminAssumption, AdminSession, Optional
    <3>2. as' = [as EXCEPT ![c] = a] /\ globals' = globals /\ ~as[c].ok
      BY <1>9, <2>1 DEF LogonForm, MayLogon, is_as_ok
    <3> HIDE DEF a
    <3> QED BY <1>5, <3>1, <3>2
  <2>2. CASE ~(MayLogon(c) /\ right)
    BY <1>4, <1>9, <2>2 DEF LogonForm
  <2> QED BY <2>1, <2>2
<1>10. ASSUME NEW r \in Optional, LookForm(c, r) PROVE AdminInv' /\ AdminStepOK
  <2>1. CASE as[c].ok
    <3>1. as' = [as EXCEPT ![c] = SetEffRealm(c, r)] /\ globals' = globals
      BY <1>10, <2>1 DEF LookForm, is_as_ok
    <3>2. /\ SetEffRealm(c, r) \in AdminSession /\ SetEffRealm(c, r).ok
          /\ SetEffRealm(c, r).realm = as[c].realm /\ SetEffRealm(c, r).login = as[c].login
          /\ SetEffRealm(c, r).realm # "" => SetEffRealm(c, r).eff = ""
      BY <2>1, LooksAt
    <3> QED BY <1>3, <1>5, <2>1, <3>1, <3>2
  <2>2. CASE ~as[c].ok
    <3>1. as' = [as EXCEPT ![c] = as[c]] /\ globals' = globals
      BY <1>10, <2>2 DEF LookForm, is_as_ok
    <3> QED BY <1>3, <1>5, <3>1
  <2> QED BY <2>1, <2>2
<1>11. ASSUME NEW del \in Name, NEW add \in Name, OauthForm(c, del, add) PROVE AdminInv' /\ AdminStepOK
  BY <1>4, <1>11 DEF OauthForm, is_superuser, is_as_ok
<1> QED BY <1>6, <1>7, <1>8, <1>9, <1>10, <1>11

(* Nobody is logged on at the start.                                          *)
LEMMA AdminStart == ASSUME AdminAssumption, AdminInit PROVE AdminInv
<1>1. NoSession \in AdminSession /\ ~NoSession.ok /\ NoSession.realm = ""
  BY DEF NoSession, AdminSession, Optional
<1>2. page.conn \in Conns /\ page.lists = {} /\ as = [c \in Conns |-> NoSession]
  BY DEF AdminInit
<1> QED BY <1>1, <1>2 DEF AdminInit, AdminInv, AdminTypeOK, AdminSession, PageConfined

(* Every form keeps administrators to their realms.                           *)
LEMMA AdminStep ==
  ASSUME AdminAssumption, AdminInv, [AdminNext]_adminVars
  PROVE  AdminInv' /\ [AdminStepOK]_adminVars
<1>1. CASE UNCHANGED adminVars
  BY <1>1 DEF adminVars, AdminInv, AdminTypeOK, PageConfined
<1>2. CASE AdminNext
  <2>1. PICK c \in Conns :
          \/ Unauthorized(c) \/ Reconnect(c) \/ LogoutForm(c) \/ ToggleForm(c)
          \/ \E name \in DOMAIN AdminRealm, right \in BOOLEAN : LogonForm(c, name, right)
          \/ \E r \in Optional : LookForm(c, r)
          \/ \E del, add \in Name : OauthForm(c, del, add)
          \/ \E kind \in Kinds, r, delRealm, addRealm \in Optional, del, add \in Name, right \in BOOLEAN :
               RecordsForm(c, kind, r, del, delRealm, add, addRealm, right)
          \/ \E r, addRealm \in Optional, del, add \in Name : OriginsForm(c, r, del, add, addRealm)
          \/ \E param \in BOOLEAN, delRealm, addRealm \in Optional, del, add \in Name :
               UpdateForm(c, param, del, delRealm, add, addRealm)
    BY <1>2 DEF AdminNext
  <2> QED BY <2>1, OtherFormsKeep, RecordsFormKeeps, OriginsFormKeeps, UpdateFormKeeps
<1> QED BY <1>1, <1>2

(* For any connections, realms, accounts and records: an administrator sees   *)
(* and changes nothing outside the realm given at logon, which no form        *)
(* changes, and who is not logged on sees and changes nothing (the forms of   *)
(* turn_admin_server.c).                                                      *)
THEOREM AdministratorsAlwaysConfined ==
  ASSUME AdminAssumption
  PROVE  AdminSpec => AdministratorConfined
<1>1. AdminInit => AdminInv
  BY AdminStart
<1>2. AdminInv /\ [AdminNext]_adminVars => AdminInv' /\ [Confined /\ RealmKept]_adminVars
  BY AdminStep DEF AdminStepOK
<1>3. AdminInv => AdminTypeOK /\ PageConfined
  BY DEF AdminInv
<1> QED BY <1>1, <1>2, <1>3, PTL DEF AdminSpec, AdministratorConfined
=============================================================================
