---------------------------- MODULE SessionProofs ---------------------------
(* SessionsAccounted of TurnSession for every value of its constants with one *)
(* realm.                                                                     *)
(*                                                                            *)
(* The operations are functions of the server's state, and so are the parts   *)
(* of the account (Quotas, Bandwidth, Homes, and Proper of each session):     *)
(* each operation keeps Accounts of whatever state it is given, and a handler *)
(* is a chain of them.                                                        *)
EXTENDS TurnSession, FiniteSetsExt, FiniteSetTheorems, SequenceTheorems, NaturalsInduction,
        WellFoundedInduction, TLAPS

(* The least of a set of natural numbers.                                     *)
LEMMA LeastIs ==
  ASSUME NEW S \in SUBSET Nat, S # {}
  PROVE  Min(S) \in S /\ \A y \in S : Min(S) <= y
<1> DEFINE R == OpToRel(<, Nat)
<1>1. IsWellFoundedOn(R, Nat)
  BY NatLessThanWellFounded
<1>2. \A x, y \in Nat : y < x => <<y, x>> \in R
  BY DEF OpToRel
<1> HIDE DEF R
<1>3. PICK x \in S : \A y \in S : ~(<<y, x>> \in R)
  BY <1>1, WFMin
<1>4. \A y \in S : x <= y
  <2> TAKE y \in S
  <2>1. x \in Nat /\ y \in Nat
    OBVIOUS
  <2>2. ~(y < x)
    BY <1>2, <1>3, <2>1, Zenon
  <2> QED BY <2>1, <2>2
<1> QED BY <1>4 DEF Min

-----------------------------------------------------------------------------
(* The sessions of a server with one realm.                                   *)

(* All sessions are of one realm.                                             *)
OneRealm == \A r, q \in Realm : r = q

(* h[n] is the sum of the first n values of w.                                *)
Sums(h, w, k) == h = [n \in 0 .. k |-> IF n = 0 THEN 0 ELSE h[n - 1] + w[n]]

(* Sums of n values go on to sums of n + 1.                                   *)
LEMMA SumsGrow ==
  ASSUME NEW b \in Nat, NEW w \in [1 .. b + 1 -> Nat], NEW f \in [0 .. b -> Nat], Sums(f, w, b)
  PROVE  \E h \in [0 .. b + 1 -> Nat] : Sums(h, w, b + 1)
<1> DEFINE g == [n \in 0 .. b + 1 |-> IF n = 0 THEN 0 ELSE f[n - 1] + w[n]]
<1>1. \A n \in 0 .. b + 1 : n # 0 => n - 1 \in 0 .. b /\ n \in 1 .. b + 1
  OBVIOUS
<1>2. f = [n \in 0 .. b |-> IF n = 0 THEN 0 ELSE f[n - 1] + w[n]]
  BY DEF Sums
<1>3. \A n \in 0 .. b : f[n] = g[n]
  <2> TAKE n \in 0 .. b
  <2>1. n \in 0 .. b + 1
    OBVIOUS
  <2>2. f[n] = IF n = 0 THEN 0 ELSE f[n - 1] + w[n]
    BY <1>2
  <2>3. g[n] = IF n = 0 THEN 0 ELSE f[n - 1] + w[n]
    BY <2>1
  <2> QED BY <2>2, <2>3
<1>4. g \in [0 .. b + 1 -> Nat]
  BY <1>1
<1>5. g = [n \in 0 .. b + 1 |-> IF n = 0 THEN 0 ELSE g[n - 1] + w[n]]
  <2>1. \A n \in 0 .. b + 1 : g[n] = IF n = 0 THEN 0 ELSE g[n - 1] + w[n]
    <3> TAKE n \in 0 .. b + 1
    <3>1. g[n] = IF n = 0 THEN 0 ELSE f[n - 1] + w[n]
      OBVIOUS
    <3>2. n # 0 => f[n - 1] = g[n - 1]
      <4> HIDE DEF g
      <4> QED BY <1>1, <1>3
    <3> HIDE DEF g
    <3> QED BY <3>1, <3>2
  <2>2. DOMAIN g = 0 .. b + 1
    OBVIOUS
  <2>3. g = [n \in 0 .. b + 1 |-> g[n]]
    OBVIOUS
  <2> HIDE DEF g
  <2> QED BY <2>1, <2>3
<1> HIDE DEF g
<1>6. Sums(g, w, b + 1)
  BY <1>5 DEF Sums
<1> QED BY <1>4, <1>6

(* There are sums of any number of values.                                    *)
LEMMA SumsExist ==
  ASSUME NEW k \in Nat, NEW w \in [1 .. k -> Nat]
  PROVE  \E h \in [0 .. k -> Nat] : Sums(h, w, k)
<1> DEFINE Has(n) == \E h \in [0 .. n -> Nat] : Sums(h, w, n)
           Bad == {n \in 0 .. k : ~Has(n)}
<1>1. Bad \in SUBSET Nat
  <2> HIDE DEF Has
  <2> QED OBVIOUS
<1>2. Has(0)
  <2>1. PICK e : e = [n \in 0 .. 0 |-> 0]
    OBVIOUS
  <2>2. e \in [0 .. 0 -> Nat]
    BY <2>1
  <2>3. e = [n \in 0 .. 0 |-> IF n = 0 THEN 0 ELSE e[n - 1] + w[n]]
    BY <2>1
  <2> QED BY <2>2, <2>3 DEF Sums
<1>3. ASSUME NEW b \in 0 .. k, b + 1 \in 0 .. k, Has(b) PROVE Has(b + 1)
  <2>1. PICK f \in [0 .. b -> Nat] : Sums(f, w, b)
    BY <1>3
  <2>2. PICK v : v = [n \in 1 .. b + 1 |-> w[n]]
    OBVIOUS
  <2>3. v \in [1 .. b + 1 -> Nat]
    BY <1>3, <2>2
  <2>4. \A h, n : n \in 0 .. b + 1 => (Sums(h, w, n) <=> Sums(h, v, n))
    <3> SUFFICES ASSUME NEW h, NEW n \in 0 .. b + 1 PROVE Sums(h, w, n) <=> Sums(h, v, n)
      OBVIOUS
    <3>1. \A i \in 0 .. n : i # 0 => w[i] = v[i]
      BY <2>2
    <3>2. [i \in 0 .. n |-> IF i = 0 THEN 0 ELSE h[i - 1] + w[i]]
          = [i \in 0 .. n |-> IF i = 0 THEN 0 ELSE h[i - 1] + v[i]]
      BY <3>1
    <3> QED BY <3>2 DEF Sums
  <2>5. b \in Nat /\ b \in 0 .. b + 1 /\ b + 1 \in 0 .. b + 1
    OBVIOUS
  <2>6. Sums(f, v, b)
    BY <2>1, <2>4, <2>5
  <2>7. \E h \in [0 .. b + 1 -> Nat] : Sums(h, v, b + 1)
    BY <2>1, <2>3, <2>5, <2>6, SumsGrow
  <2> QED BY <2>4, <2>5, <2>7
<1>4. Bad = {}
  <2> HIDE DEF Has
  <2> SUFFICES ASSUME Bad # {} PROVE FALSE
    OBVIOUS
  <2>1. PICK b \in Bad : \A y \in Bad : b <= y
    <3> HIDE DEF Bad
    <3> QED BY <1>1, LeastIs
  <2>2. b \in 0 .. k /\ ~Has(b)
    BY <2>1
  <2>3. b # 0
    BY <1>2, <2>2
  <2>4. b - 1 \in 0 .. k /\ (b - 1) + 1 = b /\ ~(b <= b - 1)
    BY <2>2, <2>3
  <2>5. Has(b - 1)
    BY <2>1, <2>4
  <2>6. PICK c : c = b - 1
    OBVIOUS
  <2>7. c \in 0 .. k /\ c + 1 = b /\ Has(c)
    BY <2>4, <2>5, <2>6
  <2>8. Has(c + 1)
    BY <1>3, <2>2, <2>7
  <2> QED BY <2>2, <2>7, <2>8
<1>5. k \in 0 .. k
  OBVIOUS
<1>6. Has(k)
  <2> HIDE DEF Has
  <2> QED BY <1>4, <1>5
<1> QED BY <1>6

(* From place a to place m, w and v are the same.                             *)
Agree(w, v, a, m) == \A n \in a .. m : w[n] = v[n]

(* Sums of the same values are the same.                                      *)
LEMMA SumsAgree ==
  ASSUME NEW k \in Nat, NEW l \in Nat, NEW w, NEW v, NEW g, NEW h, Sums(g, w, k), Sums(h, v, l),
         NEW m \in Nat, m <= k, m <= l, Agree(w, v, 1, m)
  PROVE  Agree(g, h, 0, m)
<1> USE DEF Agree
<1> DEFINE Bad == {n \in 0 .. m : g[n] # h[n]}
<1>1. Bad \in SUBSET Nat
  OBVIOUS
<1> SUFFICES ASSUME Bad # {} PROVE FALSE
  OBVIOUS
<1>2. PICK b \in Bad : \A y \in Bad : b <= y
  <2> HIDE DEF Bad
  <2> QED BY <1>1, LeastIs
<1>3. g[0] = 0 /\ h[0] = 0 /\ \A n \in 1 .. m : g[n] = g[n - 1] + w[n] /\ h[n] = h[n - 1] + v[n]
  BY DEF Sums
<1>4. b \in 1 .. m
  BY <1>2, <1>3
<1>5. b - 1 \in 0 .. m /\ b - 1 \notin Bad
  BY <1>2, <1>4
<1>6. g[b - 1] = h[b - 1]
  BY <1>5
<1> QED BY <1>2, <1>3, <1>4, <1>6

(* Only at place i of k, w and v may differ.                                  *)
AgreeBut(w, v, i, k) == \A n \in 1 .. k : n # i => w[n] = v[n]

(* Another value at one place changes the sum by the difference.              *)
LEMMA SumsChange ==
  ASSUME NEW k \in Nat, NEW w \in [1 .. k -> Nat], NEW v \in [1 .. k -> Nat],
         NEW g \in [0 .. k -> Nat], NEW h \in [0 .. k -> Nat], Sums(g, w, k), Sums(h, v, k),
         NEW i \in 1 .. k, AgreeBut(w, v, i, k)
  PROVE  g[k] >= w[i] /\ h[k] = (g[k] - w[i]) + v[i]
<1> USE DEF AgreeBut
<1>1. g[0] = 0 /\ h[0] = 0 /\ \A n \in 1 .. k : g[n] = g[n - 1] + w[n] /\ h[n] = h[n - 1] + v[n]
  BY DEF Sums
<1>2. \A n \in 0 .. i - 1 : g[n] = h[n]
  <2>1. i - 1 \in Nat /\ i - 1 <= k /\ \A n \in 1 .. i - 1 : w[n] = v[n]
    OBVIOUS
  <2>2. PICK m : m = i - 1
    OBVIOUS
  <2>3. m \in Nat /\ m <= k /\ \A n \in 1 .. m : w[n] = v[n]
    BY <2>1, <2>2
  <2>4. \A n \in 0 .. m : g[n] = h[n]
    <3>1. Agree(w, v, 1, m)
      BY <2>3 DEF Agree
    <3>2. Agree(g, h, 0, m)
      BY <2>3, <3>1, SumsAgree
    <3> QED BY <3>2 DEF Agree
  <2> QED BY <2>2, <2>4
<1>3. g[i] >= w[i] /\ h[i] = (g[i] - w[i]) + v[i]
  <2>1. g[i - 1] = h[i - 1] /\ g[i - 1] \in Nat /\ w[i] \in Nat /\ v[i] \in Nat
    BY <1>2
  <2> QED BY <1>1, <2>1
<1> DEFINE Moves(n) == g[n] >= w[i] /\ h[n] = (g[n] - w[i]) + v[i]
           Bad == {n \in i .. k : ~Moves(n)}
<1>4. Bad \in SUBSET Nat
  <2> HIDE DEF Moves
  <2> QED OBVIOUS
<1>5. ASSUME NEW c \in i .. k, c + 1 \in i .. k, Moves(c) PROVE Moves(c + 1)
  <2>1. c + 1 \in 1 .. k /\ c \in 0 .. k /\ (c + 1) - 1 = c /\ c + 1 # i
    BY <1>5
  <2>2. /\ g[c + 1] = g[c] + w[c + 1] /\ h[c + 1] = h[c] + v[c + 1] /\ w[c + 1] = v[c + 1]
        /\ g[c] \in Nat /\ h[c] \in Nat /\ w[c + 1] \in Nat /\ v[i] \in Nat /\ w[i] \in Nat
    BY <1>1, <2>1
  <2>3. g[c] >= w[i] /\ h[c] = (g[c] - w[i]) + v[i]
    BY <1>5
  <2>4. PICK x : x = c + 1
    OBVIOUS
  <2>6. /\ g[x] = g[c] + w[x] /\ h[x] = h[c] + v[x] /\ w[x] = v[x]
        /\ g[c] \in Nat /\ h[c] \in Nat /\ w[x] \in Nat /\ v[i] \in Nat /\ w[i] \in Nat
    BY <2>2, <2>4
  <2>7. \A p, q, d, e, f \in Nat : p >= e /\ q = (p - e) + f => p + d >= e /\ q + d = ((p + d) - e) + f
    OBVIOUS
  <2>5. g[x] >= w[i] /\ h[x] = (g[x] - w[i]) + v[i]
    BY <2>3, <2>6, <2>7
  <2> QED BY <2>4, <2>5
<1>6. Moves(i)
  BY <1>3
<1>7. Bad = {}
  <2> HIDE DEF Moves
  <2> SUFFICES ASSUME Bad # {} PROVE FALSE
    OBVIOUS
  <2>1. PICK b \in Bad : \A y \in Bad : b <= y
    <3> HIDE DEF Bad
    <3> QED BY <1>4, LeastIs
  <2>2. b \in i .. k /\ ~Moves(b)
    BY <2>1
  <2>3. b # i
    BY <1>6, <2>2
  <2>4. b - 1 \in i .. k /\ (b - 1) + 1 = b /\ ~(b <= b - 1)
    BY <2>2, <2>3
  <2>5. Moves(b - 1)
    BY <2>1, <2>4
  <2>6. PICK c : c = b - 1
    OBVIOUS
  <2>7. c \in i .. k /\ c + 1 = b /\ Moves(c)
    BY <2>4, <2>5, <2>6
  <2>8. Moves(c + 1)
    BY <1>5, <2>2, <2>7
  <2> QED BY <2>2, <2>7, <2>8
<1>8. k \in i .. k
  OBVIOUS
<1>9. Moves(k)
  <2> HIDE DEF Moves
  <2> QED BY <1>7, <1>8
<1> QED BY <1>9

(* A session and a server by their fields.                                    *)
SessionRecord ==
  [live : BOOLEAN, client : {"open", "none"}, valid : BOOLEAN, relay : SUBSET Family, timer : SUBSET Family,
   mobile : BOOLEAN, mid : Ticket \cup {0}, quota : BOOLEAN, bps : Nat, user : User \cup {NoUser},
   realm : Realm, key : BOOLEAN, watchdog : BOOLEAN]

Server ==
  [ss : Seq(SessionRecord), mobile_map : [Ticket -> Nat], alloc_counters : [Realm -> [User -> Nat]],
   total : [Realm -> Nat], bps : Nat]

(* Session s is now y, and no other session changed.                          *)
At(ss, ss2, s, y) ==
  /\ ss2 \in Seq(SessionRecord) /\ Len(ss2) = Len(ss) /\ DOMAIN ss2 = DOMAIN ss
  /\ ss2[s] = y
  /\ \A q \in DOMAIN ss : q # s => ss2[q] = ss[q]

(* What EXCEPT does to the sessions.                                          *)
LEMMA SessionReplaced ==
  ASSUME NEW ss \in Seq(SessionRecord), NEW s \in DOMAIN ss, NEW y \in SessionRecord
  PROVE  At(ss, [ss EXCEPT ![s] = y], s, y)
<1>1. PICK T : T = SessionRecord
  OBVIOUS
<1>2. ss \in Seq(T) /\ y \in T
  BY <1>1
<1>3. PICK ss2 : ss2 = [ss EXCEPT ![s] = y]
  OBVIOUS
<1>4. ss2 \in Seq(T) /\ Len(ss2) = Len(ss) /\ DOMAIN ss2 = DOMAIN ss /\ ss2[s] = y
  BY <1>2, <1>3
<1>5. \A q \in DOMAIN ss : q # s => ss2[q] = ss[q]
  BY <1>2, <1>3
<1> QED BY <1>1, <1>3, <1>4, <1>5 DEF At

(* The sessions that are counted for user u, and for everyone, in realm r.    *)
Own(ss, u, r) ==
  {s \in {q \in DOMAIN ss : ss[q].live} : ss[s].quota /\ ss[s].user = u /\ ss[s].realm = r}
Everyone(ss, r) == {s \in {q \in DOMAIN ss : ss[q].live} : ss[s].quota /\ ss[s].realm = r}

(* They are finitely many.                                                    *)
LEMMA CountedFinite ==
  ASSUME NEW ss \in Seq(SessionRecord), NEW u, NEW r
  PROVE  /\ IsFiniteSet(Own(ss, u, r)) /\ IsFiniteSet(Everyone(ss, r))
         /\ Cardinality(Own(ss, u, r)) \in 0 .. Len(ss) /\ Cardinality(Everyone(ss, r)) \in 0 .. Len(ss)
<1>1. PICK T : T = SessionRecord
  OBVIOUS
<1>2. ss \in Seq(T)
  BY <1>1
<1>3. DOMAIN ss = 1 .. Len(ss) /\ Len(ss) \in Nat
  BY <1>2
<1>4. IsFiniteSet(1 .. Len(ss)) /\ Cardinality(1 .. Len(ss)) = Len(ss)
  BY <1>3, FS_Interval
<1>5. Own(ss, u, r) \in SUBSET (1 .. Len(ss)) /\ Everyone(ss, r) \in SUBSET (1 .. Len(ss))
  BY <1>3 DEF Own, Everyone
<1>6. ASSUME NEW S \in SUBSET (1 .. Len(ss)) PROVE IsFiniteSet(S) /\ Cardinality(S) \in 0 .. Len(ss)
  <2>1. IsFiniteSet(S) /\ Cardinality(S) <= Cardinality(1 .. Len(ss))
    BY <1>4, FS_Subset
  <2>2. Cardinality(S) \in Nat
    BY <2>1, FS_CardinalityType
  <2> QED BY <1>3, <1>4, <2>1, <2>2
<1> QED BY <1>5, <1>6

(* A session whose account is the same leaves the counted ones as they are.   *)
LEMMA CountedKept ==
  ASSUME NEW ss \in Seq(SessionRecord), NEW s \in DOMAIN ss, NEW y, NEW ss2, At(ss, ss2, s, y),
         y.live /\ y.quota <=> ss[s].live /\ ss[s].quota, y.realm = ss[s].realm,
         y.quota => y.user = ss[s].user, NEW u, NEW r
  PROVE  Own(ss2, u, r) = Own(ss, u, r) /\ Everyone(ss2, r) = Everyone(ss, r)
<1>1. DOMAIN ss2 = DOMAIN ss
  BY DEF At
<1>2. ASSUME NEW q \in DOMAIN ss
      PROVE  /\ ss2[q].live /\ ss2[q].quota /\ ss2[q].realm = r <=> ss[q].live /\ ss[q].quota /\ ss[q].realm = r
             /\ ss2[q].live /\ ss2[q].quota => ss2[q].user = ss[q].user
  <2>1. CASE q = s
    BY <2>1, Zenon DEF At
  <2>2. CASE q # s
    BY <2>2, Zenon DEF At
  <2> QED BY <2>1, <2>2
<1>3. Everyone(ss2, r) = Everyone(ss, r)
  BY <1>1, <1>2, Zenon DEF Everyone
<1>4. Own(ss2, u, r) = Own(ss, u, r)
  BY <1>1, <1>2, Zenon DEF Own
<1> QED BY <1>3, <1>4

(* There is one counted session more in ss2 than in ss, of user u.            *)
OneMore(ss, ss2, u, r) ==
  /\ Cardinality(Everyone(ss2, r)) = Cardinality(Everyone(ss, r)) + 1
  /\ Cardinality(Own(ss2, u, r)) = Cardinality(Own(ss, u, r)) + 1
  /\ \A v : v # u => Own(ss2, v, r) = Own(ss, v, r)

(* A session that begins to be counted.                                       *)
LEMMA CountedMore ==
  ASSUME NEW ss \in Seq(SessionRecord), NEW s \in DOMAIN ss, NEW y, NEW ss2, At(ss, ss2, s, y),
         ~ss[s].quota, y.live, y.quota, NEW r, y.realm = r
  PROVE  OneMore(ss, ss2, y.user, r)
<1>1. DOMAIN ss2 = DOMAIN ss /\ ss2[s] = y /\ \A q \in DOMAIN ss : q # s => ss2[q] = ss[q]
  BY DEF At
<1>2. Everyone(ss2, r) = Everyone(ss, r) \cup {s} /\ s \notin Everyone(ss, r)
  BY <1>1, Zenon DEF Everyone
<1>3. Own(ss2, y.user, r) = Own(ss, y.user, r) \cup {s} /\ s \notin Own(ss, y.user, r)
  BY <1>1, Zenon DEF Own
<1>4. ASSUME NEW u, u # y.user PROVE Own(ss2, u, r) = Own(ss, u, r)
  BY <1>1, <1>4, Zenon DEF Own
<1>5. IsFiniteSet(Own(ss, y.user, r)) /\ IsFiniteSet(Everyone(ss, r))
  BY CountedFinite
<1>6. Cardinality(Everyone(ss2, r)) = Cardinality(Everyone(ss, r)) + 1
  BY <1>2, <1>5, FS_AddElement
<1>7. Cardinality(Own(ss2, y.user, r)) = Cardinality(Own(ss, y.user, r)) + 1
  BY <1>3, <1>5, FS_AddElement
<1> QED BY <1>4, <1>6, <1>7 DEF OneMore

(* A session that is no longer counted.                                       *)
LEMMA CountedLess ==
  ASSUME NEW ss \in Seq(SessionRecord), NEW s \in DOMAIN ss, NEW y, NEW ss2, At(ss, ss2, s, y),
         ss[s].live, ss[s].quota, ~y.quota, NEW r, ss[s].realm = r
  PROVE  OneMore(ss2, ss, ss[s].user, r)
<1>1. DOMAIN ss2 = DOMAIN ss /\ ss2[s] = y /\ \A q \in DOMAIN ss : q # s => ss2[q] = ss[q]
  BY DEF At
<1>0. ss2 \in Seq(SessionRecord)
  BY DEF At
<1>2. Everyone(ss, r) = Everyone(ss2, r) \cup {s} /\ s \notin Everyone(ss2, r)
  BY <1>1, Zenon DEF Everyone
<1>3. Own(ss, ss[s].user, r) = Own(ss2, ss[s].user, r) \cup {s} /\ s \notin Own(ss2, ss[s].user, r)
  BY <1>1, Zenon DEF Own
<1>4. ASSUME NEW u, u # ss[s].user PROVE Own(ss2, u, r) = Own(ss, u, r)
  BY <1>1, <1>4, Zenon DEF Own
<1>5. IsFiniteSet(Own(ss2, ss[s].user, r)) /\ IsFiniteSet(Everyone(ss2, r))
  BY <1>0, CountedFinite
<1>6. Cardinality(Everyone(ss, r)) = Cardinality(Everyone(ss2, r)) + 1
  BY <1>2, <1>5, FS_AddElement
<1>7. Cardinality(Own(ss, ss[s].user, r)) = Cardinality(Own(ss2, ss[s].user, r)) + 1
  BY <1>3, <1>5, FS_AddElement
<1> QED BY <1>4, <1>6, <1>7 DEF OneMore

(* What the sessions hold, as a sum.                                          *)
LEMMA HeldIsSum ==
  ASSUME NEW ss \in Seq(SessionRecord), NEW w \in [1 .. Len(ss) -> Nat], NEW k \in Nat, k = Len(ss),
         \A n \in 1 .. k : w[n] = ss[n].bps
  PROVE  \E h \in [0 .. k -> Nat] : Sums(h, w, k) /\ BpsHeld(ss) = h[k]
<1>1. PICK h \in [0 .. k -> Nat] : Sums(h, w, k)
  BY SumsExist
<1>2. \A n \in 0 .. k : n # 0 => w[n] = ss[n].bps
  OBVIOUS
<1>3. h = [n \in 0 .. k |-> IF n = 0 THEN 0 ELSE h[n - 1] + ss[n].bps]
  <2>1. h = [n \in 0 .. k |-> IF n = 0 THEN 0 ELSE h[n - 1] + w[n]]
    BY <1>1 DEF Sums
  <2>2. [n \in 0 .. k |-> IF n = 0 THEN 0 ELSE h[n - 1] + w[n]]
        = [n \in 0 .. k |-> IF n = 0 THEN 0 ELSE h[n - 1] + ss[n].bps]
    BY <1>2
  <2> QED BY <2>1, <2>2
<1> DEFINE Is(g) == g = [n \in 0 .. Len(ss) |-> IF n = 0 THEN 0 ELSE g[n - 1] + ss[n].bps]
<1>4. Is(h)
  BY <1>3
<1>5. PICK c : c = CHOOSE g : Is(g)
  OBVIOUS
<1>6. Is(c)
  <2> HIDE DEF Is
  <2> QED BY <1>4, <1>5, Zenon
<1>7. BpsHeld(ss) = c[Len(ss)]
  BY <1>5, Zenon DEF BpsHeld
<1>8. Sums(c, w, k)
  <2>1. c = [n \in 0 .. k |-> IF n = 0 THEN 0 ELSE c[n - 1] + ss[n].bps]
    BY <1>6
  <2>2. [n \in 0 .. k |-> IF n = 0 THEN 0 ELSE c[n - 1] + w[n]]
        = [n \in 0 .. k |-> IF n = 0 THEN 0 ELSE c[n - 1] + ss[n].bps]
    BY <1>2
  <2> QED BY <2>1, <2>2 DEF Sums
<1>9. Agree(w, w, 1, k) /\ k <= k
  BY DEF Agree
<1>10. Agree(c, h, 0, k)
  BY <1>1, <1>8, <1>9, SumsAgree
<1>11. c[k] = h[k]
  BY <1>10 DEF Agree
<1> QED BY <1>1, <1>7, <1>11

(* When one session holds more or less, so do all together.                   *)
LEMMA HeldChanges ==
  ASSUME NEW ss \in Seq(SessionRecord), NEW s \in DOMAIN ss, NEW y, NEW ss2, At(ss, ss2, s, y)
  PROVE  /\ BpsHeld(ss) \in Nat /\ BpsHeld(ss) >= ss[s].bps
         /\ BpsHeld(ss2) = (BpsHeld(ss) - ss[s].bps) + y.bps
<1>1. PICK k : k = Len(ss)
  OBVIOUS
<1>2. PICK T : T = SessionRecord
  OBVIOUS
<1>3. ss \in Seq(T) /\ ss2 \in Seq(T) /\ Len(ss2) = k /\ k \in Nat /\ DOMAIN ss = 1 .. k
  BY <1>1, <1>2 DEF At
<1>4. \A n \in 1 .. k : ss[n] \in T /\ ss2[n] \in T
  BY <1>1, <1>3
<1>5. \A t \in T : t.bps \in Nat
  BY <1>2 DEF SessionRecord
<1>6. PICK w : w = [n \in 1 .. k |-> ss[n].bps]
  OBVIOUS
<1>7. PICK v : v = [n \in 1 .. k |-> ss2[n].bps]
  OBVIOUS
<1>8. /\ w \in [1 .. k -> Nat] /\ \A n \in 1 .. k : w[n] = ss[n].bps
      /\ v \in [1 .. k -> Nat] /\ \A n \in 1 .. k : v[n] = ss2[n].bps
  BY <1>4, <1>5, <1>6, <1>7
<1>9. PICK g \in [0 .. k -> Nat] : Sums(g, w, k) /\ BpsHeld(ss) = g[k]
  BY <1>1, <1>3, <1>8, HeldIsSum
<1>10. ss2 \in Seq(SessionRecord) /\ k = Len(ss2)
  BY <1>3 DEF At
<1>11. PICK h \in [0 .. k -> Nat] : Sums(h, v, k) /\ BpsHeld(ss2) = h[k]
  BY <1>10, <1>3, <1>8, HeldIsSum
<1>12. AgreeBut(w, v, s, k) /\ s \in 1 .. k
  BY <1>3, <1>8 DEF At, AgreeBut
<1>13. g[k] >= w[s] /\ h[k] = (g[k] - w[s]) + v[s]
  <2>1. k \in Nat /\ w \in [1 .. k -> Nat] /\ v \in [1 .. k -> Nat] /\ Sums(g, w, k) /\ Sums(h, v, k)
    BY <1>3, <1>8, <1>9, <1>11
  <2> QED BY <1>12, <2>1, SumsChange, Zenon
<1>14. w[s] = ss[s].bps /\ v[s] = y.bps /\ g[k] \in Nat
  BY <1>3, <1>8 DEF At
<1> QED BY <1>9, <1>11, <1>13, <1>14

(* A new session holds nothing.                                               *)
LEMMA HeldByNew ==
  ASSUME NEW ss \in Seq(SessionRecord), NEW y \in SessionRecord, y.bps = 0
  PROVE  BpsHeld(Append(ss, y)) = BpsHeld(ss)
<1>1. PICK k : k = Len(ss)
  OBVIOUS
<1>2. PICK T : T = SessionRecord
  OBVIOUS
<1>3. PICK ss2 : ss2 = Append(ss, y)
  OBVIOUS
<1>4. ss \in Seq(T) /\ y \in T /\ k \in Nat
  BY <1>1, <1>2
<1>5. /\ ss2 \in Seq(T) /\ Len(ss2) = k + 1 /\ ss2[k + 1] = y
      /\ \A n \in 1 .. k : ss2[n] = ss[n]
  BY <1>1, <1>3, <1>4
<1>6. \A n \in 1 .. k + 1 : ss2[n] \in T
  BY <1>4, <1>5
<1>7. \A t \in T : t.bps \in Nat
  BY <1>2 DEF SessionRecord
<1>8. PICK w : w = [n \in 1 .. k |-> ss2[n].bps]
  OBVIOUS
<1>9. PICK v : v = [n \in 1 .. k + 1 |-> ss2[n].bps]
  OBVIOUS
<1>10. w \in [1 .. k -> Nat] /\ v \in [1 .. k + 1 -> Nat]
  <2>1. \A n \in 1 .. k : n \in 1 .. k + 1
    BY <1>4
  <2> QED BY <2>1, <1>6, <1>7, <1>8, <1>9
<1>11. \A n \in 1 .. k : w[n] = ss[n].bps
  BY <1>5, <1>8
<1>12. PICK g \in [0 .. k -> Nat] : Sums(g, w, k) /\ BpsHeld(ss) = g[k]
  BY <1>1, <1>4, <1>10, <1>11, HeldIsSum
<1>13. PICK l : l = k + 1
  OBVIOUS
<1>14. l \in Nat /\ l = Len(ss2) /\ v \in [1 .. l -> Nat] /\ \A n \in 1 .. l : v[n] = ss2[n].bps
  BY <1>4, <1>5, <1>9, <1>10, <1>13
<1>15. ss2 \in Seq(SessionRecord)
  BY <1>2, <1>5
<1>16. PICK h \in [0 .. l -> Nat] : Sums(h, v, l) /\ BpsHeld(ss2) = h[l]
  BY <1>14, <1>15, HeldIsSum
<1>17. Agree(w, v, 1, k) /\ k <= k /\ k <= l
  BY <1>4, <1>8, <1>9, <1>13 DEF Agree
<1>18. Agree(g, h, 0, k)
  BY <1>4, <1>12, <1>14, <1>16, <1>17, SumsAgree
<1>19. h[l] = h[l - 1] + v[l]
  BY <1>4, <1>13, <1>16 DEF Sums
<1>20. v[l] = 0 /\ l - 1 = k /\ h[k] \in Nat /\ h[k] = g[k]
  <2>1. l \in 1 .. l /\ k \in 0 .. l /\ l - 1 = k /\ k \in 0 .. k
    BY <1>4, <1>13
  <2>2. v[l] = 0
    BY <1>5, <1>13, <1>14, <2>1
  <2>3. h[k] \in Nat /\ h[k] = g[k]
    BY <1>16, <1>18, <2>1 DEF Agree
  <2> QED BY <2>1, <2>2, <2>3
<1> QED BY <1>3, <1>12, <1>16, <1>19, <1>20

-----------------------------------------------------------------------------
(* The account of a server: its counters, its bandwidth and its tickets are   *)
(* those of its sessions; whoever is counted or has a key is known by name,   *)
(* a mobile session has a key, and a session that ended holds nothing.        *)
Quotas(st) ==
  \A r \in Realm :
    /\ \A u \in User : st.alloc_counters[r][u] = Cardinality(Own(st.ss, u, r))
    /\ st.total[r] = Cardinality(Everyone(st.ss, r))

Bandwidth(st) == st.bps = BpsHeld(st.ss) /\ (BpsCapacity # 0 => st.bps <= BpsCapacity)

Homes(st) ==
  /\ \A t \in Ticket : st.mobile_map[t] # 0 =>
       /\ st.mobile_map[t] \in DOMAIN st.ss
       /\ st.ss[st.mobile_map[t]].live
       /\ st.ss[st.mobile_map[t]].mid = t
  /\ \A s \in DOMAIN st.ss : st.ss[s].live /\ st.ss[s].mid # 0 => st.mobile_map[st.ss[s].mid] = s

Proper(x) ==
  /\ x.quota \/ x.key => x.user \in User
  /\ x.mobile => x.key
  /\ ~x.live => x.relay = {} /\ x.timer = {} /\ ~x.watchdog /\ ~x.quota /\ x.bps = 0 /\ x.mid = 0

Accounts(st) ==
  /\ st \in Server
  /\ Quotas(st) /\ Bandwidth(st) /\ Homes(st)
  /\ \A q \in DOMAIN st.ss : Proper(st.ss[q])

(* Parts of the account that a step does not touch.                           *)
LEMMA QuotasKept ==
  ASSUME NEW st \in Server, NEW s \in DOMAIN st.ss, NEW y, NEW st2, At(st.ss, st2.ss, s, y), Quotas(st),
         y.live /\ y.quota <=> st.ss[s].live /\ st.ss[s].quota, y.realm = st.ss[s].realm,
         y.quota => y.user = st.ss[s].user, st2.alloc_counters = st.alloc_counters, st2.total = st.total
  PROVE  Quotas(st2)
<1>1. st.ss \in Seq(SessionRecord)
  BY DEF Server
<1>2. \A u, r : Own(st2.ss, u, r) = Own(st.ss, u, r) /\ Everyone(st2.ss, r) = Everyone(st.ss, r)
  BY <1>1, CountedKept, Zenon
<1>3. ASSUME NEW r \in Realm PROVE st2.total[r] = Cardinality(Everyone(st2.ss, r))
  BY <1>2 DEF Quotas
<1>4. ASSUME NEW r \in Realm, NEW u \in User PROVE st2.alloc_counters[r][u] = Cardinality(Own(st2.ss, u, r))
  BY <1>2 DEF Quotas
<1> QED BY <1>3, <1>4 DEF Quotas

LEMMA BandwidthKept ==
  ASSUME NEW st \in Server, NEW s \in DOMAIN st.ss, NEW y, NEW st2, At(st.ss, st2.ss, s, y), Bandwidth(st),
         y.bps = st.ss[s].bps, st2.bps = st.bps
  PROVE  Bandwidth(st2)
<1>1. st.ss \in Seq(SessionRecord)
  BY DEF Server
<1>2. PICK x : x = st.ss[s]
  OBVIOUS
<1>3. x \in SessionRecord
  <2>1. PICK T : T = SessionRecord
    OBVIOUS
  <2> QED BY <1>1, <1>2, <2>1
<1>4. x.bps \in Nat
  BY <1>3 DEF SessionRecord
<1>5. /\ BpsHeld(st.ss) \in Nat /\ BpsHeld(st.ss) >= x.bps
      /\ BpsHeld(st2.ss) = (BpsHeld(st.ss) - x.bps) + y.bps
  BY <1>1, <1>2, HeldChanges
<1>6. BpsHeld(st2.ss) = BpsHeld(st.ss)
  BY <1>2, <1>4, <1>5
<1> QED BY <1>6 DEF Bandwidth

LEMMA HomesKept ==
  ASSUME NEW st \in Server, NEW s \in DOMAIN st.ss, NEW y, NEW st2, At(st.ss, st2.ss, s, y), Homes(st),
         (y.live <=> st.ss[s].live) \/ y.mid = 0, y.mid = st.ss[s].mid, st2.mobile_map = st.mobile_map
  PROVE  Homes(st2)
<1>1. DOMAIN st2.ss = DOMAIN st.ss
  BY DEF At
<1>2. \A q \in DOMAIN st.ss : /\ st2.ss[q].mid = st.ss[q].mid
                              /\ st.ss[q].mid # 0 => (st2.ss[q].live <=> st.ss[q].live)
  BY Zenon DEF At
<1>3. ASSUME NEW t \in Ticket, st2.mobile_map[t] # 0
      PROVE  /\ st2.mobile_map[t] \in DOMAIN st2.ss /\ st2.ss[st2.mobile_map[t]].live
             /\ st2.ss[st2.mobile_map[t]].mid = t
  <2>1. /\ st.mobile_map[t] \in DOMAIN st.ss /\ st.ss[st.mobile_map[t]].live
        /\ st.ss[st.mobile_map[t]].mid = t
    BY <1>3 DEF Homes
  <2>2. t # 0
    BY SessionAssumed DEF SessionAssumption
  <2>3. PICK p : p = st.mobile_map[t]
    OBVIOUS
  <2>4. p \in DOMAIN st.ss /\ st.ss[p].live /\ st.ss[p].mid = t /\ st2.mobile_map[t] = p
    BY <2>1, <2>3
  <2>5. st2.ss[p].mid = t /\ st2.ss[p].live
    <3>1. st2.ss[p].mid = st.ss[p].mid
      BY <1>2, <2>4
    <3>2. st.ss[p].mid # 0 => (st2.ss[p].live <=> st.ss[p].live)
      BY <1>2, <2>4, Zenon
    <3> QED BY <2>2, <2>4, <3>1, <3>2, Zenon
  <2> QED BY <1>1, <2>4, <2>5
<1>4. ASSUME NEW q \in DOMAIN st2.ss, st2.ss[q].live, st2.ss[q].mid # 0 PROVE st2.mobile_map[st2.ss[q].mid] = q
  <2>3. q \in DOMAIN st.ss
    BY <1>1
  <2>5. st2.ss[q].mid = st.ss[q].mid
    BY <1>2, <2>3
  <2>6. st.ss[q].mid # 0 => (st2.ss[q].live <=> st.ss[q].live)
    BY <1>2, <2>3, Zenon
  <2>7. st.ss[q].mid # 0
    BY <1>4, <2>5
  <2>4. st2.ss[q].mid = st.ss[q].mid /\ (st2.ss[q].live <=> st.ss[q].live)
    BY <2>5, <2>6, <2>7, Zenon
  <2>1. st.ss[q].live /\ st.ss[q].mid # 0 /\ q \in DOMAIN st.ss /\ st2.ss[q].mid = st.ss[q].mid
    BY <1>4, <2>3, <2>4
  <2>2. st.mobile_map[st.ss[q].mid] = q
    BY <2>1, Zenon DEF Homes
  <2> QED BY <2>1, <2>2
<1> QED BY <1>3, <1>4, Zenon DEF Homes

(* The account of a server in which one session changed, by its parts.        *)
LEMMA AccountsOf ==
  ASSUME NEW st, Accounts(st), NEW s \in DOMAIN st.ss, NEW y \in SessionRecord, Proper(y),
         NEW st2 \in Server, At(st.ss, st2.ss, s, y), Quotas(st2), Bandwidth(st2), Homes(st2)
  PROVE  Accounts(st2)
<1>1. \A q \in DOMAIN st.ss : Proper(st.ss[q])
  BY DEF Accounts
<1>2. \A q \in DOMAIN st2.ss : Proper(st2.ss[q])
  BY <1>1, Zenon DEF At
<1> QED BY <1>2 DEF Accounts

(* What a server with an account is made of.                                  *)
LEMMA ServerParts ==
  ASSUME NEW st \in Server
  PROVE  /\ st.ss \in Seq(SessionRecord) /\ st.mobile_map \in [Ticket -> Nat]
         /\ st.alloc_counters \in [Realm -> [User -> Nat]] /\ st.total \in [Realm -> Nat] /\ st.bps \in Nat
         /\ \A q \in DOMAIN st.ss : st.ss[q] \in SessionRecord
<1>1. /\ st.ss \in Seq(SessionRecord) /\ st.mobile_map \in [Ticket -> Nat]
      /\ st.alloc_counters \in [Realm -> [User -> Nat]] /\ st.total \in [Realm -> Nat] /\ st.bps \in Nat
  BY DEF Server
<1>2. \A q \in DOMAIN st.ss : st.ss[q] \in SessionRecord
  <2>1. PICK T : T = SessionRecord
    OBVIOUS
  <2> QED BY <1>1, <2>1
<1> QED BY <1>1, <1>2

(* What no accounting changes: whether a session lives and is served.         *)
Calm(st, st2) ==
  /\ DOMAIN st2.ss = DOMAIN st.ss
  /\ \A q \in DOMAIN st.ss :
       /\ st2.ss[q].live = st.ss[q].live /\ st2.ss[q].client = st.ss[q].client
       /\ st2.ss[q].valid = st.ss[q].valid /\ st2.ss[q].mobile = st.ss[q].mobile

(* Only the sessions of T changed.                                            *)
Only(st, st2, T) ==
  /\ DOMAIN st2.ss = DOMAIN st.ss /\ Len(st2.ss) = Len(st.ss)
  /\ \A q \in DOMAIN st.ss : q \notin T => st2.ss[q] = st.ss[q]

(* A session is counted no longer.                                            *)
LEMMA QuotaReturned ==
  ASSUME OneRealm, NEW st, Accounts(st), NEW s \in DOMAIN st.ss
  PROVE  /\ Accounts(dec_quota(st, s)) /\ Calm(st, dec_quota(st, s)) /\ Only(st, dec_quota(st, s), {s})
         /\ ~dec_quota(st, s).ss[s].quota
         /\ dec_quota(st, s).ss[s].key = st.ss[s].key /\ dec_quota(st, s).ss[s].bps = st.ss[s].bps
         /\ dec_quota(st, s).ss[s].mid = st.ss[s].mid
         /\ dec_quota(st, s).mobile_map = st.mobile_map
<1>0. st \in Server /\ Quotas(st) /\ Bandwidth(st) /\ Homes(st) /\ \A q \in DOMAIN st.ss : Proper(st.ss[q])
  BY DEF Accounts
<1>1. CASE ~st.ss[s].quota
  BY <1>1, Zenon DEF dec_quota, Calm, Only
<1>2. CASE st.ss[s].quota
  <2>1. PICK x : x = st.ss[s]
    OBVIOUS
  <2>2. x \in SessionRecord /\ x.quota /\ Proper(x)
    BY <1>0, <1>2, <2>1, ServerParts
  <2>3. PICK no : no = FALSE
    OBVIOUS
  <2>4. PICK y : y = [x EXCEPT !.quota = no]
    OBVIOUS
  <2>5. y \in SessionRecord
    BY <2>2, <2>3, <2>4 DEF SessionRecord
  <2>6. /\ y.quota = no /\ y.live = x.live /\ y.client = x.client /\ y.valid = x.valid /\ y.relay = x.relay
        /\ y.timer = x.timer /\ y.mobile = x.mobile /\ y.mid = x.mid /\ y.bps = x.bps /\ y.user = x.user
        /\ y.realm = x.realm /\ y.key = x.key /\ y.watchdog = x.watchdog
    BY <2>2, <2>4 DEF SessionRecord
  <2>7. Proper(y)
    BY <2>2, <2>3, <2>6, Zenon DEF Proper
  <2>8. PICK st2 : st2 = dec_quota(st, s)
    OBVIOUS
  <2>9. PICK c : c = IF st.alloc_counters[x.realm][x.user] > 0 THEN st.alloc_counters[x.realm][x.user] - 1 ELSE 0
    OBVIOUS
  <2>10. PICK n : n = IF st.total[x.realm] > 0 THEN st.total[x.realm] - 1 ELSE 0
    OBVIOUS
  <2>11. /\ st2.ss = [st.ss EXCEPT ![s] = y] /\ st2.mobile_map = st.mobile_map /\ st2.bps = st.bps
         /\ st2.alloc_counters = [st.alloc_counters EXCEPT ![x.realm][x.user] = c]
         /\ st2.total = [st.total EXCEPT ![x.realm] = n]
         /\ DOMAIN st2 = DOMAIN st
    BY <1>0, <1>2, <2>1, <2>3, <2>4, <2>8, <2>9, <2>10 DEF dec_quota, release_allocation_quota, Server
  <2>12. At(st.ss, st2.ss, s, y)
    BY <1>0, <2>5, <2>11, ServerParts, SessionReplaced
  <2>13. x.realm \in Realm /\ x.user \in User /\ c \in Nat /\ n \in Nat
    <3>1. x.realm \in Realm /\ x.user \in User
      BY <2>2 DEF SessionRecord, Proper
    <3>2. st.alloc_counters[x.realm][x.user] \in Nat /\ st.total[x.realm] \in Nat
      BY <1>0, <3>1 DEF Server
    <3> QED BY <2>9, <2>10, <3>1, <3>2
  <2>14. st2 \in Server
    <3>1. st2.ss \in Seq(SessionRecord)
      BY <2>12 DEF At
    <3>2. st2.alloc_counters \in [Realm -> [User -> Nat]] /\ st2.total \in [Realm -> Nat]
      BY <1>0, <2>11, <2>13 DEF Server
    <3>3. st2 = [ss |-> st2.ss, mobile_map |-> st2.mobile_map, alloc_counters |-> st2.alloc_counters,
                 total |-> st2.total, bps |-> st2.bps]
      BY <1>0, <2>8, <1>2 DEF dec_quota, release_allocation_quota, Server
    <3> QED BY <1>0, <2>11, <3>1, <3>2, <3>3 DEF Server
  <2>15. Bandwidth(st2)
    BY <1>0, <2>1, <2>6, <2>11, <2>12, BandwidthKept
  <2>16. Homes(st2)
    BY <1>0, <2>1, <2>6, <2>11, <2>12, HomesKept
  <2>17. st.ss[s].live /\ ~y.quota
    BY <2>1, <2>2, <2>3, <2>6, Zenon DEF Proper
  <2>18. /\ Cardinality(Everyone(st.ss, x.realm)) = Cardinality(Everyone(st2.ss, x.realm)) + 1
         /\ Cardinality(Own(st.ss, x.user, x.realm)) = Cardinality(Own(st2.ss, x.user, x.realm)) + 1
         /\ \A u : u # x.user => Own(st2.ss, u, x.realm) = Own(st.ss, u, x.realm)
    <3>1. st.ss \in Seq(SessionRecord)
      BY <1>0, ServerParts
    <3>2. st.ss[s].realm = x.realm
      BY <2>1
    <3>3. OneMore(st2.ss, st.ss, st.ss[s].user, x.realm)
      BY <1>2, <2>12, <2>17, <3>1, <3>2, CountedLess
    <3> QED BY <2>1, <3>3 DEF OneMore
  <2>19. /\ Cardinality(Everyone(st2.ss, x.realm)) \in Nat
         /\ Cardinality(Own(st2.ss, x.user, x.realm)) \in Nat
    <3>1. st2.ss \in Seq(SessionRecord) /\ Len(st2.ss) \in Nat
      BY <2>12 DEF At
    <3> QED BY <3>1, CountedFinite
  <2>20. Quotas(st2)
    <3> SUFFICES ASSUME NEW r \in Realm
                 PROVE  /\ \A u \in User : st2.alloc_counters[r][u] = Cardinality(Own(st2.ss, u, r))
                        /\ st2.total[r] = Cardinality(Everyone(st2.ss, r))
      BY DEF Quotas
    <3>1. r = x.realm
      BY <2>13 DEF OneRealm
    <3>2. st.total[r] = Cardinality(Everyone(st.ss, r)) /\ st2.total[r] = n
      BY <1>0, <2>11, <2>13, <3>1 DEF Quotas, Server
    <3>3. st2.total[r] = Cardinality(Everyone(st2.ss, r))
      BY <2>10, <2>18, <2>19, <3>1, <3>2
    <3>4. ASSUME NEW u \in User PROVE st2.alloc_counters[r][u] = Cardinality(Own(st2.ss, u, r))
      <4>1. st.alloc_counters[r][u] = Cardinality(Own(st.ss, u, r))
        BY <1>0 DEF Quotas
      <4>2. st2.alloc_counters[r][u] = IF u = x.user THEN c ELSE st.alloc_counters[r][u]
        BY <1>0, <2>11, <2>13, <3>1 DEF Server
      <4>3. CASE u = x.user
        BY <2>9, <2>18, <2>19, <3>1, <4>1, <4>2, <4>3
      <4>4. CASE u # x.user
        BY <2>18, <3>1, <4>1, <4>2, <4>4
      <4> QED BY <4>3, <4>4
    <3> QED BY <3>3, <3>4
  <2>21. Accounts(st2)
    BY <1>0, <2>5, <2>7, <2>12, <2>14, <2>15, <2>16, <2>20, AccountsOf
  <2>22. Calm(st, st2) /\ Only(st, st2, {s})
    BY <2>1, <2>6, <2>12, Zenon DEF At, Calm, Only
  <2>23. /\ ~st2.ss[s].quota /\ st2.ss[s].key = st.ss[s].key /\ st2.ss[s].bps = st.ss[s].bps
         /\ st2.ss[s].mid = st.ss[s].mid
    BY <2>1, <2>3, <2>6, <2>12, Zenon DEF At
  <2> QED BY <2>8, <2>11, <2>21, <2>22, <2>23
<1> QED BY <1>1, <1>2

(* A session is counted, if the quotas allow it.                              *)
LEMMA QuotaTaken ==
  ASSUME OneRealm, NEW st, Accounts(st), NEW s \in DOMAIN st.ss, st.ss[s].live, NEW u \in User
  PROVE  /\ Accounts(inc_quota(st, s, u)) /\ Calm(st, inc_quota(st, s, u)) /\ Only(st, inc_quota(st, s, u), {s})
         /\ InQuota(st, s, u) => inc_quota(st, s, u).ss[s].quota
         /\ inc_quota(st, s, u).ss[s].key = st.ss[s].key /\ inc_quota(st, s, u).ss[s].bps = st.ss[s].bps
         /\ inc_quota(st, s, u).ss[s].mid = st.ss[s].mid
         /\ inc_quota(st, s, u).mobile_map = st.mobile_map
<1>0. st \in Server /\ Quotas(st) /\ Bandwidth(st) /\ Homes(st) /\ \A q \in DOMAIN st.ss : Proper(st.ss[q])
  BY DEF Accounts
<1>1. CASE st.ss[s].quota \/ ~InQuota(st, s, u)
  <2>1. inc_quota(st, s, u) = st
    BY <1>1, Zenon DEF inc_quota
  <2>2. InQuota(st, s, u) => st.ss[s].quota
    BY <1>1, Zenon
  <2> QED BY <2>1, <2>2, Zenon DEF Calm, Only
<1>2. CASE ~(st.ss[s].quota \/ ~InQuota(st, s, u))
  <2>1. PICK x : x = st.ss[s]
    OBVIOUS
  <2>2. x \in SessionRecord /\ ~x.quota /\ Proper(x) /\ x.live
    BY <1>0, <1>2, <2>1, ServerParts, Zenon
  <2>3. PICK yes : yes = TRUE
    OBVIOUS
  <2>4. PICK y : y = [x EXCEPT !.quota = yes, !.user = u]
    OBVIOUS
  <2>5. y \in SessionRecord
    BY <2>2, <2>3, <2>4 DEF SessionRecord
  <2>6. /\ y.live = x.live /\ y.client = x.client /\ y.valid = x.valid
        /\ y.relay = x.relay /\ y.timer = x.timer /\ y.mobile = x.mobile
        /\ y.mid = x.mid /\ y.quota = yes /\ y.bps = x.bps /\ y.user = u
        /\ y.realm = x.realm /\ y.key = x.key /\ y.watchdog = x.watchdog
    BY <2>2, <2>4 DEF SessionRecord
  <2>7. Proper(y)
    BY <2>2, <2>3, <2>6, Zenon DEF Proper
  <2>8. PICK st2 : st2 = inc_quota(st, s, u)
    OBVIOUS
  <2>9. PICK c : c = st.alloc_counters[x.realm][u] + 1
    OBVIOUS
  <2>10. PICK n : n = st.total[x.realm] + 1
    OBVIOUS
  <2>24. st2 = [st EXCEPT !.alloc_counters[x.realm][u] = @ + 1, !.total[x.realm] = @ + 1,
                          !.ss[s].quota = yes, !.ss[s].user = u]
    BY <1>2, <2>1, <2>3, <2>8, Zenon DEF inc_quota
  <2>11. /\ st2.ss = [st.ss EXCEPT ![s] = y] /\ st2.mobile_map = st.mobile_map /\ st2.bps = st.bps
         /\ st2.alloc_counters = [st.alloc_counters EXCEPT ![x.realm][u] = c]
         /\ st2.total = [st.total EXCEPT ![x.realm] = n]
    BY <1>0, <2>1, <2>4, <2>9, <2>10, <2>24 DEF Server
  <2>12. At(st.ss, st2.ss, s, y)
    BY <1>0, <2>5, <2>11, ServerParts, SessionReplaced
  <2>13. x.realm \in Realm /\ c \in Nat /\ n \in Nat
    <3>1. x.realm \in Realm
      BY <2>2 DEF SessionRecord
    <3>2. st.alloc_counters[x.realm][u] \in Nat /\ st.total[x.realm] \in Nat
      BY <1>0, <3>1 DEF Server
    <3> QED BY <2>9, <2>10, <3>1, <3>2
  <2>14. st2 \in Server
    <3>1. st2.ss \in Seq(SessionRecord)
      BY <2>12 DEF At
    <3>2. st2.alloc_counters \in [Realm -> [User -> Nat]] /\ st2.total \in [Realm -> Nat]
      BY <1>0, <2>11, <2>13 DEF Server
    <3>3. st2 = [ss |-> st2.ss, mobile_map |-> st2.mobile_map, alloc_counters |-> st2.alloc_counters,
                 total |-> st2.total, bps |-> st2.bps]
      BY <1>0, <2>24 DEF Server
    <3> QED BY <1>0, <2>11, <3>1, <3>2, <3>3 DEF Server
  <2>15. Bandwidth(st2)
    BY <1>0, <2>1, <2>6, <2>11, <2>12, BandwidthKept
  <2>16. Homes(st2)
    BY <1>0, <2>1, <2>6, <2>11, <2>12, HomesKept
  <2>17. ~st.ss[s].quota /\ y.quota /\ y.live /\ y.realm = x.realm /\ y.user = u
    BY <2>1, <2>2, <2>3, <2>6, Zenon
  <2>18. /\ Cardinality(Everyone(st2.ss, x.realm)) = Cardinality(Everyone(st.ss, x.realm)) + 1
         /\ Cardinality(Own(st2.ss, u, x.realm)) = Cardinality(Own(st.ss, u, x.realm)) + 1
         /\ \A v : v # u => Own(st2.ss, v, x.realm) = Own(st.ss, v, x.realm)
    <3>1. st.ss \in Seq(SessionRecord)
      BY <1>0, ServerParts
    <3>2. OneMore(st.ss, st2.ss, y.user, x.realm)
      BY <2>12, <2>17, <3>1, CountedMore
    <3> QED BY <2>17, <3>2 DEF OneMore
  <2>20. Quotas(st2)
    <3> SUFFICES ASSUME NEW r \in Realm
                 PROVE  /\ \A v \in User : st2.alloc_counters[r][v] = Cardinality(Own(st2.ss, v, r))
                        /\ st2.total[r] = Cardinality(Everyone(st2.ss, r))
      BY DEF Quotas
    <3>1. r = x.realm
      BY <2>13 DEF OneRealm
    <3>2. st.total[r] = Cardinality(Everyone(st.ss, r)) /\ st2.total[r] = n
      BY <1>0, <2>11, <2>13, <3>1 DEF Quotas, Server
    <3>3. st2.total[r] = Cardinality(Everyone(st2.ss, r))
      BY <2>10, <2>18, <3>1, <3>2
    <3>4. ASSUME NEW v \in User PROVE st2.alloc_counters[r][v] = Cardinality(Own(st2.ss, v, r))
      <4>1. st.alloc_counters[r][v] = Cardinality(Own(st.ss, v, r))
        BY <1>0 DEF Quotas
      <4>2. st2.alloc_counters[r][v] = IF v = u THEN c ELSE st.alloc_counters[r][v]
        BY <1>0, <2>11, <2>13, <3>1 DEF Server
      <4>3. CASE v = u
        BY <2>9, <2>18, <3>1, <4>1, <4>2, <4>3
      <4>4. CASE v # u
        BY <2>18, <3>1, <4>1, <4>2, <4>4
      <4> QED BY <4>3, <4>4
    <3> QED BY <3>3, <3>4
  <2>21. Accounts(st2)
    BY <1>0, <2>5, <2>7, <2>12, <2>14, <2>15, <2>16, <2>20, AccountsOf
  <2>22. Calm(st, st2) /\ Only(st, st2, {s})
    BY <2>1, <2>6, <2>12, Zenon DEF At, Calm, Only
  <2>23. st2.ss[s].quota /\ st2.ss[s].key = st.ss[s].key /\ st2.ss[s].bps = st.ss[s].bps /\ st2.ss[s].mid = st.ss[s].mid
    BY <2>1, <2>3, <2>6, <2>12, Zenon DEF At
  <2> QED BY <2>8, <2>11, <2>21, <2>22, <2>23
<1> QED BY <1>1, <1>2

Funded(st, st2, s, m) ==
  /\ Accounts(st2) /\ Calm(st, st2) /\ Only(st, st2, {s})
  /\ st2.ss[s].key = st.ss[s].key /\ st2.ss[s].quota = st.ss[s].quota
  /\ st2.ss[s].mid = st.ss[s].mid /\ st2.ss[s].bps = m
  /\ st2.mobile_map = st.mobile_map

Moved(st, st2, s, b, m) == st2 = [st EXCEPT !.bps = b, !.ss[s].bps = m]

(* A session that holds m instead of what it held, with the server's account  *)
(* brought up to date.                                                        *)
LEMMA BandwidthMoved ==
  ASSUME NEW st, Accounts(st), NEW s \in DOMAIN st.ss, NEW m \in Nat, ~st.ss[s].live => m = 0, NEW b \in Nat,
         b = (st.bps - st.ss[s].bps) + m, BpsCapacity # 0 => b <= BpsCapacity,
         NEW st2, Moved(st, st2, s, b, m)
  PROVE  Funded(st, st2, s, m)
<1>0. st \in Server /\ Quotas(st) /\ Bandwidth(st) /\ Homes(st) /\ \A q \in DOMAIN st.ss : Proper(st.ss[q])
  BY DEF Accounts
<1>1. PICK x : x = st.ss[s]
  OBVIOUS
<1>2. x \in SessionRecord /\ Proper(x) /\ (~x.live => m = 0)
  BY <1>0, <1>1, ServerParts
<1>3. PICK y : y = [x EXCEPT !.bps = m]
  OBVIOUS
<1>4. y \in SessionRecord
  BY <1>2, <1>3 DEF SessionRecord
<1>5. /\ y.live = x.live /\ y.client = x.client /\ y.valid = x.valid
      /\ y.relay = x.relay /\ y.timer = x.timer /\ y.mobile = x.mobile
      /\ y.mid = x.mid /\ y.quota = x.quota /\ y.bps = m /\ y.user = x.user
      /\ y.realm = x.realm /\ y.key = x.key /\ y.watchdog = x.watchdog
  BY <1>2, <1>3 DEF SessionRecord
<1>6. Proper(y)
  BY <1>2, <1>5, Zenon DEF Proper
<1>7. /\ st2.ss = [st.ss EXCEPT ![s] = y] /\ st2.mobile_map = st.mobile_map /\ st2.bps = b
      /\ st2.alloc_counters = st.alloc_counters /\ st2.total = st.total
  BY <1>0, <1>1, <1>3 DEF Server, Moved
<1>8. At(st.ss, st2.ss, s, y)
  BY <1>0, <1>4, <1>7, ServerParts, SessionReplaced
<1>9. st2 \in Server
  <2>1. st2.ss \in Seq(SessionRecord)
    BY <1>8 DEF At
  <2>2. st2 = [ss |-> st2.ss, mobile_map |-> st2.mobile_map, alloc_counters |-> st2.alloc_counters,
                 total |-> st2.total, bps |-> st2.bps]
    BY <1>0 DEF Server, Moved
  <2> QED BY <1>0, <1>7, <2>1, <2>2 DEF Server
<1>10. Quotas(st2)
  BY <1>0, <1>1, <1>5, <1>7, <1>8, QuotasKept
<1>11. Homes(st2)
  BY <1>0, <1>1, <1>5, <1>7, <1>8, HomesKept
<1>12. BpsHeld(st2.ss) = (BpsHeld(st.ss) - x.bps) + m
  BY <1>0, <1>1, <1>5, <1>8, ServerParts, HeldChanges
<1>13. Bandwidth(st2)
  BY <1>0, <1>1, <1>7, <1>12 DEF Bandwidth
<1>14. Accounts(st2)
  BY <1>0, <1>4, <1>6, <1>8, <1>9, <1>10, <1>11, <1>13, AccountsOf
<1>15. Calm(st, st2) /\ Only(st, st2, {s})
  BY <1>1, <1>5, <1>8, Zenon DEF At, Calm, Only
<1>16. /\ st2.ss[s].key = st.ss[s].key /\ st2.ss[s].quota = st.ss[s].quota
       /\ st2.ss[s].mid = st.ss[s].mid /\ st2.ss[s].bps = m
  BY <1>1, <1>5, <1>8, Zenon DEF At
<1> QED BY <1>7, <1>14, <1>15, <1>16 DEF Funded

(* What a session holds is part of the server's bandwidth.                    *)
LEMMA HoldsOfAll ==
  ASSUME NEW st, Accounts(st), NEW s \in DOMAIN st.ss
  PROVE  st.ss[s].bps \in Nat /\ st.bps \in Nat /\ st.ss[s].bps <= st.bps
<1>0. st \in Server /\ Bandwidth(st)
  BY DEF Accounts
<1>1. PICK x : x = st.ss[s]
  OBVIOUS
<1>2. x \in SessionRecord /\ st.ss \in Seq(SessionRecord) /\ st.bps \in Nat
  BY <1>0, <1>1, ServerParts
<1>3. x.bps \in Nat
  BY <1>2 DEF SessionRecord
<1>4. At(st.ss, [st.ss EXCEPT ![s] = x], s, x)
  BY <1>2, SessionReplaced
<1>5. BpsHeld(st.ss) \in Nat /\ BpsHeld(st.ss) >= x.bps
  BY <1>1, <1>2, <1>4, HeldChanges
<1> QED BY <1>0, <1>1, <1>2, <1>3, <1>5 DEF Bandwidth

(* A session gives its bandwidth back.                                        *)
LEMMA BandwidthReturned ==
  ASSUME NEW st, Accounts(st), NEW s \in DOMAIN st.ss
  PROVE  /\ Accounts(dec_bps(st, s)) /\ Calm(st, dec_bps(st, s)) /\ Only(st, dec_bps(st, s), {s})
         /\ dec_bps(st, s).ss[s].key = st.ss[s].key /\ dec_bps(st, s).ss[s].quota = st.ss[s].quota
         /\ dec_bps(st, s).ss[s].mid = st.ss[s].mid /\ dec_bps(st, s).ss[s].bps = 0
         /\ dec_bps(st, s).mobile_map = st.mobile_map
<1>1. st.ss[s].bps \in Nat /\ st.bps \in Nat /\ st.ss[s].bps <= st.bps
  BY HoldsOfAll
<1>2. PICK b : b = st.bps - st.ss[s].bps
  OBVIOUS
<1>3. PICK m : m = 0
  OBVIOUS
<1>4. PICK st2 : st2 = [st EXCEPT !.bps = b, !.ss[s].bps = m]
  OBVIOUS
<1>5. st \in Server /\ (BpsCapacity # 0 => st.bps <= BpsCapacity)
  BY DEF Accounts, Bandwidth
<1>6. dec_bps(st, s) = st2
  <2>1. (IF st.bps >= st.ss[s].bps THEN st.bps - st.ss[s].bps ELSE 0) = b
    BY <1>1, <1>2
  <2> QED BY <1>3, <1>4, <1>5, <2>1 DEF dec_bps, Server
<1>7. b \in Nat /\ m \in Nat /\ b = (st.bps - st.ss[s].bps) + m
  BY <1>1, <1>2, <1>3
<1>8. BpsCapacity # 0 => b <= BpsCapacity
  <2> SUFFICES ASSUME BpsCapacity # 0 PROVE b <= BpsCapacity
    OBVIOUS
  <2>1. BpsCapacity \in Nat
    BY SessionAssumed DEF SessionAssumption
  <2> QED BY <1>1, <1>2, <1>5, <2>1
<1>9. Funded(st, st2, s, m)
  <2>1. Moved(st, st2, s, b, m) /\ (~st.ss[s].live => m = 0)
    BY <1>3, <1>4 DEF Moved
  <2> QED BY <1>7, <1>8, <2>1, BandwidthMoved
<1> QED BY <1>3, <1>6, <1>9 DEF Funded

(* A session gets bandwidth, as far as there is some.                         *)
LEMMA BandwidthTaken ==
  ASSUME NEW st, Accounts(st), NEW s \in DOMAIN st.ss, st.ss[s].live, NEW n \in Nat
  PROVE  /\ Accounts(allocate_bps(st, s, n)) /\ Calm(st, allocate_bps(st, s, n)) /\ Only(st, allocate_bps(st, s, n), {s})
         /\ allocate_bps(st, s, n).ss[s].key = st.ss[s].key /\ allocate_bps(st, s, n).ss[s].quota = st.ss[s].quota
         /\ allocate_bps(st, s, n).ss[s].mid = st.ss[s].mid
         /\ allocate_bps(st, s, n).mobile_map = st.mobile_map
<1>1. st.ss[s].bps \in Nat /\ st.bps \in Nat /\ st.ss[s].bps <= st.bps
  BY HoldsOfAll
<1>2. CASE n = 0 \/ st.ss[s].bps # 0
  <2>1. allocate_bps(st, s, n) = st
    BY <1>2 DEF allocate_bps
  <2> QED BY <2>1, Zenon DEF Calm, Only
<1>3. CASE ~(n = 0 \/ st.ss[s].bps # 0)
  <2>1. PICK m : m = BpsGranted(st, n)
    OBVIOUS
  <2>2. BpsCapacity \in Nat
    BY SessionAssumed DEF SessionAssumption
  <2>3. BpsCapacity # 0 => st.bps <= BpsCapacity
    BY DEF Accounts, Bandwidth
  <2>4. m \in Nat /\ (BpsCapacity # 0 => st.bps + m <= BpsCapacity)
    BY <1>1, <2>1, <2>2, <2>3 DEF BpsGranted
  <2>5. PICK b : b = st.bps + m
    OBVIOUS
  <2>6. PICK st2 : st2 = [st EXCEPT !.bps = b, !.ss[s].bps = m]
    OBVIOUS
  <2>7. allocate_bps(st, s, n) = st2
    <3>1. st \in Server
      BY DEF Accounts
    <3> QED BY <1>3, <2>1, <2>5, <2>6, <3>1 DEF allocate_bps, Server
  <2>8. b \in Nat /\ b = (st.bps - st.ss[s].bps) + m /\ (BpsCapacity # 0 => b <= BpsCapacity)
    BY <1>1, <1>3, <2>4, <2>5
  <2>9. Funded(st, st2, s, m)
    <3>1. Moved(st, st2, s, b, m) /\ (~st.ss[s].live => m = 0)
      BY <2>6 DEF Moved
    <3> QED BY <2>4, <2>8, <3>1, BandwidthMoved
  <2> QED BY <2>7, <2>9 DEF Funded
<1> QED BY <1>2, <1>3

(* A session that got a ticket, or lost its own.                              *)
Ticketed(st, st2, s) ==
  /\ Accounts(st2) /\ Calm(st, st2) /\ Only(st, st2, {s})
  /\ st2.ss[s].key = st.ss[s].key /\ st2.ss[s].quota = st.ss[s].quota /\ st2.ss[s].bps = st.ss[s].bps

(* The map of tickets and the session's own one.                              *)
Noted(st, st2, s, id, mid, q) == st2 = [st EXCEPT !.ss[s].mid = mid, !.mobile_map[id] = q]

(* What is left to show when a ticket was noted: the way home.                *)
LEMMA TicketNoted ==
  ASSUME NEW st, Accounts(st), NEW s \in DOMAIN st.ss, st.ss[s].live, NEW id \in Ticket, NEW mid \in Ticket \cup {0},
         NEW q \in Nat, NEW st2, Noted(st, st2, s, id, mid, q)
  PROVE  /\ DOMAIN st2.ss = DOMAIN st.ss /\ \A p \in DOMAIN st.ss : p # s => st2.ss[p] = st.ss[p]
         /\ st2.ss[s].mid = mid /\ st2.ss[s].live /\ st2.mobile_map = [st.mobile_map EXCEPT ![id] = q]
         /\ Homes(st2) => Ticketed(st, st2, s)
<1>0. st \in Server /\ Quotas(st) /\ Bandwidth(st) /\ Homes(st) /\ \A p \in DOMAIN st.ss : Proper(st.ss[p])
  BY DEF Accounts
<1>1. PICK x : x = st.ss[s]
  OBVIOUS
<1>2. x \in SessionRecord /\ Proper(x) /\ x.live
  BY <1>0, <1>1, ServerParts
<1>3. PICK y : y = [x EXCEPT !.mid = mid]
  OBVIOUS
<1>4. y \in SessionRecord
  BY <1>2, <1>3 DEF SessionRecord
<1>5. /\ y.live = x.live /\ y.client = x.client /\ y.valid = x.valid
      /\ y.relay = x.relay /\ y.timer = x.timer /\ y.mobile = x.mobile
      /\ y.mid = mid /\ y.quota = x.quota /\ y.bps = x.bps /\ y.user = x.user
      /\ y.realm = x.realm /\ y.key = x.key /\ y.watchdog = x.watchdog
  BY <1>2, <1>3 DEF SessionRecord
<1>6. Proper(y)
  BY <1>2, <1>5, Zenon DEF Proper
<1>7. /\ st2.ss = [st.ss EXCEPT ![s] = y] /\ st2.mobile_map = [st.mobile_map EXCEPT ![id] = q] /\ st2.bps = st.bps
      /\ st2.alloc_counters = st.alloc_counters /\ st2.total = st.total
  BY <1>0, <1>1, <1>3 DEF Server, Noted
<1>8. At(st.ss, st2.ss, s, y)
  BY <1>0, <1>4, <1>7, ServerParts, SessionReplaced
<1>9. st2 \in Server
  <2>1. st2.ss \in Seq(SessionRecord)
    BY <1>8 DEF At
  <2>2. st2 = [ss |-> st2.ss, mobile_map |-> st2.mobile_map, alloc_counters |-> st2.alloc_counters,
               total |-> st2.total, bps |-> st2.bps]
    BY <1>0 DEF Server, Noted
  <2>3. st2.mobile_map \in [Ticket -> Nat]
    BY <1>0, <1>7 DEF Server
  <2> QED BY <1>0, <1>7, <2>1, <2>2, <2>3 DEF Server
<1>10. Quotas(st2)
  <2>1. y.live /\ y.quota <=> st.ss[s].live /\ st.ss[s].quota
    BY <1>1, <1>5, Zenon
  <2>2. y.realm = st.ss[s].realm /\ y.user = st.ss[s].user
    BY <1>1, <1>5
  <2> QED BY <1>0, <2>1, <2>2, <1>7, <1>8, QuotasKept
<1>11. Bandwidth(st2)
  BY <1>0, <1>1, <1>5, <1>7, <1>8, BandwidthKept
<1>12. Homes(st2) => Accounts(st2)
  BY <1>0, <1>4, <1>6, <1>8, <1>9, <1>10, <1>11, AccountsOf
<1>13. Calm(st, st2) /\ Only(st, st2, {s})
  BY <1>1, <1>5, <1>8, Zenon DEF At, Calm, Only
<1>14. /\ st2.ss[s].key = st.ss[s].key /\ st2.ss[s].quota = st.ss[s].quota /\ st2.ss[s].bps = st.ss[s].bps
  BY <1>1, <1>5, <1>8, Zenon DEF At
<1>15. Homes(st2) => Ticketed(st, st2, s)
  BY <1>12, <1>13, <1>14 DEF Ticketed
<1>16. st2.ss[s].mid = mid /\ st2.ss[s].live
  BY <1>2, <1>5, <1>8, Zenon DEF At
<1>17. DOMAIN st2.ss = DOMAIN st.ss /\ \A p \in DOMAIN st.ss : p # s => st2.ss[p] = st.ss[p]
  BY <1>8 DEF At
<1> QED BY <1>7, <1>15, <1>16, <1>17

(* A session gets a new ticket.                                               *)
LEMMA TicketGiven ==
  ASSUME NEW st, Accounts(st), NEW s \in DOMAIN st.ss, st.ss[s].live, st.ss[s].mid = 0, NEW t \in Ticket,
         st.mobile_map[t] = 0
  PROVE  Ticketed(st, put_session_into_mobile_map(st, s, t), s)
<1>0. st \in Server /\ Homes(st)
  BY DEF Accounts
<1>1. PICK st2 : st2 = put_session_into_mobile_map(st, s, t)
  OBVIOUS
<1>2. Noted(st, st2, s, t, t, s)
  BY <1>1 DEF put_session_into_mobile_map, Noted
<1>4. s \in Nat /\ s # 0
  <2>1. st.ss \in Seq(SessionRecord)
    BY <1>0, ServerParts
  <2> QED BY <2>1
<1>5. /\ DOMAIN st2.ss = DOMAIN st.ss /\ \A p \in DOMAIN st.ss : p # s => st2.ss[p] = st.ss[p]
      /\ st2.ss[s].mid = t /\ st2.ss[s].live /\ st2.mobile_map = [st.mobile_map EXCEPT ![t] = s]
      /\ Homes(st2) => Ticketed(st, st2, s)
  <2>1. t \in Ticket \cup {0}
    OBVIOUS
  <2> QED BY <1>2, <1>4, <2>1, TicketNoted
<1>6. st.mobile_map \in [Ticket -> Nat] /\ DOMAIN st2.ss = DOMAIN st.ss
  BY <1>0, <1>5, ServerParts
<1>7. \A i \in Ticket : st2.mobile_map[i] = IF i = t THEN s ELSE st.mobile_map[i]
  BY <1>5, <1>6
<1>8. \A q \in DOMAIN st.ss : q # s => st2.ss[q] = st.ss[q]
  BY <1>5
<1>9. st2.ss[s].live /\ st2.ss[s].mid = t
  BY <1>5
<1>10. ASSUME NEW i \in Ticket, st2.mobile_map[i] # 0
       PROVE  /\ st2.mobile_map[i] \in DOMAIN st2.ss
              /\ st2.ss[st2.mobile_map[i]].live
              /\ st2.ss[st2.mobile_map[i]].mid = i
  <2>1. CASE i = t
    <3>1. st2.mobile_map[i] = s
      BY <1>7, <2>1
    <3> QED BY <1>6, <1>9, <2>1, <3>1
  <2>2. CASE i # t
    <3>1. st2.mobile_map[i] = st.mobile_map[i]
      BY <1>7, <2>2
    <3>2. /\ st.mobile_map[i] \in DOMAIN st.ss /\ st.ss[st.mobile_map[i]].live
          /\ st.ss[st.mobile_map[i]].mid = i
      BY <1>0, <1>10, <3>1 DEF Homes
    <3>3. i # 0
      BY SessionAssumed DEF SessionAssumption
    <3>4. st.mobile_map[i] # s
      BY <3>2, <3>3
    <3> QED BY <1>6, <1>8, <3>1, <3>2, <3>4
  <2> QED BY <2>1, <2>2
<1>11. ASSUME NEW q \in DOMAIN st2.ss, st2.ss[q].live, st2.ss[q].mid # 0 PROVE st2.mobile_map[st2.ss[q].mid] = q
  <2>1. CASE q = s
    BY <1>7, <1>9, <2>1
  <2>2. CASE q # s
    <3>1. q \in DOMAIN st.ss /\ st2.ss[q] = st.ss[q]
      BY <1>6, <1>8, <2>2
    <3>2. st.mobile_map[st.ss[q].mid] = q
      BY <1>0, <1>11, <3>1 DEF Homes
    <3>3. st.ss[q].mid \in Ticket /\ q # 0
      <4>1. PICK z : z = st.ss[q]
        OBVIOUS
      <4>2. z \in SessionRecord /\ st.ss \in Seq(SessionRecord)
        BY <1>0, <3>1, <4>1, ServerParts
      <4>3. z.mid \in Ticket \cup {0}
        BY <4>2 DEF SessionRecord
      <4> QED BY <1>11, <3>1, <4>1, <4>2, <4>3
    <3>4. st.ss[q].mid # t
      BY <3>2, <3>3
    <3> QED BY <1>7, <3>1, <3>2, <3>3, <3>4
  <2> QED BY <2>1, <2>2
<1>12. Homes(st2)
  BY <1>10, <1>11 DEF Homes
<1> QED BY <1>1, <1>5, <1>12

(* A session loses its ticket.                                                *)
LEMMA TicketTaken ==
  ASSUME NEW st, Accounts(st), NEW s \in DOMAIN st.ss
  PROVE  /\ Ticketed(st, delete_session_from_mobile_map(st, s), s)
         /\ delete_session_from_mobile_map(st, s).ss[s].mid = 0
<1>0. st \in Server /\ Homes(st) /\ \A q \in DOMAIN st.ss : Proper(st.ss[q])
  BY DEF Accounts
<1>a. CASE st.ss[s].mid = 0
  <2>1. delete_session_from_mobile_map(st, s) = st
    BY <1>a DEF delete_session_from_mobile_map
  <2>2. Ticketed(st, st, s)
    BY Zenon DEF Ticketed, Calm, Only
  <2> QED BY <1>a, <2>1, <2>2
<1>b. CASE st.ss[s].mid # 0
  <2>1. PICK st2 : st2 = delete_session_from_mobile_map(st, s)
    OBVIOUS
  <2>2. PICK x : x = st.ss[s]
    OBVIOUS
  <2>3. PICK t : t = x.mid
    OBVIOUS
  <2>4. x \in SessionRecord /\ Proper(x)
    BY <1>0, <2>2, ServerParts
  <2>5. t \in Ticket /\ t # 0
    BY <1>b, <2>2, <2>3, <2>4 DEF SessionRecord
  <2>6. st.ss[s].live
    BY <2>2, <2>3, <2>4, <2>5, Zenon DEF Proper
  <2>7. Noted(st, st2, s, t, 0, 0)
    <3>1. st2 = [st EXCEPT !.mobile_map[t] = 0, !.ss[s].mid = 0]
      BY <1>b, <2>1, <2>2, <2>3 DEF delete_session_from_mobile_map
    <3> QED BY <1>0, <3>1 DEF Noted, Server
  <2>9. 0 \in Nat /\ 0 \in Ticket \cup {0}
    OBVIOUS
  <2>10. /\ DOMAIN st2.ss = DOMAIN st.ss /\ \A p \in DOMAIN st.ss : p # s => st2.ss[p] = st.ss[p]
         /\ st2.ss[s].mid = 0 /\ st2.mobile_map = [st.mobile_map EXCEPT ![t] = 0]
         /\ Homes(st2) => Ticketed(st, st2, s)
    BY <2>5, <2>6, <2>7, <2>9, TicketNoted
  <2>11. st.mobile_map \in [Ticket -> Nat] /\ DOMAIN st2.ss = DOMAIN st.ss
    BY <1>0, <2>10, ServerParts
  <2>12. \A i \in Ticket : st2.mobile_map[i] = IF i = t THEN 0 ELSE st.mobile_map[i]
    BY <2>10, <2>11
  <2>13. \A q \in DOMAIN st.ss : q # s => st2.ss[q] = st.ss[q]
    BY <2>10
  <2>14. st2.ss[s].mid = 0
    BY <2>10
  <2>15. ASSUME NEW i \in Ticket, st2.mobile_map[i] # 0
         PROVE  /\ st2.mobile_map[i] \in DOMAIN st2.ss
                /\ st2.ss[st2.mobile_map[i]].live
                /\ st2.ss[st2.mobile_map[i]].mid = i
    <3>1. st2.mobile_map[i] = st.mobile_map[i] /\ i # t
      BY <2>12, <2>15
    <3>2. /\ st.mobile_map[i] \in DOMAIN st.ss /\ st.ss[st.mobile_map[i]].live
          /\ st.ss[st.mobile_map[i]].mid = i
      BY <1>0, <2>15, <3>1 DEF Homes
    <3>3. st.mobile_map[i] # s
      BY <2>2, <2>3, <3>1, <3>2
    <3> QED BY <2>11, <2>13, <3>1, <3>2, <3>3
  <2>16. ASSUME NEW q \in DOMAIN st2.ss, st2.ss[q].live, st2.ss[q].mid # 0 PROVE st2.mobile_map[st2.ss[q].mid] = q
    <3>1. q # s /\ q \in DOMAIN st.ss /\ st2.ss[q] = st.ss[q]
      BY <2>11, <2>13, <2>14, <2>16
    <3>2. st.mobile_map[st.ss[q].mid] = q /\ st.mobile_map[t] = s
      BY <1>0, <2>2, <2>3, <2>5, <2>6, <2>16, <3>1 DEF Homes
    <3>3. st.ss[q].mid \in Ticket
      <4>1. PICK z : z = st.ss[q]
        OBVIOUS
      <4>2. z \in SessionRecord
        BY <1>0, <3>1, <4>1, ServerParts
      <4>3. z.mid \in Ticket \cup {0}
        BY <4>2 DEF SessionRecord
      <4> QED BY <2>16, <3>1, <4>1, <4>3
    <3>4. st.ss[q].mid # t
      BY <3>1, <3>2
    <3> QED BY <2>12, <3>1, <3>2, <3>3, <3>4
  <2>17. Homes(st2)
    BY <2>15, <2>16 DEF Homes
  <2> QED BY <2>1, <2>10, <2>14, <2>17
<1> QED BY <1>a, <1>b

Written(st, st2, s, y) == st2 = [st EXCEPT !.ss[s] = y]

(* A session whose other fields changed; it may end once it holds nothing.    *)
LEMMA Relabelled ==
  ASSUME OneRealm, NEW st, Accounts(st), NEW s \in DOMAIN st.ss, NEW y \in SessionRecord, Proper(y),
         y.live /\ y.quota <=> st.ss[s].live /\ st.ss[s].quota, y.quota => y.user = st.ss[s].user,
         (y.live <=> st.ss[s].live) \/ y.mid = 0, y.mid = st.ss[s].mid, y.bps = st.ss[s].bps,
         NEW st2, Written(st, st2, s, y)
  PROVE  Accounts(st2) /\ At(st.ss, st2.ss, s, y) /\ st2.mobile_map = st.mobile_map
<1>0. st \in Server /\ Quotas(st) /\ Bandwidth(st) /\ Homes(st)
  BY DEF Accounts
<1>7. /\ st2.ss = [st.ss EXCEPT ![s] = y] /\ st2.mobile_map = st.mobile_map /\ st2.bps = st.bps
      /\ st2.alloc_counters = st.alloc_counters /\ st2.total = st.total
  BY <1>0 DEF Server, Written
<1>8. At(st.ss, st2.ss, s, y)
  BY <1>0, <1>7, ServerParts, SessionReplaced
<1>9. st2 \in Server
  <2>1. st2.ss \in Seq(SessionRecord)
    BY <1>8 DEF At
  <2>2. st2 = [ss |-> st2.ss, mobile_map |-> st2.mobile_map, alloc_counters |-> st2.alloc_counters,
               total |-> st2.total, bps |-> st2.bps]
    BY <1>0 DEF Server, Written
  <2> QED BY <1>0, <1>7, <2>1, <2>2 DEF Server
<1>10. Quotas(st2)
  <2>1. y.realm = st.ss[s].realm
    <3>1. PICK x : x = st.ss[s]
      OBVIOUS
    <3>2. x \in SessionRecord
      BY <1>0, <3>1, ServerParts
    <3>3. x.realm \in Realm /\ y.realm \in Realm
      BY <3>2 DEF SessionRecord
    <3> QED BY <3>1, <3>3 DEF OneRealm
  <2> QED BY <1>0, <1>7, <1>8, <2>1, QuotasKept
<1>11. Bandwidth(st2)
  BY <1>0, <1>7, <1>8, BandwidthKept
<1>12. Homes(st2)
  BY <1>0, <1>7, <1>8, HomesKept
<1>13. Accounts(st2)
  BY <1>8, <1>9, <1>10, <1>11, <1>12, AccountsOf
<1> QED BY <1>7, <1>8, <1>13

(* Steps of the accounting that touch only the sessions of T.                 *)
Settled(st, st2, T) == Accounts(st2) /\ Calm(st, st2) /\ Only(st, st2, T)

LEMMA SettledTwice ==
  ASSUME NEW a, NEW b, NEW c, NEW S, NEW T, NEW U, Settled(a, b, S), Settled(b, c, T), S \subseteq U, T \subseteq U
  PROVE  Settled(a, c, U)
<1>1. Calm(a, c)
  BY Zenon DEF Settled, Calm
<1>2. DOMAIN c.ss = DOMAIN a.ss /\ Len(c.ss) = Len(a.ss)
  BY DEF Settled, Only
<1>3. \A q \in DOMAIN a.ss : q \notin U => c.ss[q] = a.ss[q]
  BY Zenon DEF Settled, Only
<1> QED BY <1>1, <1>2, <1>3 DEF Settled, Only

(* A session takes over the name and the key of another one.                  *)
LEMMA NameCopied ==
  ASSUME OneRealm, NEW st, Accounts(st), NEW from \in DOMAIN st.ss, NEW to \in DOMAIN st.ss, st.ss[to].live,
         st.ss[from].key
  PROVE  Settled(st, copy_auth_parameters(st, from, to), {to}) /\ copy_auth_parameters(st, from, to).ss[to].key
<1>1. PICK a : a = dec_quota(st, to)
  OBVIOUS
<1>2. /\ Settled(st, a, {to}) /\ ~a.ss[to].quota /\ to \in DOMAIN a.ss /\ a.ss[to].live /\ Accounts(a)
  <2>1. Accounts(a) /\ Calm(st, a) /\ Only(st, a, {to}) /\ ~a.ss[to].quota
    BY <1>1, QuotaReturned
  <2>2. to \in DOMAIN a.ss /\ a.ss[to].live = st.ss[to].live
    BY <2>1, Zenon DEF Calm
  <2> QED BY <2>1, <2>2, Zenon DEF Settled
<1>3. PICK x : x = a.ss[to]
  OBVIOUS
<1>4. PICK o : o = st.ss[from]
  OBVIOUS
<1>5. x \in SessionRecord /\ Proper(x) /\ ~x.quota /\ x.live
  <2>1. a \in Server /\ \A q \in DOMAIN a.ss : Proper(a.ss[q])
    BY <1>2 DEF Accounts
  <2> QED BY <1>2, <1>3, <2>1, ServerParts
<1>6. o \in SessionRecord /\ o.key /\ o.user \in User
  <2>1. st \in Server /\ \A q \in DOMAIN st.ss : Proper(st.ss[q])
    BY DEF Accounts
  <2>2. o \in SessionRecord /\ Proper(o) /\ o.key
    BY <1>4, <2>1, ServerParts
  <2> QED BY <2>2, Zenon DEF Proper
<1>7. PICK y : y = [x EXCEPT !.realm = o.realm, !.user = o.user, !.key = o.key]
  OBVIOUS
<1>8. y \in SessionRecord
  BY <1>5, <1>6, <1>7 DEF SessionRecord
<1>9. /\ y.live = x.live /\ y.client = x.client /\ y.valid = x.valid
      /\ y.relay = x.relay /\ y.timer = x.timer /\ y.mobile = x.mobile
      /\ y.mid = x.mid /\ y.quota = x.quota /\ y.bps = x.bps /\ y.user = o.user
      /\ y.realm = o.realm /\ y.key = o.key /\ y.watchdog = x.watchdog
  BY <1>5, <1>7 DEF SessionRecord
<1>10. Proper(y)
  BY <1>5, <1>6, <1>9, Zenon DEF Proper
<1>11. PICK b : b = [a EXCEPT !.ss[to] = y]
  OBVIOUS
<1>12. Written(a, b, to, y)
  BY <1>11 DEF Written
<1>13. b = TakesName(a, to, st.ss[from])
  <2>1. a \in Server
    BY <1>2 DEF Accounts
  <2> QED BY <1>2, <1>3, <1>4, <1>7, <1>11, <2>1 DEF Server, TakesName
<1>14. Accounts(b) /\ At(a.ss, b.ss, to, y)
  <2>1. /\ y.live /\ y.quota <=> a.ss[to].live /\ a.ss[to].quota
        /\ y.quota => y.user = a.ss[to].user
        /\ (y.live <=> a.ss[to].live) \/ y.mid = 0
    BY <1>3, <1>5, <1>9, Zenon
  <2>2. y.mid = a.ss[to].mid /\ y.bps = a.ss[to].bps
    BY <1>3, <1>9
  <2> QED BY <1>2, <1>8, <1>10, <1>12, <2>1, <2>2, Relabelled
<1>15. Settled(a, b, {to}) /\ b.ss[to] = y /\ to \in DOMAIN b.ss
  BY <1>2, <1>3, <1>9, <1>14, Zenon DEF Settled, Calm, Only, At
<1>16. PICK u : u = o.user
  OBVIOUS
<1>17. u \in User /\ u # NoUser /\ b.ss[to].user = u /\ b.ss[to].live /\ b.ss[to].key
  <2>1. NoUser \notin User
    BY SessionAssumed DEF SessionAssumption
  <2> QED BY <1>5, <1>6, <1>9, <1>15, <1>16, <2>1, Zenon
<1>18. PICK c : c = inc_quota(b, to, u)
  OBVIOUS
<1>19. Settled(b, c, {to}) /\ c.ss[to].key = b.ss[to].key
  BY <1>14, <1>15, <1>17, <1>18, QuotaTaken DEF Settled
<1>20. copy_auth_parameters(st, from, to) = c
  <2>1. b = TakesName(dec_quota(st, to), to, st.ss[from])
    BY <1>1, <1>13
  <2>2. copy_auth_parameters(st, from, to) = IF b.ss[to].user = NoUser THEN b ELSE inc_quota(b, to, b.ss[to].user)
    BY <2>1 DEF copy_auth_parameters
  <2> QED BY <1>17, <1>18, <2>2
<1>21. Settled(st, b, {to})
  BY <1>2, <1>15, SettledTwice
<1>22. Settled(st, c, {to})
  BY <1>19, <1>21, SettledTwice
<1> QED BY <1>17, <1>19, <1>20, <1>22

(* A session that ended, or that lost its client.                             *)
Closed(st, st2, s) ==
  /\ Accounts(st2) /\ Only(st, st2, {s})
  /\ st2.ss[s].client = "none"

LEMMA SessionEnds ==
  ASSUME OneRealm, NEW st, Accounts(st), NEW s \in DOMAIN st.ss, st.ss[s].live, ~st.ss[s].quota, st.ss[s].bps = 0
  PROVE  Closed(st, turn_server_remove_all_from_ur_map_ss(st, s), s)
<1>1. PICK a : a = delete_session_from_mobile_map(st, s)
  OBVIOUS
<1>2. Ticketed(st, a, s) /\ a.ss[s].mid = 0
  BY <1>1, TicketTaken
<1>3. /\ Settled(st, a, {s}) /\ s \in DOMAIN a.ss /\ Accounts(a)
      /\ a.ss[s].live /\ ~a.ss[s].quota /\ a.ss[s].bps = 0 /\ a.ss[s].mid = 0
  BY <1>2, Zenon DEF Ticketed, Settled, Calm
<1>4. PICK x : x = a.ss[s]
  OBVIOUS
<1>5. x \in SessionRecord /\ Proper(x) /\ ~x.quota /\ x.live /\ x.bps = 0 /\ x.mid = 0
  <2>1. a \in Server /\ \A q \in DOMAIN a.ss : Proper(a.ss[q])
    BY <1>3 DEF Accounts
  <2> QED BY <1>3, <1>4, <2>1, ServerParts
<1>6. PICK no : no = FALSE
  OBVIOUS
<1>7. PICK y : y = [x EXCEPT !.live = no, !.client = "none", !.valid = no, !.relay = {}, !.timer = {}, !.watchdog = no]
  OBVIOUS
<1>8. y \in SessionRecord
  BY <1>5, <1>6, <1>7 DEF SessionRecord
<1>9. /\ y.live = no /\ y.client = "none" /\ y.valid = no /\ y.relay = {}
      /\ y.timer = {} /\ y.mobile = x.mobile /\ y.mid = x.mid /\ y.quota = x.quota
      /\ y.bps = x.bps /\ y.user = x.user /\ y.realm = x.realm /\ y.key = x.key
      /\ y.watchdog = no
  BY <1>5, <1>7 DEF SessionRecord
<1>10. Proper(y)
  <2>1. y.relay = {} /\ y.timer = {} /\ y.bps = 0 /\ y.mid = 0
    BY <1>5, <1>9
  <2> QED BY <1>5, <1>6, <1>9, <2>1, Zenon DEF Proper
<1>11. PICK b : b = [a EXCEPT !.ss[s] = y]
  OBVIOUS
<1>12. Written(a, b, s, y)
  BY <1>11 DEF Written
<1>13. b = [a EXCEPT !.ss[s].live = no, !.ss[s].client = "none", !.ss[s].valid = no,
                     !.ss[s].relay = {}, !.ss[s].timer = {}, !.ss[s].watchdog = no]
  <2>1. a \in Server /\ a.ss \in Seq(SessionRecord)
    BY <1>3, ServerParts DEF Accounts
  <2>2. PICK z : z = [x EXCEPT !.live = no, !.client = "none", !.valid = no]
    OBVIOUS
  <2>3. PICK c : c = [a EXCEPT !.ss[s] = z]
    OBVIOUS
  <2>4. c = [a EXCEPT !.ss[s].live = no, !.ss[s].client = "none", !.ss[s].valid = no]
    BY <1>3, <1>4, <2>1, <2>2, <2>3 DEF Server
  <2>5. c \in Server /\ z \in SessionRecord /\ c.ss[s] = z /\ s \in DOMAIN c.ss
    <3>1. z \in SessionRecord
      BY <1>5, <1>6, <2>2 DEF SessionRecord
    <3>2. At(a.ss, [a.ss EXCEPT ![s] = z], s, z)
      BY <1>3, <2>1, <3>1, SessionReplaced
    <3>3. PICK ss2 : ss2 = [a.ss EXCEPT ![s] = z]
      OBVIOUS
    <3>4. ss2 \in Seq(SessionRecord) /\ ss2[s] = z /\ s \in DOMAIN ss2
      BY <1>3, <3>2, <3>3 DEF At
    <3>5. c = [a EXCEPT !.ss = ss2]
      BY <2>1, <2>3, <3>3 DEF Server
    <3> QED BY <2>1, <3>1, <3>4, <3>5 DEF Server
  <2>6. y = [z EXCEPT !.relay = {}, !.timer = {}, !.watchdog = no]
    BY <1>5, <1>7, <2>2 DEF SessionRecord
  <2>7. b = [c EXCEPT !.ss[s] = y]
    BY <1>3, <1>11, <2>1, <2>3 DEF Server
  <2>8. b = [c EXCEPT !.ss[s].relay = {}, !.ss[s].timer = {}, !.ss[s].watchdog = no]
    BY <2>5, <2>6, <2>7 DEF Server
  <2> QED BY <2>4, <2>8
<1>14. Accounts(b) /\ At(a.ss, b.ss, s, y)
  <2>1. /\ y.live /\ y.quota <=> a.ss[s].live /\ a.ss[s].quota
        /\ y.quota => y.user = a.ss[s].user
        /\ (y.live <=> a.ss[s].live) \/ y.mid = 0
    BY <1>4, <1>5, <1>6, <1>9, Zenon
  <2>2. y.mid = a.ss[s].mid /\ y.bps = a.ss[s].bps
    BY <1>4, <1>9
  <2> QED BY <1>3, <1>8, <1>10, <1>12, <2>1, <2>2, Relabelled
<1>15. Only(st, b, {s}) /\ b.ss[s].client = "none"
  <2>1. DOMAIN b.ss = DOMAIN st.ss /\ Len(b.ss) = Len(st.ss)
    BY <1>3, <1>14 DEF Settled, Only, At
  <2>2. ASSUME NEW q \in DOMAIN st.ss, q \notin {s} PROVE b.ss[q] = st.ss[q]
    <3>1. q # s
      BY <2>2
    <3>2. a.ss[q] = st.ss[q] /\ q \in DOMAIN a.ss
      BY <1>3, <2>2 DEF Settled, Only
    <3> QED BY <1>14, <3>1, <3>2 DEF At
  <2>3. b.ss[s].client = "none"
    BY <1>9, <1>14 DEF At
  <2> QED BY <2>1, <2>2, <2>3 DEF Only
<1>16. turn_server_remove_all_from_ur_map_ss(st, s) = b
  BY <1>1, <1>6, <1>13, Zenon DEF turn_server_remove_all_from_ur_map_ss
<1> QED BY <1>14, <1>15, <1>16 DEF Closed

(* shutdown_client_connection closes the client socket, and the session with  *)
(* it unless the session is mobile.                                           *)
LEMMA ShutDown ==
  ASSUME OneRealm, NEW st, Accounts(st), NEW s \in DOMAIN st.ss, st.ss[s].live, NEW force
  PROVE  Closed(st, shutdown_client_connection(st, s, force), s)
<1>1. PICK d : d = dec_quota(st, s)
  OBVIOUS
<1>2. Settled(st, d, {s}) /\ ~d.ss[s].quota /\ s \in DOMAIN d.ss /\ Accounts(d)
  BY <1>1, QuotaReturned DEF Settled, Calm
<1>3. PICK a : a = dec_bps(d, s)
  OBVIOUS
<1>4. Settled(d, a, {s}) /\ a.ss[s].quota = d.ss[s].quota /\ a.ss[s].bps = 0 /\ Accounts(a)
  BY <1>2, <1>3, BandwidthReturned DEF Settled
<1>5. Settled(st, a, {s})
  BY <1>2, <1>4, SettledTwice
<1>6. /\ s \in DOMAIN a.ss /\ a.ss[s].live /\ ~a.ss[s].quota /\ Only(st, a, {s})
  BY <1>2, <1>4, <1>5, Zenon DEF Settled, Calm
<1>7. CASE ~force /\ st.ss[s].valid /\ st.ss[s].mobile
  <2>1. PICK x : x = a.ss[s]
    OBVIOUS
  <2>2. x \in SessionRecord /\ Proper(x)
    <3>1. a \in Server /\ \A q \in DOMAIN a.ss : Proper(a.ss[q])
      BY <1>4 DEF Accounts
    <3> QED BY <1>6, <2>1, <3>1, ServerParts
  <2>3. PICK y : y = [x EXCEPT !.client = "none"]
    OBVIOUS
  <2>4. y \in SessionRecord
    BY <2>2, <2>3 DEF SessionRecord
  <2>5. /\ y.live = x.live /\ y.client = "none" /\ y.valid = x.valid
        /\ y.relay = x.relay /\ y.timer = x.timer /\ y.mobile = x.mobile
        /\ y.mid = x.mid /\ y.quota = x.quota /\ y.bps = x.bps /\ y.user = x.user
        /\ y.realm = x.realm /\ y.key = x.key /\ y.watchdog = x.watchdog
    BY <2>2, <2>3 DEF SessionRecord
  <2>6. Proper(y)
    BY <2>2, <2>5, Zenon DEF Proper
  <2>7. PICK b : b = [a EXCEPT !.ss[s] = y]
    OBVIOUS
  <2>8. Written(a, b, s, y)
    BY <2>7 DEF Written
  <2>9. b = [a EXCEPT !.ss[s].client = "none"]
    <3>1. a \in Server
      BY <1>4 DEF Accounts
    <3> QED BY <1>6, <2>1, <2>3, <2>7, <3>1 DEF Server
  <2>10. Accounts(b) /\ At(a.ss, b.ss, s, y)
    <3>1. /\ y.live /\ y.quota <=> a.ss[s].live /\ a.ss[s].quota
          /\ y.quota => y.user = a.ss[s].user
          /\ (y.live <=> a.ss[s].live) \/ y.mid = 0
      BY <2>1, <2>5, Zenon
    <3>2. y.mid = a.ss[s].mid /\ y.bps = a.ss[s].bps
      BY <2>1, <2>5
    <3> QED BY <1>4, <1>6, <2>4, <2>6, <2>8, <3>1, <3>2, Relabelled
  <2>11. Only(st, b, {s}) /\ b.ss[s].client = "none"
    <3>1. DOMAIN b.ss = DOMAIN st.ss /\ Len(b.ss) = Len(st.ss)
      BY <1>6, <2>10 DEF Only, At
    <3>2. ASSUME NEW q \in DOMAIN st.ss, q \notin {s} PROVE b.ss[q] = st.ss[q]
      <4>1. q # s
        BY <3>2
      <4>2. a.ss[q] = st.ss[q] /\ q \in DOMAIN a.ss
        BY <1>6, <3>2 DEF Only
      <4> QED BY <2>10, <4>1, <4>2 DEF At
    <3>3. b.ss[s].client = "none"
      BY <2>5, <2>10 DEF At
    <3> QED BY <3>1, <3>2, <3>3 DEF Only
  <2>12. shutdown_client_connection(st, s, force) = b
    BY <1>1, <1>3, <1>7, <2>9, Zenon DEF shutdown_client_connection
  <2> QED BY <2>10, <2>11, <2>12 DEF Closed
<1>8. CASE ~(~force /\ st.ss[s].valid /\ st.ss[s].mobile)
  <2>1. PICK b : b = turn_server_remove_all_from_ur_map_ss(a, s)
    OBVIOUS
  <2>2. Closed(a, b, s)
    BY <1>4, <1>6, <2>1, SessionEnds
  <2>3. Closed(st, b, s)
    <3>1. DOMAIN b.ss = DOMAIN st.ss /\ Len(b.ss) = Len(st.ss)
      BY <1>6, <2>2 DEF Only, Closed
    <3>2. ASSUME NEW q \in DOMAIN st.ss, q \notin {s} PROVE b.ss[q] = st.ss[q]
      <4>1. a.ss[q] = st.ss[q] /\ q \in DOMAIN a.ss
        BY <1>6, <3>2 DEF Only
      <4> QED BY <2>2, <3>2, <4>1 DEF Only, Closed
    <3> QED BY <2>2, <3>1, <3>2 DEF Only, Closed
  <2>4. shutdown_client_connection(st, s, force) = b
    BY <1>1, <1>3, <1>8, <2>1, Zenon DEF shutdown_client_connection
  <2> QED BY <2>3, <2>4
<1> QED BY <1>7, <1>8

(* Whoever is served without being mobile is counted.                         *)
Counted(x) == x.valid /\ x.client = "open" /\ ~x.mobile => x.quota
Served(st) == \A q \in DOMAIN st.ss : Counted(st.ss[q])

(* The inductive invariant: the account is right, whoever is served is        *)
(* counted, and there are no more sessions than were opened.                  *)
Books(st) == Accounts(st) /\ Served(st) /\ Len(st.ss) <= MaxSession

(* The books are kept when only sessions of T changed, and those are counted. *)
LEMMA BooksKept ==
  ASSUME NEW st, Books(st), NEW st2, NEW T, Accounts(st2), Only(st, st2, T),
         \A q \in DOMAIN st.ss : q \in T => Counted(st2.ss[q])
  PROVE  Books(st2)
<1>1. Len(st2.ss) <= MaxSession
  BY DEF Books, Only
<1>2. ASSUME NEW q \in DOMAIN st2.ss PROVE Counted(st2.ss[q])
  <2>1. q \in DOMAIN st.ss
    BY DEF Only
  <2>2. CASE q \in T
    BY <2>1, <2>2
  <2>3. CASE q \notin T
    <3>1. st2.ss[q] = st.ss[q]
      BY <2>1, <2>3 DEF Only
    <3>2. Counted(st.ss[q])
      BY <2>1 DEF Books, Served
    <3> QED BY <3>1, <3>2
  <2> QED BY <2>2, <2>3
<1> QED BY <1>1, <1>2 DEF Books, Served

(* A session that was closed.                                                 *)
LEMMA BooksClosed ==
  ASSUME NEW st, Books(st), NEW st2, NEW s \in DOMAIN st.ss, Closed(st, st2, s)
  PROVE  Books(st2)
<1>1. Counted(st2.ss[s])
  BY DEF Closed, Counted
<1>2. \A q \in DOMAIN st.ss : q \in {s} => Counted(st2.ss[q])
  BY <1>1
<1>3. Accounts(st2) /\ Only(st, st2, {s})
  BY DEF Closed
<1> QED BY <1>2, <1>3, BooksKept

(* What a session is in a server with an account.                             *)
LEMMA SessionOf ==
  ASSUME NEW st, Accounts(st), NEW s \in DOMAIN st.ss
  PROVE  st \in Server /\ st.ss[s] \in SessionRecord /\ Proper(st.ss[s])
BY ServerParts DEF Accounts

SameAccount(x, y) ==
  /\ y.live = x.live /\ y.quota = x.quota /\ y.mid = x.mid /\ y.bps = x.bps
  /\ y.quota => y.user = x.user

(* Writing a session back, with what its account depends on unchanged.        *)
LEMMA Rewritten ==
  ASSUME OneRealm, NEW st, Accounts(st), NEW s \in DOMAIN st.ss, NEW y \in SessionRecord, Proper(y),
         SameAccount(st.ss[s], y), NEW st2, Written(st, st2, s, y)
  PROVE  /\ Accounts(st2) /\ Only(st, st2, {s}) /\ st2.ss[s] = y /\ st2.mobile_map = st.mobile_map
         /\ s \in DOMAIN st2.ss
<1>1. /\ y.live /\ y.quota <=> st.ss[s].live /\ st.ss[s].quota
      /\ y.quota => y.user = st.ss[s].user
      /\ (y.live <=> st.ss[s].live) \/ y.mid = 0
  BY Zenon DEF SameAccount
<1>2. y.mid = st.ss[s].mid /\ y.bps = st.ss[s].bps
  BY DEF SameAccount
<1>3. Accounts(st2) /\ At(st.ss, st2.ss, s, y) /\ st2.mobile_map = st.mobile_map
  BY <1>1, <1>2, Relabelled
<1>4. Only(st, st2, {s}) /\ st2.ss[s] = y /\ s \in DOMAIN st2.ss
  BY <1>3, Zenon DEF Only, At
<1> QED BY <1>3, <1>4

(* The timer of a relay socket.                                               *)
LEMMA RelayLost ==
  ASSUME OneRealm, NEW st, Books(st), NEW s \in DOMAIN st.ss, st.ss[s].live, NEW f
  PROVE  /\ Books(LosesRelay(st, s, f)) /\ s \in DOMAIN LosesRelay(st, s, f).ss
         /\ LosesRelay(st, s, f).ss[s].live
<1>1. PICK x : x = st.ss[s]
  OBVIOUS
<1>2. st \in Server /\ x \in SessionRecord /\ Proper(x) /\ Counted(x) /\ x.live /\ Accounts(st)
  BY <1>1, SessionOf DEF Books, Served
<1>3. PICK y : y = [x EXCEPT !.relay = x.relay \ {f}, !.timer = x.timer \ {f}]
  OBVIOUS
<1>4. y \in SessionRecord
  BY <1>2, <1>3 DEF SessionRecord
<1>5. /\ y.live = x.live /\ y.client = x.client /\ y.valid = x.valid
      /\ y.relay = x.relay \ {f} /\ y.timer = x.timer \ {f} /\ y.mobile = x.mobile
      /\ y.mid = x.mid /\ y.quota = x.quota /\ y.bps = x.bps /\ y.user = x.user
      /\ y.realm = x.realm /\ y.key = x.key /\ y.watchdog = x.watchdog
  BY <1>2, <1>3 DEF SessionRecord
<1>6. Proper(y) /\ Counted(y) /\ y.live
  BY <1>2, <1>5, Zenon DEF Proper, Counted
<1>7. PICK b : b = LosesRelay(st, s, f)
  OBVIOUS
<1>8. Written(st, b, s, y)
  BY <1>1, <1>2, <1>3, <1>7 DEF Written, LosesRelay, Server
<1>9. Accounts(b) /\ Only(st, b, {s}) /\ b.ss[s] = y /\ s \in DOMAIN b.ss
  <2>1. SameAccount(st.ss[s], y)
    BY <1>1, <1>5, Zenon DEF SameAccount
  <2>2. Accounts(st) /\ Proper(y)
    BY <1>2, <1>6
  <2> QED BY <1>4, <1>8, <2>1, <2>2, Rewritten
<1>10. Books(b)
  BY <1>6, <1>9, BooksKept
<1> QED BY <1>6, <1>7, <1>9, <1>10

(* A session that has relay sockets, or none.                                 *)
LEMMA RelayMade ==
  ASSUME OneRealm, NEW st, Accounts(st), NEW s \in DOMAIN st.ss, st.ss[s].live, st.ss[s].quota, NEW got \in SUBSET Family
  PROVE  /\ Accounts(create_relay_connection(st, s, got)) /\ Only(st, create_relay_connection(st, s, got), {s})
         /\ Counted(create_relay_connection(st, s, got).ss[s])
<1>1. PICK x : x = st.ss[s]
  OBVIOUS
<1>2. st \in Server /\ x \in SessionRecord /\ Proper(x) /\ x.live /\ x.quota
  BY <1>1, SessionOf
<1>3. PICK v \in BOOLEAN : v = (got # {})
  OBVIOUS
<1>4. PICK y : y = [x EXCEPT !.relay = got, !.timer = got, !.valid = v]
  OBVIOUS
<1>5. y \in SessionRecord
  BY <1>2, <1>3, <1>4 DEF SessionRecord
<1>6. /\ y.live = x.live /\ y.client = x.client /\ y.valid = v /\ y.relay = got
      /\ y.timer = got /\ y.mobile = x.mobile /\ y.mid = x.mid /\ y.quota = x.quota
      /\ y.bps = x.bps /\ y.user = x.user /\ y.realm = x.realm /\ y.key = x.key
      /\ y.watchdog = x.watchdog
  BY <1>2, <1>4 DEF SessionRecord
<1>7. Proper(y) /\ Counted(y)
  BY <1>2, <1>6, Zenon DEF Proper, Counted
<1>8. PICK b : b = create_relay_connection(st, s, got)
  OBVIOUS
<1>9. Written(st, b, s, y)
  <2>1. b = [st EXCEPT !.ss[s].relay = got, !.ss[s].timer = got, !.ss[s].valid = v]
    BY <1>3, <1>8 DEF create_relay_connection
  <2> QED BY <1>1, <1>2, <1>4, <2>1 DEF Written, Server
<1>10. Accounts(b) /\ Only(st, b, {s}) /\ b.ss[s] = y
  <2>1. SameAccount(st.ss[s], y)
    BY <1>1, <1>6, Zenon DEF SameAccount
  <2> QED BY <1>2, <1>5, <1>7, <1>9, <2>1, Rewritten
<1> QED BY <1>7, <1>8, <1>10

(* A session whose user is known.                                             *)
LEMMA UserKnown ==
  ASSUME OneRealm, NEW st, Accounts(st), NEW s \in DOMAIN st.ss, st.ss[s].live, ~st.ss[s].valid,
         NEW u \in User, st.ss[s].user \in {NoUser, u}, NEW mobility \in BOOLEAN
  PROVE  /\ Accounts(Authenticated(st, s, u, mobility)) /\ Only(st, Authenticated(st, s, u, mobility), {s})
         /\ Authenticated(st, s, u, mobility).ss[s].live /\ ~Authenticated(st, s, u, mobility).ss[s].valid
         /\ s \in DOMAIN Authenticated(st, s, u, mobility).ss
<1>1. PICK x : x = st.ss[s]
  OBVIOUS
<1>2. st \in Server /\ x \in SessionRecord /\ Proper(x) /\ x.live /\ ~x.valid /\ x.user \in {NoUser, u}
  BY <1>1, SessionOf
<1>3. PICK m \in BOOLEAN : m = (x.mobile \/ mobility)
  OBVIOUS
<1>4. PICK yes : yes = TRUE
  OBVIOUS
<1>5. PICK y : y = [x EXCEPT !.mobile = m, !.user = u, !.key = yes]
  OBVIOUS
<1>6. y \in SessionRecord
  BY <1>2, <1>3, <1>4, <1>5 DEF SessionRecord
<1>7. /\ y.live = x.live /\ y.client = x.client /\ y.valid = x.valid
      /\ y.relay = x.relay /\ y.timer = x.timer /\ y.mobile = m /\ y.mid = x.mid
      /\ y.quota = x.quota /\ y.bps = x.bps /\ y.user = u /\ y.realm = x.realm
      /\ y.key = yes /\ y.watchdog = x.watchdog
  BY <1>2, <1>5 DEF SessionRecord
<1>8. y.quota => y.user = x.user
  <2>1. NoUser \notin User
    BY SessionAssumed DEF SessionAssumption
  <2>2. x.quota => x.user \in User
    BY <1>2, Zenon DEF Proper
  <2> QED BY <1>2, <1>7, <2>1, <2>2, Zenon
<1>9. Proper(y)
  BY <1>2, <1>4, <1>7, Zenon DEF Proper
<1>10. PICK b : b = Authenticated(st, s, u, mobility)
  OBVIOUS
<1>11. Written(st, b, s, y)
  <2>1. b = [st EXCEPT !.ss[s].mobile = @ \/ mobility, !.ss[s].user = u, !.ss[s].key = yes]
    BY <1>4, <1>10, Zenon DEF Authenticated
  <2>2. b = [st EXCEPT !.ss[s].mobile = m, !.ss[s].user = u, !.ss[s].key = yes]
    BY <1>1, <1>2, <1>3, <2>1 DEF Server, SessionRecord
  <2> QED BY <1>1, <1>2, <1>5, <2>2 DEF Written, Server
<1>12. Accounts(b) /\ Only(st, b, {s}) /\ b.ss[s] = y /\ s \in DOMAIN b.ss
  <2>1. SameAccount(st.ss[s], y)
    BY <1>1, <1>7, <1>8, Zenon DEF SameAccount
  <2> QED BY <1>6, <1>9, <1>11, <2>1, Rewritten
<1>13. y.live /\ ~y.valid
  BY <1>2, <1>7, Zenon
<1> QED BY <1>10, <1>12, <1>13

(* handle_turn_allocate.                                                      *)
LEMMA BooksAllocate ==
  ASSUME OneRealm, Books(srv), NEW s \in DOMAIN srv.ss, NEW u \in User, NEW mobility \in BOOLEAN, NEW bps \in Bps,
         NEW got \in SUBSET Family, handle_turn_allocate(s, u, mobility, bps, got)
  PROVE  Books(srv')
<1>1. /\ srv.ss[s].live /\ ~srv.ss[s].valid /\ srv.ss[s].user \in {NoUser, u} /\ Accounts(srv)
  BY DEF handle_turn_allocate, LiveSession, Books
<1>2. PICK a : a = Authenticated(srv, s, u, mobility)
  OBVIOUS
<1>3. Accounts(a) /\ Only(srv, a, {s}) /\ a.ss[s].live /\ ~a.ss[s].valid /\ s \in DOMAIN a.ss
  BY <1>1, <1>2, UserKnown
<1>4. PICK b : b = IF a.ss[s].mobile THEN a ELSE delete_session_from_mobile_map(a, s)
  OBVIOUS
<1>5. Accounts(b) /\ Only(srv, b, {s}) /\ b.ss[s].live /\ ~b.ss[s].valid /\ s \in DOMAIN b.ss
  <2>1. CASE a.ss[s].mobile
    BY <1>3, <1>4, <2>1
  <2>2. CASE ~a.ss[s].mobile
    <3>1. b = delete_session_from_mobile_map(a, s)
      BY <1>4, <2>2
    <3>2. Ticketed(a, b, s)
      BY <1>3, <3>1, TicketTaken
    <3>3. Accounts(b) /\ b.ss[s].live /\ ~b.ss[s].valid /\ s \in DOMAIN b.ss
      BY <1>3, <3>2, Zenon DEF Ticketed, Calm
    <3>4. Only(srv, b, {s})
      BY <1>3, <3>2, Zenon DEF Ticketed, Only
    <3> QED BY <3>3, <3>4
  <2> QED BY <2>1, <2>2
<1>6. PICK i : i = inc_quota(b, s, u)
  OBVIOUS
<1>7. Settled(b, i, {s}) /\ (InQuota(b, s, u) => i.ss[s].quota)
  BY <1>5, <1>6, QuotaTaken DEF Settled
<1>8. Accounts(i) /\ s \in DOMAIN i.ss /\ i.ss[s].live /\ ~i.ss[s].valid /\ Only(srv, i, {s})
  <2>1. Accounts(i) /\ s \in DOMAIN i.ss /\ i.ss[s].live /\ ~i.ss[s].valid
    BY <1>5, <1>7, Zenon DEF Settled, Calm
  <2>2. Only(srv, i, {s})
    BY <1>5, <1>7, Zenon DEF Settled, Only
  <2> QED BY <2>1, <2>2
<1>9. PICK c : c = allocate_bps(i, s, bps)
  OBVIOUS
<1>10. Settled(i, c, {s}) /\ c.ss[s].quota = i.ss[s].quota
  <2>1. bps \in Nat
    BY SessionAssumed DEF SessionAssumption
  <2> QED BY <1>8, <1>9, <2>1, BandwidthTaken DEF Settled
<1>11. Accounts(c) /\ s \in DOMAIN c.ss /\ c.ss[s].live /\ ~c.ss[s].valid /\ Only(srv, c, {s})
  <2>1. Accounts(c) /\ s \in DOMAIN c.ss /\ c.ss[s].live /\ ~c.ss[s].valid
    BY <1>8, <1>10, Zenon DEF Settled, Calm
  <2>2. Only(srv, c, {s})
    BY <1>8, <1>10, Zenon DEF Settled, Only
  <2> QED BY <2>1, <2>2
<1>12. PICK d : d = create_relay_connection(c, s, got)
  OBVIOUS
<1>13. \/ srv' = b
       \/ srv' = c
       \/ srv' = d /\ InQuota(b, s, u)
  <2>1. srv' = IF OverQuota(b, s, u) THEN b ELSE IF bps # 0 /\ c.ss[s].bps = 0 THEN c ELSE d
    BY <1>2, <1>4, <1>6, <1>9, <1>12, Zenon DEF handle_turn_allocate
  <2> QED BY <2>1, Zenon DEF OverQuota
<1>14. CASE srv' = b
  <2>1. \A q \in DOMAIN srv.ss : q \in {s} => Counted(b.ss[q])
    BY <1>5, Zenon DEF Counted
  <2> QED BY <1>5, <1>14, <2>1, BooksKept
<1>15. CASE srv' = c
  <2>1. \A q \in DOMAIN srv.ss : q \in {s} => Counted(c.ss[q])
    BY <1>11, Zenon DEF Counted
  <2> QED BY <1>11, <1>15, <2>1, BooksKept
<1>16. CASE srv' = d /\ InQuota(b, s, u)
  <2>1. c.ss[s].quota
    BY <1>7, <1>10, <1>16, Zenon
  <2>2. Accounts(d) /\ Only(c, d, {s}) /\ Counted(d.ss[s])
    BY <1>11, <1>12, <2>1, RelayMade
  <2>3. Only(srv, d, {s})
    BY <1>11, <2>2, Zenon DEF Only
  <2>4. \A q \in DOMAIN srv.ss : q \in {s} => Counted(d.ss[q])
    BY <2>2
  <2> QED BY <1>16, <2>2, <2>3, <2>4, BooksKept
<1> QED BY <1>13, <1>14, <1>15, <1>16

(* A session with the realm of another one.                                   *)
LEMMA RealmTaken ==
  ASSUME OneRealm, NEW st, Accounts(st), NEW s \in DOMAIN st.ss, NEW r \in Realm
  PROVE  Settled(st, TakesRealm(st, s, r), {s}) /\ TakesRealm(st, s, r).ss[s].key = st.ss[s].key
<1>1. PICK x : x = st.ss[s]
  OBVIOUS
<1>2. st \in Server /\ x \in SessionRecord /\ Proper(x)
  BY <1>1, SessionOf
<1>4. PICK y : y = [x EXCEPT !.realm = r]
  OBVIOUS
<1>5. y \in SessionRecord
  BY <1>2, <1>4 DEF SessionRecord
<1>6. /\ y.live = x.live /\ y.client = x.client /\ y.valid = x.valid
      /\ y.relay = x.relay /\ y.timer = x.timer /\ y.mobile = x.mobile
      /\ y.mid = x.mid /\ y.quota = x.quota /\ y.bps = x.bps /\ y.user = x.user
      /\ y.realm = r /\ y.key = x.key /\ y.watchdog = x.watchdog
  BY <1>2, <1>4 DEF SessionRecord
<1>7. Proper(y)
  BY <1>2, <1>6, Zenon DEF Proper
<1>8. PICK b : b = TakesRealm(st, s, r)
  OBVIOUS
<1>9. Written(st, b, s, y)
  BY <1>1, <1>2, <1>4, <1>8 DEF Written, Server, TakesRealm
<1>10. Accounts(b) /\ Only(st, b, {s}) /\ b.ss[s] = y
  <2>1. SameAccount(st.ss[s], y)
    BY <1>1, <1>6, Zenon DEF SameAccount
  <2> QED BY <1>5, <1>7, <1>9, <2>1, Rewritten
<1>11. Calm(st, b)
  BY <1>1, <1>6, <1>10, Zenon DEF Calm, Only
<1> QED BY <1>1, <1>6, <1>8, <1>10, <1>11 DEF Settled

(* The client socket of session s goes to session o.                          *)
LEMMA SocketMoved ==
  ASSUME OneRealm, NEW st, Accounts(st), NEW s \in DOMAIN st.ss, NEW o \in DOMAIN st.ss, s # o
  PROVE  /\ Accounts(SocketMoves(st, s, o)) /\ Only(st, SocketMoves(st, s, o), {s, o})
         /\ \A q \in {s, o} : /\ SocketMoves(st, s, o).ss[q].live = st.ss[q].live
                              /\ SocketMoves(st, s, o).ss[q].mobile = st.ss[q].mobile
                              /\ SocketMoves(st, s, o).ss[q].valid = st.ss[q].valid
<1>1. PICK x : x = st.ss[o]
  OBVIOUS
<1>2. st \in Server /\ x \in SessionRecord /\ Proper(x)
  BY <1>1, SessionOf
<1>3. PICK y : y = [x EXCEPT !.client = "open"]
  OBVIOUS
<1>4. y \in SessionRecord
  BY <1>2, <1>3 DEF SessionRecord
<1>5. /\ y.live = x.live /\ y.client = "open" /\ y.valid = x.valid
      /\ y.relay = x.relay /\ y.timer = x.timer /\ y.mobile = x.mobile
      /\ y.mid = x.mid /\ y.quota = x.quota /\ y.bps = x.bps /\ y.user = x.user
      /\ y.realm = x.realm /\ y.key = x.key /\ y.watchdog = x.watchdog
  BY <1>2, <1>3 DEF SessionRecord
<1>6. Proper(y)
  BY <1>2, <1>5, Zenon DEF Proper
<1>7. PICK b : b = [st EXCEPT !.ss[o] = y]
  OBVIOUS
<1>8. b = [st EXCEPT !.ss[o].client = "open"]
  BY <1>1, <1>2, <1>3, <1>7 DEF Server
<1>9. Accounts(b) /\ Only(st, b, {o}) /\ b.ss[o] = y
  <2>1. SameAccount(st.ss[o], y)
    BY <1>1, <1>5, Zenon DEF SameAccount
  <2>2. Written(st, b, o, y)
    BY <1>7 DEF Written
  <2> QED BY <1>4, <1>6, <2>1, <2>2, Rewritten
<1>10. PICK w : w = b.ss[s]
  OBVIOUS
<1>11. b \in Server /\ w \in SessionRecord /\ Proper(w) /\ w = st.ss[s] /\ s \in DOMAIN b.ss
  <2>1. s \in DOMAIN b.ss /\ b.ss[s] = st.ss[s]
    BY <1>9 DEF Only
  <2> QED BY <1>9, <1>10, <2>1, SessionOf
<1>12. PICK z : z = [w EXCEPT !.client = "none"]
  OBVIOUS
<1>13. z \in SessionRecord
  BY <1>11, <1>12 DEF SessionRecord
<1>14. /\ z.live = w.live /\ z.client = "none" /\ z.valid = w.valid
       /\ z.relay = w.relay /\ z.timer = w.timer /\ z.mobile = w.mobile
       /\ z.mid = w.mid /\ z.quota = w.quota /\ z.bps = w.bps /\ z.user = w.user
       /\ z.realm = w.realm /\ z.key = w.key /\ z.watchdog = w.watchdog
  BY <1>11, <1>12 DEF SessionRecord
<1>15. Proper(z)
  BY <1>11, <1>14, Zenon DEF Proper
<1>16. PICK c : c = [b EXCEPT !.ss[s] = z]
  OBVIOUS
<1>17. c = [b EXCEPT !.ss[s].client = "none"]
  BY <1>10, <1>11, <1>12, <1>16 DEF Server
<1>18. Accounts(c) /\ Only(b, c, {s}) /\ c.ss[s] = z
  <2>1. SameAccount(b.ss[s], z)
    BY <1>10, <1>14, Zenon DEF SameAccount
  <2>2. Written(b, c, s, z)
    BY <1>16 DEF Written
  <2> QED BY <1>9, <1>11, <1>13, <1>15, <2>1, <2>2, Rewritten
<1>19. SocketMoves(st, s, o) = c
  BY <1>8, <1>17 DEF SocketMoves
<1>20. Only(st, c, {s, o})
  BY <1>9, <1>18, Zenon DEF Only
<1>21. c.ss[o] = y
  BY <1>9, <1>18 DEF Only
<1>22. \A q \in {s, o} : c.ss[q].live = st.ss[q].live /\ c.ss[q].mobile = st.ss[q].mobile /\ c.ss[q].valid = st.ss[q].valid
  BY <1>1, <1>5, <1>11, <1>14, <1>18, <1>21, Zenon
<1> QED BY <1>18, <1>19, <1>20, <1>22

(* Steps that touch only sessions s and o, which stay as alive, as mobile and *)
(* as valid as they were.                                                     *)
Trail(st, st2, s, o) ==
  /\ Accounts(st2) /\ Only(st, st2, {s, o}) /\ s \in DOMAIN st2.ss /\ o \in DOMAIN st2.ss
  /\ \A q \in {s, o} : st2.ss[q].live = st.ss[q].live /\ st2.ss[q].mobile = st.ss[q].mobile /\ st2.ss[q].valid = st.ss[q].valid

LEMMA TrailGoesOn ==
  ASSUME NEW st, NEW a, NEW b, NEW s \in DOMAIN st.ss, NEW o \in DOMAIN st.ss, Trail(st, a, s, o), NEW T \in SUBSET {s, o},
         Settled(a, b, T)
  PROVE  Trail(st, b, s, o)
<1>1. Accounts(b)
  BY DEF Settled
<1>2. Only(st, b, {s, o})
  <2>1. DOMAIN b.ss = DOMAIN st.ss /\ Len(b.ss) = Len(st.ss)
    BY DEF Settled, Only, Trail
  <2>2. ASSUME NEW q \in DOMAIN st.ss, q \notin {s, o} PROVE b.ss[q] = st.ss[q]
    <3>1. a.ss[q] = st.ss[q] /\ q \in DOMAIN a.ss
      BY <2>2 DEF Trail, Only
    <3>2. q \notin T
      BY <2>2
    <3> QED BY <3>1, <3>2 DEF Settled, Only
  <2> QED BY <2>1, <2>2 DEF Only
<1>3. s \in DOMAIN b.ss /\ o \in DOMAIN b.ss
  BY <1>2 DEF Only
<1>4. ASSUME NEW q \in {s, o}
      PROVE  b.ss[q].live = st.ss[q].live /\ b.ss[q].mobile = st.ss[q].mobile /\ b.ss[q].valid = st.ss[q].valid
  <2>1. q \in DOMAIN a.ss
    BY DEF Trail
  <2>2. b.ss[q].live = a.ss[q].live /\ b.ss[q].mobile = a.ss[q].mobile /\ b.ss[q].valid = a.ss[q].valid
    BY <2>1 DEF Settled, Calm
  <2>3. a.ss[q].live = st.ss[q].live /\ a.ss[q].mobile = st.ss[q].mobile /\ a.ss[q].valid = st.ss[q].valid
    BY DEF Trail
  <2> QED BY <2>2, <2>3
<1> QED BY <1>1, <1>2, <1>3, <1>4 DEF Trail

(* handle_turn_refresh with a ticket.                                         *)
LEMMA BooksRefresh ==
  ASSUME OneRealm, Books(srv), NEW s \in DOMAIN srv.ss, NEW t \in Ticket, NEW fresh \in Ticket, NEW authentic \in BOOLEAN,
         handle_turn_refresh(s, t, authentic, fresh)
  PROVE  Books(srv')
<1>1. PICK o : o = srv.mobile_map[t]
  OBVIOUS
<1>2. /\ srv.ss[s].live /\ ~srv.ss[s].valid /\ Accounts(srv)
      /\ o # 0 /\ o # s /\ srv.ss[o].mobile
  BY <1>1 DEF handle_turn_refresh, LiveSession, Books
<1>3. o \in DOMAIN srv.ss /\ srv.ss[o].live
  BY <1>1, <1>2 DEF Accounts, Homes
<1>4. srv.ss[o].key /\ srv.ss[o].realm \in Realm
  <2>1. srv.ss[o] \in SessionRecord /\ Proper(srv.ss[o])
    BY <1>2, <1>3, SessionOf
  <2>2. srv.ss[o].key
    BY <1>2, <2>1, Zenon DEF Proper
  <2>3. PICK x : x = srv.ss[o]
    OBVIOUS
  <2>4. x.realm \in Realm
    BY <2>1, <2>3 DEF SessionRecord
  <2> QED BY <2>2, <2>3, <2>4
<1>5. Trail(srv, srv, s, o)
  BY <1>2, <1>3, Zenon DEF Trail, Only
<1>6. PICK a : a = TakesRealm(srv, s, srv.ss[o].realm)
  OBVIOUS
<1>7. Settled(srv, a, {s}) /\ Trail(srv, a, s, o)
  <2>1. Settled(srv, a, {s})
    BY <1>2, <1>4, <1>6, RealmTaken
  <2> QED BY <1>3, <1>5, <2>1, TrailGoesOn
<1>8. PICK b : b = IF a.ss[s].key THEN a ELSE copy_auth_parameters(a, o, s)
  OBVIOUS
<1>9. Trail(srv, b, s, o) /\ Only(srv, b, {s})
  <2>1. CASE a.ss[s].key
    BY <1>7, <1>8, <2>1 DEF Settled
  <2>2. CASE ~a.ss[s].key
    <3>1. b = copy_auth_parameters(a, o, s)
      BY <1>8, <2>2
    <3>2. /\ Accounts(a) /\ o \in DOMAIN a.ss /\ s \in DOMAIN a.ss /\ a.ss[s].live
      BY <1>2, <1>7, Zenon DEF Trail
    <3>3. a.ss[o] = srv.ss[o]
      BY <1>2, <1>3, <1>7 DEF Settled, Only
    <3>4. a.ss[o].key
      BY <1>4, <3>3
    <3>5. Settled(a, b, {s})
      BY <3>1, <3>2, <3>4, NameCopied
    <3>6. Trail(srv, b, s, o)
      BY <1>3, <1>7, <3>5, TrailGoesOn
    <3>7. Settled(srv, b, {s})
      BY <1>7, <3>5, SettledTwice
    <3> QED BY <3>6, <3>7 DEF Settled
  <2> QED BY <2>1, <2>2
<1>10. CASE ~authentic
  <2>1. srv' = b
    BY <1>1, <1>6, <1>8, <1>10, Zenon DEF handle_turn_refresh
  <2>2. ~b.ss[s].valid /\ Accounts(b)
    BY <1>2, <1>9, Zenon DEF Trail
  <2>3. \A q \in DOMAIN srv.ss : q \in {s} => Counted(b.ss[q])
    BY <2>2, Zenon DEF Counted
  <2> QED BY <1>9, <2>1, <2>2, <2>3, BooksKept
<1>11. CASE authentic
  <2>1. PICK c : c = SocketMoves(b, s, o)
    OBVIOUS
  <2>2. Trail(srv, c, s, o)
    <3>1. Accounts(b) /\ s \in DOMAIN b.ss /\ o \in DOMAIN b.ss
      BY <1>9 DEF Trail
    <3>2. /\ Accounts(c) /\ Only(b, c, {s, o})
          /\ \A q \in {s, o} : c.ss[q].live = b.ss[q].live /\ c.ss[q].mobile = b.ss[q].mobile /\ c.ss[q].valid = b.ss[q].valid
      BY <1>2, <2>1, <3>1, SocketMoved
    <3>3. Only(srv, c, {s, o})
      BY <1>9, <3>2, Zenon DEF Only, Trail
    <3>4. \A q \in {s, o} : c.ss[q].live = srv.ss[q].live /\ c.ss[q].mobile = srv.ss[q].mobile /\ c.ss[q].valid = srv.ss[q].valid
      BY <1>9, <3>2, Zenon DEF Trail
    <3>5. s \in DOMAIN c.ss /\ o \in DOMAIN c.ss
      BY <3>1, <3>2 DEF Only
    <3> QED BY <3>2, <3>3, <3>4, <3>5 DEF Trail
  <2>3. PICK d : d = IF c.ss[s].key THEN copy_auth_parameters(c, s, o) ELSE c
    OBVIOUS
  <2>4. Trail(srv, d, s, o)
    <3>1. CASE ~c.ss[s].key
      BY <2>2, <2>3, <3>1
    <3>2. CASE c.ss[s].key
      <4>1. d = copy_auth_parameters(c, s, o)
        BY <2>3, <3>2
      <4>2. /\ Accounts(c) /\ o \in DOMAIN c.ss /\ s \in DOMAIN c.ss /\ c.ss[o].live
        BY <1>3, <2>2, Zenon DEF Trail
      <4>3. Settled(c, d, {o})
        BY <3>2, <4>1, <4>2, NameCopied
      <4> QED BY <1>3, <2>2, <4>3, TrailGoesOn
    <3> QED BY <3>1, <3>2
  <2>5. PICK n : n = delete_session_from_mobile_map(d, s)
    OBVIOUS
  <2>6. Trail(srv, n, s, o)
    <3>1. Accounts(d) /\ s \in DOMAIN d.ss
      BY <2>4 DEF Trail
    <3>2. Ticketed(d, n, s)
      BY <2>5, <3>1, TicketTaken
    <3>3. Settled(d, n, {s})
      BY <3>2 DEF Ticketed, Settled
    <3> QED BY <1>3, <2>4, <3>3, TrailGoesOn
  <2>7. PICK e : e = delete_session_from_mobile_map(n, o)
    OBVIOUS
  <2>8. Trail(srv, e, s, o) /\ e.ss[o].mid = 0
    <3>1. Accounts(n) /\ o \in DOMAIN n.ss
      BY <2>6 DEF Trail
    <3>2. Ticketed(n, e, o) /\ e.ss[o].mid = 0
      BY <2>7, <3>1, TicketTaken
    <3>3. Settled(n, e, {o})
      BY <3>2 DEF Ticketed, Settled
    <3> QED BY <1>3, <2>6, <3>2, <3>3, TrailGoesOn
  <2>9. /\ fresh \in NewTicket(e)
        /\ srv' = shutdown_client_connection(
                    inc_quota(dec_quota(put_session_into_mobile_map(e, o, fresh), s), o, e.ss[o].user), s, FALSE)
    BY <1>1, <1>6, <1>8, <1>11, <2>1, <2>3, <2>5, <2>7, Zenon DEF handle_turn_refresh
  <2>10. Accounts(e) /\ o \in DOMAIN e.ss /\ e.ss[o].live /\ e.ss[o].mobile /\ e.mobile_map[fresh] = 0
    <3>1. Accounts(e) /\ o \in DOMAIN e.ss /\ e.ss[o].live /\ e.ss[o].mobile
      BY <1>2, <1>3, <2>8, Zenon DEF Trail
    <3>2. e.mobile_map[fresh] = 0
      BY <2>9 DEF NewTicket
    <3> QED BY <3>1, <3>2
  <2>11. PICK u : u = e.ss[o].user
    OBVIOUS
  <2>12. u \in User
    <3>1. Proper(e.ss[o])
      BY <2>10, SessionOf
    <3> QED BY <2>10, <2>11, <3>1, Zenon DEF Proper
  <2>13. PICK f : f = put_session_into_mobile_map(e, o, fresh)
    OBVIOUS
  <2>14. Trail(srv, f, s, o)
    <3>1. Ticketed(e, f, o)
      BY <2>8, <2>10, <2>13, TicketGiven
    <3>2. Settled(e, f, {o})
      BY <3>1 DEF Ticketed, Settled
    <3> QED BY <1>3, <2>8, <3>2, TrailGoesOn
  <2>15. PICK h : h = dec_quota(f, s)
    OBVIOUS
  <2>16. Trail(srv, h, s, o)
    <3>1. Accounts(f) /\ s \in DOMAIN f.ss
      BY <2>14 DEF Trail
    <3>2. Settled(f, h, {s})
      BY <2>15, <3>1, QuotaReturned DEF Settled
    <3> QED BY <1>3, <2>14, <3>2, TrailGoesOn
  <2>17. PICK g : g = inc_quota(h, o, u)
    OBVIOUS
  <2>18. Trail(srv, g, s, o)
    <3>1. Accounts(h) /\ o \in DOMAIN h.ss /\ h.ss[o].live
      BY <1>3, <2>16, Zenon DEF Trail
    <3>2. Settled(h, g, {o})
      BY <2>12, <2>17, <3>1, QuotaTaken DEF Settled
    <3> QED BY <1>3, <2>16, <3>2, TrailGoesOn
  <2>19. srv' = shutdown_client_connection(g, s, FALSE)
    BY <2>9, <2>11, <2>13, <2>15, <2>17
  <2>20. Closed(g, srv', s)
    <3>1. Accounts(g) /\ s \in DOMAIN g.ss /\ g.ss[s].live
      BY <1>2, <2>18, Zenon DEF Trail
    <3> QED BY <2>19, <3>1, ShutDown
  <2>21. Only(srv, srv', {s, o})
    BY <2>18, <2>20, Zenon DEF Trail, Closed, Only
  <2>22. Counted(srv'.ss[s])
    BY <2>20 DEF Closed, Counted
  <2>23. Counted(srv'.ss[o])
    <3>1. o \in DOMAIN g.ss /\ g.ss[o].mobile
      BY <1>2, <2>18, Zenon DEF Trail
    <3>2. srv'.ss[o] = g.ss[o]
      BY <1>2, <2>20, <3>1 DEF Closed, Only
    <3> QED BY <3>1, <3>2, Zenon DEF Counted
  <2>24. Accounts(srv')
    BY <2>20 DEF Closed
  <2>25. \A q \in DOMAIN srv.ss : q \in {s, o} => Counted(srv'.ss[q])
    BY <2>22, <2>23
  <2> QED BY <2>21, <2>24, <2>25, BooksKept
<1> QED BY <1>10, <1>11

Joined(st, st2, k, y) ==
  /\ Accounts(st2) /\ Len(st2.ss) = k /\ DOMAIN st2.ss = DOMAIN st.ss \cup {k} /\ st2.ss[k] = y
  /\ \A q \in DOMAIN st.ss : st2.ss[q] = st.ss[q]
  /\ st2.mobile_map = st.mobile_map

(* A server with one session more, which holds nothing.                       *)
LEMMA SessionAdded ==
  ASSUME NEW st, Accounts(st), NEW y \in SessionRecord, Proper(y), Counted(y), y.bps = 0, y.mid = 0, y.live, ~y.quota,
         NEW st2, st2 = [st EXCEPT !.ss = Append(st.ss, y)], NEW k, k = Len(st.ss) + 1
  PROVE  Joined(st, st2, k, y)
<1>0. st \in Server /\ Quotas(st) /\ Bandwidth(st) /\ Homes(st) /\ \A q \in DOMAIN st.ss : Proper(st.ss[q])
  BY DEF Accounts
<1>1. /\ st2.ss = Append(st.ss, y) /\ st2.mobile_map = st.mobile_map /\ st2.bps = st.bps
      /\ st2.alloc_counters = st.alloc_counters /\ st2.total = st.total
  BY <1>0 DEF Server
<1>2. PICK ss : ss = st.ss
  OBVIOUS
<1>3. PICK T : T = SessionRecord
  OBVIOUS
<1>4. ss \in Seq(T) /\ y \in T
  BY <1>0, <1>2, <1>3, ServerParts
<1>5. PICK ss2 : ss2 = Append(ss, y)
  OBVIOUS
<1>6. /\ ss2 \in Seq(T) /\ Len(ss2) = k /\ DOMAIN ss2 = DOMAIN ss \cup {k} /\ ss2[k] = y /\ k \notin DOMAIN ss
      /\ \A q \in DOMAIN ss : ss2[q] = ss[q]
  BY <1>2, <1>4, <1>5
<1>7. st2.ss = ss2 /\ ss2 \in Seq(SessionRecord)
  BY <1>1, <1>2, <1>3, <1>5, <1>6
<1>8. st2 \in Server
  <2>1. st2 = [ss |-> st2.ss, mobile_map |-> st2.mobile_map, alloc_counters |-> st2.alloc_counters,
               total |-> st2.total, bps |-> st2.bps]
    BY <1>0 DEF Server
  <2> QED BY <1>0, <1>1, <1>7, <2>1 DEF Server
<1>9. Quotas(st2)
  <2>1. \A r : Everyone(ss2, r) = Everyone(ss, r)
    BY <1>6, Zenon DEF Everyone
  <2>2. \A u, r : Own(ss2, u, r) = Own(ss, u, r)
    BY <1>6, Zenon DEF Own
  <2>3. ASSUME NEW r \in Realm PROVE st2.total[r] = Cardinality(Everyone(st2.ss, r))
    BY <1>0, <1>1, <1>2, <1>7, <2>1 DEF Quotas
  <2>4. ASSUME NEW r \in Realm, NEW u \in User PROVE st2.alloc_counters[r][u] = Cardinality(Own(st2.ss, u, r))
    BY <1>0, <1>1, <1>2, <1>7, <2>2 DEF Quotas
  <2> QED BY <2>3, <2>4 DEF Quotas
<1>10. Bandwidth(st2)
  <2>1. st.ss \in Seq(SessionRecord)
    BY <1>0, ServerParts
  <2>2. BpsHeld(Append(st.ss, y)) = BpsHeld(st.ss)
    BY <2>1, HeldByNew
  <2> QED BY <1>0, <1>1, <2>2 DEF Bandwidth
<1>11. Homes(st2)
  <2>1. ASSUME NEW i \in Ticket, st2.mobile_map[i] # 0
        PROVE  /\ st2.mobile_map[i] \in DOMAIN st2.ss
               /\ st2.ss[st2.mobile_map[i]].live
               /\ st2.ss[st2.mobile_map[i]].mid = i
    <3>1. /\ st.mobile_map[i] \in DOMAIN st.ss
          /\ st.ss[st.mobile_map[i]].live
          /\ st.ss[st.mobile_map[i]].mid = i
      BY <1>0, <1>1, <2>1 DEF Homes
    <3> QED BY <1>1, <1>2, <1>6, <1>7, <3>1
  <2>2. ASSUME NEW q \in DOMAIN st2.ss, st2.ss[q].live, st2.ss[q].mid # 0 PROVE st2.mobile_map[st2.ss[q].mid] = q
    <3>1. q # k
      BY <1>6, <1>7, <2>2
    <3>2. q \in DOMAIN st.ss /\ st2.ss[q] = st.ss[q]
      BY <1>2, <1>6, <1>7, <3>1
    <3> QED BY <1>0, <1>1, <2>2, <3>2 DEF Homes
  <2> QED BY <2>1, <2>2 DEF Homes
<1>12. ASSUME NEW q \in DOMAIN st2.ss PROVE Proper(st2.ss[q])
  <2>1. CASE q = k
    BY <1>6, <1>7, <2>1
  <2>2. CASE q # k
    BY <1>0, <1>2, <1>6, <1>7, <2>2
  <2> QED BY <2>1, <2>2
<1> QED BY <1>1, <1>2, <1>6, <1>7, <1>8, <1>9, <1>10, <1>11, <1>12 DEF Accounts, Joined

(* open_client_connection_session.                                            *)
LEMMA BooksOpen ==
  ASSUME OneRealm, Books(srv), NEW r \in Realm, NEW t \in Ticket, open_client_connection_session(r, t)
  PROVE  Books(srv')
<1>1. PICK k : k = Len(srv.ss) + 1
  OBVIOUS
<1>2. PICK yes : yes = TRUE
  OBVIOUS
<1>3. PICK no : no = FALSE
  OBVIOUS
<1>4. PICK y : y = [live |-> yes, client |-> "open", valid |-> no, relay |-> {}, timer |-> {},
                    mobile |-> no, mid |-> 0, quota |-> no, bps |-> 0, user |-> NoUser,
                    realm |-> r, key |-> no, watchdog |-> yes]
  OBVIOUS
<1>5. y \in SessionRecord
  BY <1>2, <1>3, <1>4 DEF SessionRecord
<1>6. y.live = yes /\ y.valid = no /\ y.mobile = no /\ y.quota = no /\ y.key = no /\ y.bps = 0 /\ y.mid = 0
  BY <1>4
<1>7. Proper(y) /\ Counted(y) /\ y.live /\ ~y.quota
  BY <1>2, <1>3, <1>6, Zenon DEF Proper, Counted
<1>8. PICK a : a = OpensSession(srv, r)
  OBVIOUS
<1>9. a = [srv EXCEPT !.ss = Append(srv.ss, y)]
  <2>1. EmptySession(r) = y
    BY <1>2, <1>3, <1>4, Zenon DEF EmptySession
  <2>2. a = [srv EXCEPT !.ss = Append(@, EmptySession(r))]
    BY <1>8, Zenon DEF OpensSession
  <2>3. srv \in Server
    BY DEF Books, Accounts
  <2> QED BY <2>1, <2>2, <2>3 DEF Server
<1>10. /\ Accounts(a) /\ Len(a.ss) = k /\ DOMAIN a.ss = DOMAIN srv.ss \cup {k} /\ a.ss[k] = y
       /\ \A q \in DOMAIN srv.ss : a.ss[q] = srv.ss[q]
       /\ a.mobile_map = srv.mobile_map
  <2>1. Accounts(srv)
    BY DEF Books
  <2>2. Proper(y) /\ Counted(y) /\ y.bps = 0 /\ y.mid = 0 /\ y.live /\ ~y.quota
    BY <1>6, <1>7
  <2>3. Joined(srv, a, k, y)
    BY <1>1, <1>5, <1>9, <2>1, <2>2, SessionAdded
  <2> QED BY <2>3 DEF Joined
<1>11. srv' = put_session_into_mobile_map(a, k, t) /\ srv.mobile_map[t] = 0 /\ Len(srv.ss) < MaxSession
  BY <1>1, <1>8 DEF open_client_connection_session, NewTicket
<1>12. Ticketed(a, srv', k)
  <2>1. k \in DOMAIN a.ss /\ a.ss[k].live /\ a.ss[k].mid = 0 /\ a.mobile_map[t] = 0
    BY <1>6, <1>7, <1>10, <1>11
  <2> QED BY <1>10, <1>11, <2>1, TicketGiven
<1>13. Books(a)
  <2>1. Len(a.ss) <= MaxSession
    <3>1. srv.ss \in Seq(SessionRecord)
      BY ServerParts DEF Books, Accounts
    <3>2. Len(srv.ss) \in Nat /\ MaxSession \in Nat
      BY <3>1, SessionAssumed DEF SessionAssumption
    <3> QED BY <1>1, <1>10, <1>11, <3>2
  <2>2. ASSUME NEW q \in DOMAIN a.ss PROVE Counted(a.ss[q])
    <3>1. CASE q = k
      BY <1>7, <1>10, <3>1
    <3>2. CASE q # k
      <4>1. q \in DOMAIN srv.ss /\ a.ss[q] = srv.ss[q]
        BY <1>10, <3>2
      <4>2. Counted(srv.ss[q])
        BY <4>1 DEF Books, Served
      <4> QED BY <4>1, <4>2
    <3> QED BY <3>1, <3>2
  <2> QED BY <1>10, <2>1, <2>2 DEF Books, Served
<1>14. Accounts(srv') /\ Only(a, srv', {k}) /\ Counted(srv'.ss[k])
  <2>1. Accounts(srv') /\ Only(a, srv', {k}) /\ k \in DOMAIN a.ss
    BY <1>10, <1>12 DEF Ticketed
  <2>2. ~a.ss[k].valid
    BY <1>3, <1>6, <1>10, Zenon
  <2>3. ~srv'.ss[k].valid
    BY <1>12, <2>1, <2>2, Zenon DEF Ticketed, Calm
  <2> QED BY <2>1, <2>3, Zenon DEF Counted
<1>15. \A q \in DOMAIN a.ss : q \in {k} => Counted(srv'.ss[q])
  BY <1>14
<1> QED BY <1>13, <1>14, <1>15, BooksKept

(* At first there is no session.                                              *)
LEMMA BooksFirst ==
  ASSUME SessionInit
  PROVE  Books(srv)
<1>1. /\ srv.ss = <<>> /\ srv.mobile_map = [t \in Ticket |-> 0] /\ srv.bps = 0
      /\ srv.alloc_counters = [r \in Realm |-> [u \in User |-> 0]] /\ srv.total = [r \in Realm |-> 0]
  BY DEF SessionInit
<1>2. <<>> \in Seq(SessionRecord) /\ Len(<<>>) = 0
  <2>1. PICK T : T = SessionRecord
    OBVIOUS
  <2> QED BY <2>1
<1>3. DOMAIN srv.ss = {}
  BY <1>1
<1>4. srv \in Server
  BY <1>2 DEF SessionInit, Server
<1>5. Quotas(srv)
  <2>1. \A u, r : Own(srv.ss, u, r) = {} /\ Everyone(srv.ss, r) = {}
    BY <1>3 DEF Own, Everyone
  <2>2. Cardinality({}) = 0
    BY FS_EmptySet
  <2>3. \A u, r : Cardinality(Own(srv.ss, u, r)) = 0 /\ Cardinality(Everyone(srv.ss, r)) = 0
    BY <2>1, <2>2, Zenon
  <2>4. ASSUME NEW r \in Realm PROVE srv.total[r] = 0 /\ \A u \in User : srv.alloc_counters[r][u] = 0
    BY <1>1
  <2> QED BY <2>3, <2>4, Zenon DEF Quotas
<1>6. Bandwidth(srv)
  <2>1. PICK w : w = [n \in 1 .. 0 |-> 0]
    OBVIOUS
  <2>2. PICK ss : ss = srv.ss
    OBVIOUS
  <2>3. PICK k : k = 0
    OBVIOUS
  <2>4. ss \in Seq(SessionRecord) /\ k = Len(ss) /\ k \in Nat
    BY <1>1, <1>2, <2>2, <2>3
  <2>5. w \in [1 .. Len(ss) -> Nat] /\ \A n \in 1 .. k : w[n] = ss[n].bps
    BY <2>1, <2>3, <2>4
  <2>6. PICK h \in [0 .. k -> Nat] : Sums(h, w, k) /\ BpsHeld(ss) = h[k]
    BY <2>4, <2>5, HeldIsSum
  <2>7. h[k] = 0
    <3>1. h = [n \in 0 .. k |-> IF n = 0 THEN 0 ELSE h[n - 1] + w[n]]
      BY <2>6 DEF Sums
    <3>2. k \in 0 .. k
      BY <2>4
    <3> QED BY <2>3, <3>1, <3>2
  <2>8. BpsHeld(srv.ss) = 0
    BY <2>2, <2>6, <2>7
  <2>9. BpsCapacity \in Nat
    BY SessionAssumed DEF SessionAssumption
  <2> QED BY <1>1, <2>8, <2>9 DEF Bandwidth
<1>7. Homes(srv)
  BY <1>1, <1>3 DEF Homes
<1>8. MaxSession \in Nat
  BY SessionAssumed DEF SessionAssumption
<1> QED BY <1>1, <1>2, <1>3, <1>4, <1>5, <1>6, <1>7, <1>8 DEF Books, Accounts, Served

(* Every step keeps the books.                                                *)
LEMMA BooksStep ==
  ASSUME OneRealm, Books(srv), [SessionNext]_sessionVars
  PROVE  Books(srv')
<1>0. Accounts(srv)
  BY DEF Books
<1>1. CASE UNCHANGED sessionVars
  BY <1>1 DEF sessionVars
<1>2. ASSUME NEW r \in Realm, NEW t \in Ticket, open_client_connection_session(r, t)
      PROVE  Books(srv')
  BY <1>2, BooksOpen
<1>3. ASSUME NEW s \in Session, NEW u \in User, NEW mobility \in BOOLEAN, NEW bps \in Bps, NEW got \in SUBSET Family,
             handle_turn_allocate(s, u, mobility, bps, got)
      PROVE  Books(srv')
  BY <1>3, BooksAllocate DEF Session
<1>4. ASSUME NEW s \in Session, NEW t \in Ticket, NEW fresh \in Ticket, NEW authentic \in BOOLEAN,
             handle_turn_refresh(s, t, authentic, fresh)
      PROVE  Books(srv')
  BY <1>4, BooksRefresh DEF Session
<1>5. ASSUME NEW s \in Session, NEW f \in Family, client_ss_allocation_timeout_handler(s, f)
      PROVE  Books(srv')
  <2>1. s \in DOMAIN srv.ss /\ srv.ss[s].live
    BY <1>5 DEF client_ss_allocation_timeout_handler, LiveSession, Session
  <2>2. PICK a : a = LosesRelay(srv, s, f)
    OBVIOUS
  <2>3. Books(a) /\ s \in DOMAIN a.ss /\ a.ss[s].live
    BY <2>1, <2>2, RelayLost
  <2>4. srv' = a \/ srv' = shutdown_client_connection(a, s, FALSE)
    BY <1>5, <2>2, Zenon DEF client_ss_allocation_timeout_handler
  <2>5. CASE srv' = shutdown_client_connection(a, s, FALSE)
    <3>1. Closed(a, srv', s)
      BY <2>3, <2>5, ShutDown DEF Books
    <3> QED BY <2>3, <3>1, BooksClosed
  <2> QED BY <2>3, <2>4, <2>5
<1>6. ASSUME NEW s \in Session, client_to_be_allocated_timeout_handler(s)
      PROVE  Books(srv')
  <2>1. s \in DOMAIN srv.ss /\ srv.ss[s].live /\ srv' = shutdown_client_connection(srv, s, TRUE)
    BY <1>6 DEF client_to_be_allocated_timeout_handler, LiveSession, Session
  <2>2. Closed(srv, srv', s)
    BY <1>0, <2>1, ShutDown
  <2> QED BY <2>1, <2>2, BooksClosed
<1>7. ASSUME NEW s \in Session, turn_cancel_session(s)
      PROVE  Books(srv')
  <2>1. s \in DOMAIN srv.ss /\ srv.ss[s].live /\ srv' = shutdown_client_connection(srv, s, FALSE)
    BY <1>7 DEF turn_cancel_session, LiveSession, Session
  <2>2. Closed(srv, srv', s)
    BY <1>0, <2>1, ShutDown
  <2> QED BY <2>1, <2>2, BooksClosed
<1> QED BY <1>1, <1>2, <1>3, <1>4, <1>5, <1>6, <1>7, Zenon DEF SessionNext

(* What the books say.                                                        *)
LEMMA BooksSay ==
  ASSUME Books(srv)
  PROVE  SessionsAccounted
<1>0. /\ srv \in Server /\ Quotas(srv) /\ Bandwidth(srv) /\ Homes(srv) /\ \A q \in DOMAIN srv.ss : Proper(srv.ss[q])
      /\ Served(srv) /\ Len(srv.ss) <= MaxSession
  BY DEF Books, Accounts
<1>1. /\ srv.ss \in Seq(SessionRecord) /\ srv.mobile_map \in [Ticket -> Nat]
      /\ srv.alloc_counters \in [Realm -> [User -> Nat]] /\ srv.total \in [Realm -> Nat] /\ srv.bps \in Nat
      /\ \A q \in DOMAIN srv.ss : srv.ss[q] \in SessionRecord
  BY <1>0, ServerParts
<1>2. DOMAIN srv.ss = 1 .. Len(srv.ss) /\ Len(srv.ss) \in Nat
  <2>1. PICK T : T = SessionRecord
    OBVIOUS
  <2> QED BY <1>1, <2>1
<1>3. QuotaExact
  BY <1>0, Zenon DEF QuotaExact, Quotas, Own, Everyone, LiveSession, Session
<1>4. BpsExact
  BY <1>0 DEF BpsExact, Bandwidth
<1>5. TicketsLeadHome
  BY <1>0 DEF TicketsLeadHome, Homes, LiveSession, Session
<1>6. EndedHoldsNothing
  BY <1>0, Zenon DEF EndedHoldsNothing, Proper, LiveSession, Session
<1>7. ServedIsCounted
  BY <1>0, Zenon DEF ServedIsCounted, Served, Counted, LiveSession, Session
<1>8. SessionTypeOK
  <2>1. srv.mobile_map \in [Ticket -> 0 .. Len(srv.ss)]
    <3>1. \A t \in Ticket : srv.mobile_map[t] \in 0 .. Len(srv.ss)
      BY <1>0, <1>2 DEF Homes
    <3> QED BY <1>1, <3>1
  <2>2. MaxSession \in Nat
    BY SessionAssumed DEF SessionAssumption
  <2>3. \A u, r : /\ Cardinality(Own(srv.ss, u, r)) \in 0 .. MaxSession
                  /\ Cardinality(Everyone(srv.ss, r)) \in 0 .. MaxSession
    <3> TAKE u, r
    <3>1. Cardinality(Own(srv.ss, u, r)) \in 0 .. Len(srv.ss) /\ Cardinality(Everyone(srv.ss, r)) \in 0 .. Len(srv.ss)
      BY <1>1, CountedFinite
    <3> QED BY <1>0, <1>2, <2>2, <3>1
  <2>4. srv.alloc_counters \in [Realm -> [User -> 0 .. MaxSession]]
    <3>1. \A r \in Realm : \A u \in User : srv.alloc_counters[r][u] \in 0 .. MaxSession
      BY <1>0, <2>3 DEF Quotas
    <3>2. \A r \in Realm : srv.alloc_counters[r] \in [User -> 0 .. MaxSession]
      BY <1>1, <3>1
    <3> QED BY <1>1, <3>2
  <2>5. srv.total \in [Realm -> 0 .. MaxSession]
    <3>1. \A r \in Realm : srv.total[r] \in 0 .. MaxSession
      BY <1>0, <2>3 DEF Quotas
    <3> QED BY <1>1, <3>1
  <2>6. BpsCapacity # 0 => srv.bps \in 0 .. BpsCapacity
    <3>1. BpsCapacity \in Nat
      BY SessionAssumed DEF SessionAssumption
    <3> QED BY <1>0, <1>1, <3>1 DEF Bandwidth
  <2>7. ASSUME NEW s \in Session
        PROVE  srv.ss[s].relay \subseteq Family /\ srv.ss[s].mid \in Ticket \cup {0} /\ srv.ss[s].user \in User \cup {NoUser}
    <3>1. PICK x : x = srv.ss[s]
      OBVIOUS
    <3>2. x \in SessionRecord
      BY <1>1, <3>1 DEF Session
    <3>3. x.relay \subseteq Family /\ x.mid \in Ticket \cup {0} /\ x.user \in User \cup {NoUser}
      BY <3>2 DEF SessionRecord
    <3> QED BY <3>1, <3>3
  <2> QED BY <2>1, <2>4, <2>5, <2>6, <2>7 DEF SessionTypeOK
<1> QED BY <1>3, <1>4, <1>5, <1>6, <1>7, <1>8 DEF SessionsAccounted

(* On a server with one realm the account is always right, however sessions   *)
(* fail, move to another client socket and end: the quota counters, the       *)
(* bandwidth given out and the map of tickets are those of the live sessions  *)
(* (inc_quota, dec_quota, allocate_bps, dec_bps, handle_turn_refresh,         *)
(* shutdown_client_connection).                                               *)
THEOREM SessionsAlwaysAccounted ==
  ASSUME OneRealm
  PROVE  SessionSpec => []SessionsAccounted
<1>1. SessionInit => Books(srv)
  BY BooksFirst
<1>2. Books(srv) /\ [SessionNext]_sessionVars => Books(srv)'
  BY BooksStep
<1>3. Books(srv) => SessionsAccounted
  BY BooksSay
<1> QED BY <1>1, <1>2, <1>3, PTL DEF SessionSpec

=============================================================================
