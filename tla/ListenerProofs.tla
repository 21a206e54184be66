--------------------------- MODULE ListenerProofs ---------------------------
(* ListenerSound for every value of the constants of UdpListener, the address *)
(* map in which the listener looks its sockets up as a map, and StreamsKept   *)
(* of StunStream, what the server reads from a connection.                    *)
(*                                                                            *)
(* The operations of the listener are functions of the thread's state, and so *)
(* are the parts of the invariant: each operation keeps Good, and without     *)
(* failing calls Calm, of whatever state it is given, so what a handler does  *)
(* in several steps is proved one operation at a time.                        *)
EXTENDS UdpListener, AddrMap, StunStream, SequenceTheorems, FiniteSetTheorems,
        WellFoundedInduction, TLAPS

Socket ==
  [live : BOOLEAN, addr : Client, fd : Fd \cup {NoFd}, child : BOOLEAN, container : BOOLEAN,
   tobeclosed : BOOLEAN, ssl : BOOLEAN, session : Nat]

FdEntry == [kind : {"free", "listen", "conn"}, addr : Client \cup {<<>>}]

State ==
  [fd : Fd \cup {NoFd}, ev : BOOLEAN, fds : [Fd -> FdEntry], socks : Seq(Socket),
   children : [Client -> Nat], ss : Seq(Nat), ended : SUBSET Nat]

(* What refers to a socket or to a session refers to one that was made.       *)
Bounded(x) ==
  /\ \A c \in Client : x.children[c] <= Len(x.socks)
  /\ \A n \in 1 .. Len(x.ss) : x.ss[n] <= Len(x.socks)
  /\ \A s \in 1 .. Len(x.socks) : x.socks[s].session <= Len(x.ss)
  /\ \A n \in x.ended : n \in 1 .. Len(x.ss)

(* The socket has a descriptor of its own.                                    *)
Owns(x, s) == x.socks[s].live /\ ~x.socks[s].child /\ x.socks[s].fd # NoFd

(* DescriptorsOwned without counting: the owner of a descriptor is there and  *)
(* is the only one.                                                           *)
Owned(x) ==
  /\ x.ev => x.fd # NoFd
  /\ \A f \in Fd : x.fds[f].kind = "listen" <=> f = x.fd
  /\ \A s \in 1 .. Len(x.socks) : Owns(x, s) => x.fds[x.socks[s].fd].kind = "conn"
  /\ \A s, r \in 1 .. Len(x.socks) :
       Owns(x, s) /\ Owns(x, r) /\ x.socks[s].fd = x.socks[r].fd => s = r
  /\ \A f \in Fd : x.fds[f].kind = "conn" =>
       \E s \in 1 .. Len(x.socks) : Owns(x, s) /\ x.socks[s].fd = f

(* SessionSocketAlive of the state x.                                         *)
Linked(x) ==
  /\ \A n \in 1 .. Len(x.ss) : n \notin x.ended /\ x.ss[n] # 0 =>
       x.socks[x.ss[n]].live /\ x.socks[x.ss[n]].session = n
  /\ \A s \in 1 .. Len(x.socks) : x.socks[s].live /\ x.socks[s].session # 0 =>
       x.socks[s].session \notin x.ended /\ x.ss[x.socks[s].session] = s

(* MapHoldsChildren of the state x, and only what is in the map says so.      *)
Mapped(x) ==
  /\ \A c \in Client : x.children[c] # 0 =>
       LET s == x.socks[x.children[c]] IN s.live /\ s.child /\ s.container /\ s.addr = c
  /\ \A s \in 1 .. Len(x.socks) : x.socks[s].container => x.socks[s].child /\ x.socks[s].live

Good(x) == x \in State /\ Bounded(x) /\ Owned(x) /\ Linked(x) /\ Mapped(x)

(* A live child is found by its address, and there is none to be closed but   *)
(* perhaps m, the one that is being served.                                   *)
Calm(x, m) ==
  \A s \in 1 .. Len(x.socks) : x.socks[s].live /\ x.socks[s].child =>
    x.children[x.socks[s].addr] = s /\ (x.socks[s].tobeclosed => s = m)

ListenerInv ==
  /\ opt \in Options /\ reopened \in Nat
  /\ Good(st) /\ Len(st.socks) <= MaxSocket
  /\ ~opt.Failures => Calm(st, 0)

-----------------------------------------------------------------------------
(* A nonempty set of naturals has a least element, which Min names: the       *)
(* kernel's choice of a free number (NextFd).                                 *)
LEMMA MinOfNaturals ==
  ASSUME NEW S \in SUBSET Nat, S # {}
  PROVE  Min(S) \in S
<1> DEFINE R == OpToRel(<, Nat)
<1>1. IsWellFoundedOn(R, Nat)  BY NatLessThanWellFounded
<1>2. \A x, y \in Nat : y < x => <<y, x>> \in R  BY DEF OpToRel
<1> HIDE DEF R
<1>3. PICK x \in S : \A y \in S : ~(<<y, x>> \in R)  BY <1>1, WFMin
<1>4. \A y \in S : x <= y
  <2> TAKE y \in S
  <2>1. x \in Nat /\ y \in Nat  OBVIOUS
  <2>2. ~(y < x)  BY <1>2, <1>3, <2>1, Zenon
  <2> QED  BY <2>1, <2>2
<1> QED  BY <1>4 DEF Min

(* The numbers of n objects are n.                                            *)
LEMMA NumbersOf ==
  ASSUME NEW n \in Nat
  PROVE  IsFiniteSet(1 .. n) /\ Cardinality(1 .. n) = n
BY FS_Interval

(* While a socket can still be made there is a descriptor for it: the open    *)
(* ones are the listener's and those of as many sockets (NextFd).             *)
LEMMA FdIsFree ==
  ASSUME ListenerAssumption, NEW x, Good(x), Len(x.socks) < MaxSocket
  PROVE  NextFd(x) \in Fd /\ x.fds[NextFd(x)].kind = "free"
<1> DEFINE S == {f \in Fd : x.fds[f].kind = "free"}
           D == 1 .. Len(x.socks)
           O == Fd \ {x.fd}
<1>1. MaxSocket \in Nat /\ x \in State /\ Len(x.socks) \in Nat
  BY LenProperties DEF ListenerAssumption, Good, State
<1>2. IsFiniteSet(D) /\ Cardinality(D) = Len(x.socks)
  BY <1>1, NumbersOf
<1>3. IsFiniteSet(Fd) /\ Cardinality(Fd) = MaxSocket + 2
  BY <1>1, NumbersOf DEF Fd
<1>4. IsFiniteSet(O) /\ Cardinality(O) >= MaxSocket + 1
  <2>1. CASE x.fd \in Fd
    <3>1. IsFiniteSet(O) /\ Cardinality(O) = Cardinality(Fd) - 1  BY <1>3, <2>1, FS_RemoveElement
    <3> QED  BY <1>1, <1>3, <3>1
  <2>2. CASE x.fd \notin Fd
    <3>1. O = Fd  BY <2>2
    <3>2. IsFiniteSet(O) /\ Cardinality(O) = MaxSocket + 2  BY <1>3, <3>1, Zenon
    <3> HIDE DEF O
    <3> QED  BY <1>1, <3>2
  <2> QED  BY <2>1, <2>2
<1>5. S # {}
  <2> SUFFICES ASSUME S = {} PROVE FALSE  OBVIOUS
  <2>1. \A f \in O : x.fds[f].kind = "conn"
    <3> TAKE f \in O
    <3>1. x.fds[f] \in FdEntry  BY <1>1 DEF State
    <3>2. x.fds[f].kind # "free" /\ x.fds[f].kind # "listen"  BY DEF Good, Owned
    <3> QED  BY <3>1, <3>2 DEF FdEntry
  <2>2. \A f \in O : \E s \in D : Owns(x, s) /\ x.socks[s].fd = f
    BY <2>1 DEF Good, Owned
  <2> DEFINE g == [f \in O |-> CHOOSE s \in D : Owns(x, s) /\ x.socks[s].fd = f]
  <2>3. \A f \in O : g[f] \in D /\ x.socks[g[f]].fd = f
    <3> TAKE f \in O
    <3>1. PICK s \in D : Owns(x, s) /\ x.socks[s].fd = f  BY <2>2
    <3> QED  BY <3>1
  <2>4. g \in [O -> D]  BY <2>3
  <2> HIDE DEF g, D, O
  <2>5. \E f, h \in O : f # h /\ g[f] = g[h]
    <3>1. Cardinality(D) < Cardinality(O)  BY <1>1, <1>2, <1>4, FS_CardinalityType
    <3> QED  BY <1>2, <1>4, <2>4, <3>1, FS_PigeonHole
  <2> QED  BY <2>3, <2>5
<1>6. S \subseteq Nat  BY <1>1 DEF Fd
<1> HIDE DEF S
<1>7. Min(S) \in S  BY <1>5, <1>6, MinOfNaturals
<1>8. NextFd(x) = Min(S)  BY DEF S, NextFd
<1> QED  BY <1>7, <1>8 DEF S

(* What close_ioa_socket changes, field by field.                             *)
CloseResult(x, s, y) ==
  /\ y \in State
  /\ y.fd = x.fd /\ y.ev = x.ev /\ y.ended = x.ended
  /\ Len(y.socks) = Len(x.socks) /\ Len(y.ss) = Len(x.ss)
  /\ \A r \in 1 .. Len(x.socks) : r # s => y.socks[r] = x.socks[r]
  /\ y.socks[s] = [x.socks[s] EXCEPT !.live = FALSE, !.container = FALSE]
  /\ \A c \in Client : y.children[c] =
       IF x.socks[s].container /\ c = x.socks[s].addr THEN 0 ELSE x.children[c]
  /\ \A f \in Fd : y.fds[f] =
       IF ~x.socks[s].child /\ f = x.socks[s].fd THEN Free ELSE x.fds[f]
  /\ \A n \in 1 .. Len(x.ss) : y.ss[n] =
       IF n = x.socks[s].session /\ x.ss[n] = s THEN 0 ELSE x.ss[n]

(* close_ioa_socket does that.                                                *)
LEMMA CloseFields ==
  ASSUME NEW x \in State, NEW s \in 1 .. Len(x.socks)
  PROVE  CloseResult(x, s, close_ioa_socket(x, s))
<1> DEFINE o == [x.socks[s] EXCEPT !.live = FALSE, !.container = FALSE]
           socks == [x.socks EXCEPT ![s] = o]
           children == [c \in Client |-> IF x.socks[s].container /\ c = x.socks[s].addr THEN 0 ELSE x.children[c]]
           fds == [f \in Fd |-> IF ~x.socks[s].child /\ f = x.socks[s].fd THEN Free ELSE x.fds[f]]
           ss == [n \in DOMAIN x.ss |-> IF n = x.socks[s].session /\ x.ss[n] = s THEN 0 ELSE x.ss[n]]
           y == [fd |-> x.fd, ev |-> x.ev, fds |-> fds, socks |-> socks, children |-> children,
                 ss |-> ss, ended |-> x.ended]
<1>1. x.socks \in Seq(Socket) /\ x.ss \in Seq(Nat) /\ Len(x.socks) \in Nat /\ Len(x.ss) \in Nat
  BY LenProperties DEF State
<1>2. x.socks[s] \in Socket  BY <1>1, ElementOfSeq
<1>3. o \in Socket  BY <1>2 DEF Socket
<1>4. socks \in Seq(Socket) /\ Len(socks) = Len(x.socks)
      /\ socks[s] = o /\ \A r \in 1 .. Len(x.socks) : r # s => socks[r] = x.socks[r]
  <2> HIDE DEF o
  <2> QED  BY <1>1, <1>3, ExceptSeq, LenProperties
<1>5. ss \in Seq(Nat) /\ Len(ss) = Len(x.ss)
  <2>1. DOMAIN x.ss = 1 .. Len(x.ss) /\ \A n \in 1 .. Len(x.ss) : x.ss[n] \in Nat
    BY <1>1, LenProperties, ElementOfSeq
  <2>2. ss \in [1 .. Len(x.ss) -> Nat]  BY <2>1
  <2> HIDE DEF ss
  <2> QED  BY <1>1, <2>2, IsASeq, LenProperties
<1>6. children \in [Client -> Nat]  BY DEF State
<1>7. fds \in [Fd -> FdEntry]  BY DEF State, FdEntry, Free
<1>8. close_ioa_socket(x, s) = y
  <2>1. close_ioa_socket(x, s) = [x EXCEPT !.socks = socks, !.children = children, !.fds = fds, !.ss = ss]
    BY DEF close_ioa_socket
  <2> HIDE DEF socks, ss, children, fds
  <2> QED  BY <2>1 DEF State
<1>9. y \in State
  <2> HIDE DEF socks, ss, children, fds
  <2> QED  BY <1>4, <1>5, <1>6, <1>7 DEF State
<1> QED  BY <1>1, <1>4, <1>5, <1>8, <1>9, LenProperties DEF CloseResult

(* The types of what a state holds.                                           *)
LEMMA StateTypes ==
  ASSUME NEW x \in State
  PROVE  /\ Len(x.socks) \in Nat /\ Len(x.ss) \in Nat
         /\ DOMAIN x.socks = 1 .. Len(x.socks) /\ DOMAIN x.ss = 1 .. Len(x.ss)
         /\ \A s \in 1 .. Len(x.socks) : x.socks[s] \in Socket
         /\ \A n \in 1 .. Len(x.ss) : x.ss[n] \in Nat
         /\ \A c \in Client : x.children[c] \in Nat
         /\ \A f \in Fd : x.fds[f] \in FdEntry
<1>1. x.socks \in Seq(Socket) /\ x.ss \in Seq(Nat)  BY DEF State
<1>2. Len(x.socks) \in Nat /\ Len(x.ss) \in Nat
      /\ DOMAIN x.socks = 1 .. Len(x.socks) /\ DOMAIN x.ss = 1 .. Len(x.ss)
  BY <1>1, LenProperties
<1>3. \A s \in 1 .. Len(x.socks) : x.socks[s] \in Socket  BY <1>1, ElementOfSeq
<1>4. \A n \in 1 .. Len(x.ss) : x.ss[n] \in Nat  BY <1>1, ElementOfSeq
<1> QED  BY <1>2, <1>3, <1>4 DEF State

(* Closing a live socket keeps Good: only its own descriptor is closed, and   *)
(* its session and the map no longer lead to it.                              *)
LEMMA CloseGood ==
  ASSUME NEW x, Good(x), NEW s \in 1 .. Len(x.socks), x.socks[s].live
  PROVE  Good(close_ioa_socket(x, s))
<1> DEFINE y == close_ioa_socket(x, s)
<1>0. x \in State /\ Bounded(x) /\ Owned(x) /\ Linked(x) /\ Mapped(x)  BY DEF Good
<1>1. CloseResult(x, s, y)  BY <1>0, CloseFields, Zenon
<1> HIDE DEF y
<1>2. /\ Len(x.socks) \in Nat /\ Len(x.ss) \in Nat
      /\ \A r \in 1 .. Len(x.socks) : x.socks[r] \in Socket
      /\ \A n \in 1 .. Len(x.ss) : x.ss[n] \in Nat
      /\ \A c \in Client : x.children[c] \in Nat
      /\ \A f \in Fd : x.fds[f] \in FdEntry
  BY <1>0, StateTypes
<1>3. /\ y.socks[s].live = FALSE /\ y.socks[s].container = FALSE
      /\ y.socks[s].session = x.socks[s].session /\ y.socks[s].child = x.socks[s].child
      /\ y.socks[s].fd = x.socks[s].fd /\ y.socks[s].addr = x.socks[s].addr
  BY <1>1, <1>2 DEF Socket, CloseResult
<1>4. Bounded(y)
  <2>1. \A r \in 1 .. Len(x.socks) : y.socks[r].session = x.socks[r].session
    BY <1>1, <1>3 DEF CloseResult
  <2> QED  BY <1>0, <1>1, <1>2, <2>1 DEF Bounded, CloseResult
<1>5. Owned(y)
  <2>1. \A r \in 1 .. Len(x.socks) : Owns(y, r) <=> r # s /\ Owns(x, r)
    BY <1>1, <1>3 DEF Owns, CloseResult
  <2>2. \A r \in 1 .. Len(x.socks) : Owns(y, r) => y.socks[r].fd = x.socks[r].fd /\ x.socks[r].fd \in Fd
    BY <1>1, <1>2, <2>1 DEF Owns, Socket, CloseResult
  <2>3. \A f \in Fd : y.fds[f].kind = (IF ~x.socks[s].child /\ f = x.socks[s].fd THEN "free" ELSE x.fds[f].kind)
    BY <1>1 DEF Free, CloseResult
  <2>4. ~x.socks[s].child /\ x.socks[s].fd \in Fd => Owns(x, s)
    BY <1>2 DEF Owns, NoFd, Fd
  <2>5. \A f \in Fd : y.fds[f].kind = "listen" <=> f = y.fd
    BY <1>0, <1>1, <2>3, <2>4 DEF Owned, CloseResult
  <2>6. \A r \in 1 .. Len(y.socks) : Owns(y, r) => y.fds[y.socks[r].fd].kind = "conn"
    BY <1>0, <1>1, <2>1, <2>2, <2>3, <2>4 DEF Owned, CloseResult
  <2>7. \A q, r \in 1 .. Len(y.socks) : Owns(y, q) /\ Owns(y, r) /\ y.socks[q].fd = y.socks[r].fd => q = r
    BY <1>0, <1>1, <2>1, <2>2 DEF Owned, CloseResult
  <2>8. \A f \in Fd : y.fds[f].kind = "conn" => \E r \in 1 .. Len(y.socks) : Owns(y, r) /\ y.socks[r].fd = f
    <3> SUFFICES ASSUME NEW f \in Fd, y.fds[f].kind = "conn"
                 PROVE  \E r \in 1 .. Len(y.socks) : Owns(y, r) /\ y.socks[r].fd = f
      OBVIOUS
    <3>1. x.fds[f].kind = "conn" /\ ~(~x.socks[s].child /\ f = x.socks[s].fd)  BY <2>3
    <3>2. PICK r \in 1 .. Len(x.socks) : Owns(x, r) /\ x.socks[r].fd = f  BY <1>0, <3>1 DEF Owned
    <3>3. r # s  BY <3>1, <3>2 DEF Owns
    <3> QED  BY <1>1, <2>1, <2>2, <3>2, <3>3 DEF CloseResult
  <2> QED  BY <1>0, <1>1, <2>5, <2>6, <2>7, <2>8 DEF Owned, CloseResult
<1>6. Linked(y)
  <2>1. ASSUME NEW n \in 1 .. Len(y.ss), n \notin y.ended, y.ss[n] # 0
        PROVE  y.socks[y.ss[n]].live /\ y.socks[y.ss[n]].session = n
    <3>1. n \in 1 .. Len(x.ss) /\ y.ss[n] = x.ss[n] /\ n \notin x.ended /\ x.ss[n] # 0
      BY <1>1, <2>1 DEF CloseResult
    <3>2. x.socks[x.ss[n]].live /\ x.socks[x.ss[n]].session = n  BY <1>0, <3>1 DEF Linked
    <3>3. x.ss[n] # s  BY <1>1, <2>1, <3>1, <3>2 DEF CloseResult
    <3>4. x.ss[n] \in 1 .. Len(x.socks)  BY <1>0, <1>2, <3>1 DEF Bounded
    <3> QED  BY <1>1, <3>1, <3>2, <3>3, <3>4 DEF CloseResult
  <2>2. ASSUME NEW r \in 1 .. Len(y.socks), y.socks[r].live, y.socks[r].session # 0
        PROVE  y.socks[r].session \notin y.ended /\ y.ss[y.socks[r].session] = r
    <3>1. r # s /\ r \in 1 .. Len(x.socks) /\ y.socks[r] = x.socks[r]  BY <1>1, <1>3, <2>2 DEF CloseResult
    <3>2. x.socks[r].session \in 1 .. Len(x.ss)  BY <1>0, <1>2, <2>2, <3>1 DEF Bounded, Socket
    <3>3. x.socks[r].session \notin x.ended /\ x.ss[x.socks[r].session] = r
      BY <1>0, <2>2, <3>1 DEF Linked
    <3> QED  BY <1>1, <3>1, <3>2, <3>3 DEF CloseResult
  <2> QED  BY <2>1, <2>2 DEF Linked
<1>7. Mapped(y)
  <2>1. ASSUME NEW c \in Client, y.children[c] # 0
        PROVE  LET r == y.socks[y.children[c]] IN r.live /\ r.child /\ r.container /\ r.addr = c
    <3>1. y.children[c] = x.children[c] /\ x.children[c] # 0 /\ ~(x.socks[s].container /\ c = x.socks[s].addr)
      BY <1>1, <2>1 DEF CloseResult
    <3>2. x.children[c] # s  BY <1>0, <3>1 DEF Mapped
    <3>3. x.children[c] \in 1 .. Len(x.socks)  BY <1>0, <1>2, <3>1 DEF Bounded
    <3> QED  BY <1>0, <1>1, <3>1, <3>2, <3>3 DEF Mapped, CloseResult
  <2>2. \A r \in 1 .. Len(y.socks) : y.socks[r].container => y.socks[r].child /\ y.socks[r].live
    <3> SUFFICES ASSUME NEW r \in 1 .. Len(y.socks), y.socks[r].container
                 PROVE  y.socks[r].child /\ y.socks[r].live
      OBVIOUS
    <3>1. r # s /\ r \in 1 .. Len(x.socks)  BY <1>1, <1>3 DEF CloseResult
    <3>2. y.socks[r] = x.socks[r]  BY <1>1, <3>1 DEF CloseResult
    <3> QED  BY <1>0, <3>1, <3>2 DEF Mapped
  <2> QED  BY <2>1, <2>2 DEF Mapped
<1>8. Good(y)  BY <1>1, <1>4, <1>5, <1>6, <1>7 DEF Good, CloseResult
<1> QED  BY <1>8 DEF y

(* Closing a socket keeps Calm: no other child has the address it leaves.     *)
LEMMA CloseCalm ==
  ASSUME NEW x, Good(x), NEW s \in 1 .. Len(x.socks), x.socks[s].live, NEW m, Calm(x, m)
  PROVE  Calm(close_ioa_socket(x, s), m) /\ (m = s => Calm(close_ioa_socket(x, s), 0))
<1> DEFINE y == close_ioa_socket(x, s)
<1>0. x \in State /\ Mapped(x)  BY DEF Good
<1>1. CloseResult(x, s, y)  BY <1>0, CloseFields, Zenon
<1> HIDE DEF y
<1>2. \A r \in 1 .. Len(x.socks) : x.socks[r] \in Socket  BY <1>0, StateTypes
<1>3. ~y.socks[s].live  BY <1>1, <1>2 DEF Socket, CloseResult
<1>4. ASSUME NEW r \in 1 .. Len(y.socks), y.socks[r].live, y.socks[r].child
      PROVE  y.children[y.socks[r].addr] = r /\ (y.socks[r].tobeclosed => r = m) /\ r # s
  <2>1. r # s /\ r \in 1 .. Len(x.socks) /\ y.socks[r] = x.socks[r]  BY <1>1, <1>3, <1>4 DEF CloseResult
  <2>2. x.children[x.socks[r].addr] = r /\ (x.socks[r].tobeclosed => r = m)
    BY <1>4, <2>1 DEF Calm
  <2>3. ~(x.socks[s].container /\ x.socks[r].addr = x.socks[s].addr)
    BY <1>0, <2>1, <2>2 DEF Calm, Mapped
  <2>4. x.socks[r].addr \in Client  BY <1>2, <2>1 DEF Socket
  <2> QED  BY <1>1, <2>1, <2>2, <2>3, <2>4 DEF CloseResult
<1>5. Calm(y, m) /\ (m = s => Calm(y, 0))  BY <1>4 DEF Calm
<1> QED  BY <1>5 DEF y

(* Ending a session keeps Good and Calm, and leaves it no socket.             *)
LEMMA ShutdownGood ==
  ASSUME NEW x, Good(x), NEW n \in 1 .. Len(x.ss), n \notin x.ended
  PROVE  LET y == shutdown_client_connection(x, n) IN
         /\ Good(y) /\ Len(y.socks) = Len(x.socks)
         /\ \A m : Calm(x, m) => Calm(y, m)
         /\ \A m : Calm(x, m) /\ m = x.ss[n] => Calm(y, 0)
<1> DEFINE c == IF x.ss[n] = 0 THEN x ELSE close_ioa_socket(x, x.ss[n])
           y == shutdown_client_connection(x, n)
<1>0. x \in State /\ Bounded(x) /\ Linked(x)  BY DEF Good
<1>1. x.ss[n] \in Nat /\ Len(x.ss) \in Nat /\ Len(x.socks) \in Nat  BY <1>0, StateTypes
<1>2. x.ss[n] # 0 => x.ss[n] \in 1 .. Len(x.socks) /\ x.socks[x.ss[n]].live /\ x.socks[x.ss[n]].session = n
  BY <1>0, <1>1 DEF Bounded, Linked
<1>3. Good(c)  BY <1>2, CloseGood
<1>4. Len(c.socks) = Len(x.socks) /\ Len(c.ss) = Len(x.ss) /\ c.ended = x.ended
  <2>1. CASE x.ss[n] = 0  BY <2>1
  <2>2. CASE x.ss[n] # 0
    <3>1. CloseResult(x, x.ss[n], c)  BY <1>0, <1>2, <2>2, CloseFields
    <3> HIDE DEF c
    <3> QED  BY <3>1 DEF CloseResult
  <2> QED  BY <2>1, <2>2
<1>5. c.ss[n] = 0
  <2>1. CASE x.ss[n] = 0  BY <2>1
  <2>2. CASE x.ss[n] # 0
    <3>1. CloseResult(x, x.ss[n], c)  BY <1>0, <1>2, <2>2, CloseFields
    <3> QED  BY <1>2, <2>2, <3>1 DEF CloseResult
  <2> QED  BY <2>1, <2>2
<1>6. \A m : Calm(x, m) => Calm(c, m) /\ (m = x.ss[n] => Calm(c, 0))
  <2>1. CASE x.ss[n] = 0  BY <2>1
  <2>2. CASE x.ss[n] # 0  BY <1>2, <2>2, CloseCalm
  <2> QED  BY <2>1, <2>2
<1>7. y = [c EXCEPT !.ended = @ \cup {n}]  BY DEF shutdown_client_connection
<1> HIDE DEF c, y
<1>8. c \in State  BY <1>3 DEF Good
<1>9. /\ y \in State /\ y.fd = c.fd /\ y.ev = c.ev /\ y.fds = c.fds /\ y.socks = c.socks
      /\ y.children = c.children /\ y.ss = c.ss /\ y.ended = c.ended \cup {n}
  <2>1. n \in Nat /\ c.ended \in SUBSET Nat  BY <1>1, <1>8 DEF State
  <2> DEFINE e == c.ended \cup {n}
  <2>2. e \in SUBSET Nat /\ y = [c EXCEPT !.ended = e]  BY <1>7, <2>1
  <2> HIDE DEF e
  <2>3. /\ y \in State /\ y.fd = c.fd /\ y.ev = c.ev /\ y.fds = c.fds /\ y.socks = c.socks
        /\ y.children = c.children /\ y.ss = c.ss /\ y.ended = e
    BY <1>8, <2>2 DEF State
  <2> QED  BY <2>3 DEF e
<1>10. Bounded(y)  BY <1>3, <1>4, <1>9 DEF Good, Bounded
<1>11. Owned(y)  BY <1>3, <1>9 DEF Good, Owned, Owns
<1>12. Mapped(y)  BY <1>3, <1>9 DEF Good, Mapped
<1>13. Linked(y)
  <2>1. \A s \in 1 .. Len(c.socks) : c.socks[s].live /\ c.socks[s].session # 0 => c.socks[s].session # n
    BY <1>3, <1>5, StateTypes DEF Good, Linked
  <2> QED  BY <1>3, <1>9, <2>1 DEF Good, Linked
<1>14. \A m : Calm(c, m) => Calm(y, m)  BY <1>9 DEF Calm
<1>15. Good(y)  BY <1>9, <1>10, <1>11, <1>12, <1>13 DEF Good
<1> QED  BY <1>4, <1>6, <1>9, <1>14, <1>15 DEF y

(* So does closing a live socket with its session, and then no child is left  *)
(* to be closed.                                                              *)
LEMMA ClosedGood ==
  ASSUME NEW x, Good(x), NEW s \in 1 .. Len(x.socks), x.socks[s].live
  PROVE  LET y == Closed(x, s) IN
         /\ Good(y) /\ Len(y.socks) = Len(x.socks)
         /\ Calm(x, s) => Calm(y, 0)
         /\ Calm(x, 0) => Calm(y, 0)
<1>0. x \in State /\ Bounded(x) /\ Linked(x)  BY DEF Good
<1>1. CASE x.socks[s].session = 0
  <2>1. Closed(x, s) = close_ioa_socket(x, s)  BY <1>1 DEF Closed
  <2>2. Len(close_ioa_socket(x, s).socks) = Len(x.socks)  BY <1>0, CloseFields DEF CloseResult
  <2> QED  BY <2>1, <2>2, CloseGood, CloseCalm
<1>2. CASE x.socks[s].session # 0
  <2> DEFINE n == x.socks[s].session
  <2>1. Closed(x, s) = shutdown_client_connection(x, n)  BY <1>2 DEF Closed
  <2>2. n \in 1 .. Len(x.ss) /\ n \notin x.ended /\ x.ss[n] = s
    <3>1. n \in Nat /\ Len(x.ss) \in Nat  BY <1>0, StateTypes DEF Socket
    <3> QED  BY <1>0, <1>2, <3>1 DEF Bounded, Linked
  <2> HIDE DEF n
  <2> QED  BY <2>1, <2>2, ShutdownGood
<1> QED  BY <1>1, <1>2

-----------------------------------------------------------------------------
(* The socket create_ioa_socket makes.                                        *)
NewSocket(c, fd, child, ssl) ==
  [live |-> TRUE, addr |-> c, fd |-> fd, child |-> child, container |-> FALSE,
   tobeclosed |-> FALSE, ssl |-> ssl, session |-> 0]

(* A socket o is added after the others and nothing else changes.             *)
CreateResult(x, o, y) ==
  /\ y \in State /\ Len(y.socks) = Len(x.socks) + 1
  /\ y.fd = x.fd /\ y.ev = x.ev /\ y.fds = x.fds /\ y.children = x.children
  /\ y.ss = x.ss /\ y.ended = x.ended
  /\ \A r \in 1 .. Len(x.socks) : y.socks[r] = x.socks[r]
  /\ y.socks[Len(x.socks) + 1] = o

(* create_ioa_socket does that.                                               *)
LEMMA CreateFields ==
  ASSUME NEW x \in State, NEW c \in Client, NEW fd \in Fd \cup {NoFd},
         NEW child \in BOOLEAN, NEW ssl \in BOOLEAN
  PROVE  CreateResult(x, NewSocket(c, fd, child, ssl), create_ioa_socket(x, c, fd, child, ssl))
<1> DEFINE o == NewSocket(c, fd, child, ssl)
           a == Append(x.socks, o)
           y == create_ioa_socket(x, c, fd, child, ssl)
<1>1. x.socks \in Seq(Socket)  BY DEF State
<1>2. o \in Socket  BY DEF Socket, NewSocket
<1>3. y = [x EXCEPT !.socks = a]  BY DEF create_ioa_socket, NewSocket
<1> HIDE DEF o, y
<1>4. /\ a \in Seq(Socket) /\ Len(a) = Len(x.socks) + 1
      /\ \A r \in 1 .. Len(x.socks) : a[r] = x.socks[r]
      /\ a[Len(x.socks) + 1] = o
  BY <1>1, <1>2, AppendProperties
<1> HIDE DEF a
<1>5. /\ y \in State /\ y.socks = a
      /\ y.fd = x.fd /\ y.ev = x.ev /\ y.fds = x.fds /\ y.children = x.children
      /\ y.ss = x.ss /\ y.ended = x.ended
  BY <1>3, <1>4 DEF State
<1> QED  BY <1>4, <1>5 DEF o, y, CreateResult

(* A connected descriptor is the one that was free.                           *)
LEMMA ConnectedFields ==
  ASSUME NEW x \in State, NEW c \in Client, NextFd(x) \in Fd
  PROVE  LET y == connected_fd(x, c) IN
         /\ y \in State /\ y.socks = x.socks
         /\ y.fd = x.fd /\ y.ev = x.ev /\ y.children = x.children /\ y.ss = x.ss /\ y.ended = x.ended
         /\ \A f \in Fd : f # NextFd(x) => y.fds[f] = x.fds[f]
         /\ y.fds[NextFd(x)].kind = "conn"
<1> DEFINE e == [kind |-> "conn", addr |-> c]
           a == [x.fds EXCEPT ![NextFd(x)] = e]
           y == connected_fd(x, c)
<1>1. y = [x EXCEPT !.fds = a]  BY DEF connected_fd
<1>2. e \in FdEntry  BY DEF FdEntry
<1>3. x.fds \in [Fd -> FdEntry]  BY DEF State
<1>4. /\ a \in [Fd -> FdEntry] /\ a[NextFd(x)].kind = "conn"
      /\ \A f \in Fd : f # NextFd(x) => a[f] = x.fds[f]
  BY <1>2, <1>3
<1> HIDE DEF a, y
<1>5. /\ y \in State /\ y.socks = x.socks /\ y.fds = a
      /\ y.fd = x.fd /\ y.ev = x.ev /\ y.children = x.children /\ y.ss = x.ss /\ y.ended = x.ended
  BY <1>1, <1>4 DEF State
<1> QED  BY <1>4, <1>5 DEF y

(* What detach_ioa_socket changes, field by field.                            *)
DetachResult(x, s, y) ==
  LET o == x.socks[s]
      k == Len(x.socks) + 1
      fd == IF o.child THEN NextFd(x) ELSE o.fd
  IN  /\ y \in State /\ Len(y.socks) = k
      /\ y.fd = x.fd /\ y.ev = x.ev /\ y.ss = x.ss /\ y.ended = x.ended
      /\ \A r \in 1 .. Len(x.socks) : r # s => y.socks[r] = x.socks[r]
      /\ y.socks[s] = [o EXCEPT !.tobeclosed = TRUE, !.container = FALSE, !.child = FALSE,
                                !.fd = NoFd, !.ssl = FALSE]
      /\ y.socks[k] = NewSocket(o.addr, fd, FALSE, o.ssl)
      /\ \A c \in Client : y.children[c] = IF o.container /\ c = o.addr THEN 0 ELSE x.children[c]
      /\ \A f \in Fd : ~(o.child /\ f = NextFd(x)) => y.fds[f] = x.fds[f]
      /\ o.child => y.fds[NextFd(x)].kind = "conn"

(* detach_ioa_socket does that.                                               *)
LEMMA DetachFields ==
  ASSUME NEW x \in State, NEW s \in 1 .. Len(x.socks), x.socks[s].child => NextFd(x) \in Fd
  PROVE  DetachResult(x, s, detach_ioa_socket(x, s))
<1> DEFINE o == x.socks[s]
           u == IF o.child THEN connected_fd(x, o.addr) ELSE x
           fd == IF o.child THEN NextFd(x) ELSE o.fd
           p == [o EXCEPT !.tobeclosed = TRUE, !.container = FALSE, !.child = FALSE,
                          !.fd = NoFd, !.ssl = FALSE]
           ch == [c \in Client |-> IF o.container /\ c = o.addr THEN 0 ELSE x.children[c]]
           a == [x.socks EXCEPT ![s] = p]
           z == [u EXCEPT !.children = ch, !.socks = a]
           y == detach_ioa_socket(x, s)
<1>1. o \in Socket /\ x.socks \in Seq(Socket) /\ Len(x.socks) \in Nat  BY StateTypes DEF State
<1>2. p \in Socket /\ fd \in Fd \cup {NoFd} /\ o.addr \in Client /\ o.ssl \in BOOLEAN
  BY <1>1 DEF Socket
<1>3. /\ u \in State /\ u.socks = x.socks
      /\ u.fd = x.fd /\ u.ev = x.ev /\ u.children = x.children /\ u.ss = x.ss /\ u.ended = x.ended
      /\ \A f \in Fd : ~(o.child /\ f = NextFd(x)) => u.fds[f] = x.fds[f]
      /\ o.child => u.fds[NextFd(x)].kind = "conn"
  <2>1. CASE o.child
    <3>1. u = connected_fd(x, o.addr)  BY <2>1
    <3> HIDE DEF u
    <3> QED  BY <1>2, <2>1, <3>1, ConnectedFields
  <2>2. CASE ~o.child  BY <2>2
  <2> QED  BY <2>1, <2>2
<1>4. y = create_ioa_socket(z, o.addr, fd, FALSE, o.ssl)
  <2>1. u.socks = x.socks /\ u.children = x.children  BY <1>3, Zenon
  <2>2. y = create_ioa_socket([u EXCEPT !.children = [c \in Client |-> IF o.container /\ c = o.addr THEN 0 ELSE u.children[c]],
                                        !.socks = [u.socks EXCEPT ![s] = p]], o.addr, fd, FALSE, o.ssl)
    BY <1>3 DEF detach_ioa_socket
  <2> HIDE DEF u, p, y, fd
  <2> QED  BY <2>1, <2>2, Zenon
<1>5. /\ a \in Seq(Socket) /\ Len(a) = Len(x.socks) /\ a[s] = p
      /\ \A r \in 1 .. Len(x.socks) : r # s => a[r] = x.socks[r]
  <2> HIDE DEF p
  <2> QED  BY <1>1, <1>2, ExceptSeq, LenProperties
<1>6. ch \in [Client -> Nat] /\ \A c \in Client : ch[c] = IF o.container /\ c = o.addr THEN 0 ELSE x.children[c]
  BY DEF State
<1>7. /\ z \in State /\ z.socks = a /\ z.children = ch /\ z.fds = u.fds
      /\ z.fd = x.fd /\ z.ev = x.ev /\ z.ss = x.ss /\ z.ended = x.ended
  <2> HIDE DEF a, ch, u
  <2> QED  BY <1>3, <1>5, <1>6 DEF State
<1> HIDE DEF z, u, a, ch, p, fd
<1>8. CreateResult(z, NewSocket(o.addr, fd, FALSE, o.ssl), y)
  <2>1. FALSE \in BOOLEAN /\ z \in State  BY <1>7
  <2> HIDE DEF o
  <2>2. CreateResult(z, NewSocket(o.addr, fd, FALSE, o.ssl), create_ioa_socket(z, o.addr, fd, FALSE, o.ssl))
    BY <1>2, <2>1, CreateFields, Zenon
  <2> QED  BY <1>4, <2>2, Zenon
<1> HIDE DEF y
<1>9. /\ y \in State /\ Len(y.socks) = Len(x.socks) + 1
      /\ y.fd = x.fd /\ y.ev = x.ev /\ y.ss = x.ss /\ y.ended = x.ended
      /\ \A r \in 1 .. Len(x.socks) : r # s => y.socks[r] = x.socks[r]
      /\ y.socks[s] = p
      /\ y.socks[Len(x.socks) + 1] = NewSocket(o.addr, fd, FALSE, o.ssl)
      /\ \A c \in Client : y.children[c] = IF o.container /\ c = o.addr THEN 0 ELSE x.children[c]
      /\ \A f \in Fd : ~(o.child /\ f = NextFd(x)) => y.fds[f] = x.fds[f]
      /\ o.child => y.fds[NextFd(x)].kind = "conn"
  BY <1>3, <1>5, <1>6, <1>7, <1>8 DEF CreateResult
<1> QED  BY <1>9 DEF DetachResult, y, p, fd

(* Detaching keeps Good and Calm: the descriptor has a new owner, the old     *)
(* socket keeps its session and has left the map.                             *)
LEMMA DetachGood ==
  ASSUME ListenerAssumption, NEW x, Good(x), Len(x.socks) < MaxSocket,
         NEW s \in 1 .. Len(x.socks), x.socks[s].live
  PROVE  /\ DetachResult(x, s, detach_ioa_socket(x, s))
         /\ Good(detach_ioa_socket(x, s))
         /\ Calm(x, 0) => Calm(detach_ioa_socket(x, s), 0)
<1> DEFINE y == detach_ioa_socket(x, s)
           k == Len(x.socks) + 1
           o == x.socks[s]
           fd == IF o.child THEN NextFd(x) ELSE o.fd
<1>0. x \in State /\ Bounded(x) /\ Owned(x) /\ Linked(x) /\ Mapped(x)  BY DEF Good
<1>1. NextFd(x) \in Fd /\ x.fds[NextFd(x)].kind = "free"  BY FdIsFree
<1>2. DetachResult(x, s, y)  BY <1>0, <1>1, DetachFields
<1> HIDE DEF y
<1>3. /\ Len(x.socks) \in Nat /\ Len(x.ss) \in Nat
      /\ \A r \in 1 .. Len(x.socks) : x.socks[r] \in Socket
      /\ \A n \in 1 .. Len(x.ss) : x.ss[n] \in Nat
      /\ \A c \in Client : x.children[c] \in Nat
  BY <1>0, StateTypes
<1>4. /\ y.socks[s].live = o.live /\ y.socks[s].session = o.session /\ ~y.socks[s].child
      /\ ~y.socks[s].container /\ y.socks[s].fd = NoFd /\ y.socks[s].addr = o.addr
  BY <1>2, <1>3 DEF DetachResult, Socket
<1>5. /\ y.socks[k].live /\ y.socks[k].session = 0 /\ ~y.socks[k].child
      /\ ~y.socks[k].container /\ y.socks[k].fd = fd
  BY <1>2 DEF DetachResult, NewSocket
<1>6. /\ y \in State /\ Len(y.socks) = k
      /\ y.fd = x.fd /\ y.ev = x.ev /\ y.ss = x.ss /\ y.ended = x.ended
      /\ \A r \in 1 .. Len(x.socks) : r # s => y.socks[r] = x.socks[r]
      /\ \A c \in Client : y.children[c] = IF o.container /\ c = o.addr THEN 0 ELSE x.children[c]
      /\ \A f \in Fd : ~(o.child /\ f = NextFd(x)) => y.fds[f] = x.fds[f]
      /\ o.child => y.fds[NextFd(x)].kind = "conn"
  BY <1>2 DEF DetachResult
<1>7. 1 .. k = (1 .. Len(x.socks)) \cup {k} /\ k \notin 1 .. Len(x.socks)  BY <1>3
<1>8. Bounded(y)
  <2>1. \A c \in Client : y.children[c] <= k  BY <1>0, <1>3, <1>6 DEF Bounded
  <2>2. \A n \in 1 .. Len(y.ss) : y.ss[n] <= k  BY <1>0, <1>3, <1>6 DEF Bounded
  <2>3. \A r \in 1 .. k : y.socks[r].session <= Len(y.ss)
    <3>1. \A r \in 1 .. Len(x.socks) : y.socks[r].session = x.socks[r].session  BY <1>4, <1>6
    <3>2. \A r \in 1 .. Len(x.socks) : y.socks[r].session <= Len(y.ss)  BY <1>0, <1>6, <3>1 DEF Bounded
    <3>3. y.socks[k].session <= Len(y.ss)  BY <1>3, <1>5, <1>6
    <3> HIDE DEF k
    <3> QED  BY <1>7, <3>2, <3>3
  <2> QED  BY <1>0, <1>6, <2>1, <2>2, <2>3 DEF Bounded
<1>9. Owned(y)
  <2>1. \A r \in 1 .. Len(x.socks) : r # s => (Owns(y, r) <=> Owns(x, r))  BY <1>6 DEF Owns
  <2>2. ~Owns(y, s)  BY <1>4 DEF Owns
  <2>3. Owns(y, k) <=> fd # NoFd  BY <1>5 DEF Owns
  <2>4. ~o.child => (Owns(x, s) <=> fd # NoFd) /\ fd = o.fd  BY DEF Owns
  <2>5. o.child => fd = NextFd(x) /\ fd \in Fd /\ ~Owns(x, s) /\ x.fds[fd].kind = "free" /\ y.fds[fd].kind = "conn"
    BY <1>1, <1>6 DEF Owns
  <2>6. \A f \in Fd : y.fds[f].kind # x.fds[f].kind => o.child /\ f = fd  BY <1>6
  <2>7. \A r \in 1 .. Len(x.socks) : x.socks[r].fd \in Fd \cup {NoFd}  BY <1>3 DEF Socket
  <2> HIDE DEF fd, k, o
  <2>8. \A f \in Fd : y.fds[f].kind = "listen" <=> f = y.fd
    BY <1>0, <1>6, <2>5, <2>6 DEF Owned
  <2>9. \A r \in 1 .. Len(x.socks) : r # s /\ Owns(x, r) => x.socks[r].fd # fd /\ x.socks[r].fd \in Fd
    <3>1. CASE o.child  BY <1>0, <2>5, <2>7, <3>1 DEF Owned, Owns
    <3>2. CASE ~o.child
      <4>1. x.socks[s].fd = fd  BY <2>4, <3>2 DEF o
      <4> QED  BY <1>0, <2>4, <2>7, <3>2, <4>1 DEF Owned, Owns
    <3> QED  BY <3>1, <3>2
  <2>10. fd # NoFd => y.fds[fd].kind = "conn"
    <3>1. CASE o.child  BY <2>5, <3>1
    <3>2. CASE ~o.child
      <4>1. fd # NoFd => fd \in Fd /\ x.fds[fd].kind = "conn"  BY <1>0, <2>4, <2>7, <3>2 DEF Owned, o
      <4> QED  BY <2>6, <3>2, <4>1
    <3> QED  BY <3>1, <3>2
  <2>11. \A r \in 1 .. k : Owns(y, r) => y.fds[y.socks[r].fd].kind = "conn"
    <3>1. \A r \in 1 .. Len(x.socks) : r # s /\ Owns(y, r) => y.fds[y.socks[r].fd].kind = "conn"
      BY <1>0, <1>6, <2>1, <2>6, <2>9, SMTT(20) DEF Owned
    <3> QED  BY <1>5, <1>7, <2>2, <2>3, <2>10, <3>1
  <2>12. \A q, r \in 1 .. k : Owns(y, q) /\ Owns(y, r) /\ y.socks[q].fd = y.socks[r].fd => q = r
    <3>1. \A r \in 1 .. Len(x.socks) : Owns(y, r) => r # s /\ Owns(x, r) /\ y.socks[r].fd = x.socks[r].fd
      BY <1>6, <2>1, <2>2
    <3>2. \A r \in 1 .. Len(x.socks) : Owns(y, r) => y.socks[r].fd # y.socks[k].fd
      BY <1>5, <2>9, <3>1
    <3>3. \A q, r \in 1 .. Len(x.socks) : Owns(y, q) /\ Owns(y, r) /\ y.socks[q].fd = y.socks[r].fd => q = r
      BY <1>0, <3>1 DEF Owned
    <3> QED  BY <1>7, <3>2, <3>3
  <2>13. ASSUME NEW f \in Fd, y.fds[f].kind = "conn"
         PROVE  \E r \in 1 .. k : Owns(y, r) /\ y.socks[r].fd = f
    <3>1. CASE f = fd
      <4>1. fd # NoFd  BY <3>1 DEF Fd, NoFd
      <4> QED  BY <1>5, <1>7, <2>3, <3>1, <4>1
    <3>2. CASE f # fd
      <4>1. x.fds[f].kind = "conn"  BY <2>6, <2>13, <3>2
      <4>2. PICK r \in 1 .. Len(x.socks) : Owns(x, r) /\ x.socks[r].fd = f  BY <1>0, <4>1 DEF Owned
      <4>3. r # s  BY <2>4, <2>5, <3>2, <4>2 DEF o
      <4> QED  BY <1>6, <1>7, <2>1, <4>2, <4>3
    <3> QED  BY <3>1, <3>2
  <2> QED  BY <1>0, <1>6, <2>8, <2>11, <2>12, <2>13 DEF Owned
<1>10. Linked(y)
  <2>1. \A r \in 1 .. Len(x.socks) : y.socks[r].live = x.socks[r].live /\ y.socks[r].session = x.socks[r].session
    BY <1>4, <1>6
  <2>2. ASSUME NEW n \in 1 .. Len(y.ss), n \notin y.ended, y.ss[n] # 0
        PROVE  y.socks[y.ss[n]].live /\ y.socks[y.ss[n]].session = n
    <3>1. n \in 1 .. Len(x.ss) /\ x.ss[n] \in 1 .. Len(x.socks)  BY <1>0, <1>3, <1>6, <2>2 DEF Bounded
    <3>2. x.ss[n] = y.ss[n] /\ n \notin x.ended  BY <1>6, <2>2
    <3>3. x.socks[x.ss[n]].live /\ x.socks[x.ss[n]].session = n  BY <1>0, <2>2, <3>1, <3>2 DEF Linked
    <3> QED  BY <2>1, <3>1, <3>2, <3>3
  <2>3. ASSUME NEW r \in 1 .. k, y.socks[r].live, y.socks[r].session # 0
        PROVE  y.socks[r].session \notin y.ended /\ y.ss[y.socks[r].session] = r
    <3>1. r \in 1 .. Len(x.socks)  BY <1>5, <1>7, <2>3
    <3> QED  BY <1>0, <1>6, <2>1, <2>3, <3>1 DEF Linked
  <2> QED  BY <1>6, <2>2, <2>3 DEF Linked
<1>11. Mapped(y)
  <2>1. ASSUME NEW c \in Client, y.children[c] # 0
        PROVE  LET r == y.socks[y.children[c]] IN r.live /\ r.child /\ r.container /\ r.addr = c
    <3>1. y.children[c] = x.children[c] /\ x.children[c] # 0 /\ ~(o.container /\ c = o.addr)
      BY <1>6, <2>1
    <3>2. x.children[c] # s  BY <1>0, <3>1 DEF Mapped
    <3>3. x.children[c] \in 1 .. Len(x.socks)  BY <1>0, <1>3, <3>1 DEF Bounded
    <3> QED  BY <1>0, <1>6, <3>1, <3>2, <3>3, SMTT(20) DEF Mapped
  <2>2. \A r \in 1 .. k : y.socks[r].container => y.socks[r].child /\ y.socks[r].live
    BY <1>0, <1>4, <1>5, <1>6, <1>7 DEF Mapped
  <2> QED  BY <1>6, <2>1, <2>2 DEF Mapped
<1>12. ASSUME Calm(x, 0)  PROVE Calm(y, 0)
  <2>1. ASSUME NEW r \in 1 .. k, y.socks[r].live, y.socks[r].child
        PROVE  y.children[y.socks[r].addr] = r /\ (y.socks[r].tobeclosed => r = 0)
    <3>1. r \in 1 .. Len(x.socks) /\ r # s /\ y.socks[r] = x.socks[r]  BY <1>4, <1>5, <1>6, <1>7, <2>1
    <3>2. x.children[x.socks[r].addr] = r /\ (x.socks[r].tobeclosed => r = 0)
      BY <1>12, <2>1, <3>1 DEF Calm
    <3>3. ~(o.container /\ x.socks[r].addr = o.addr)
      BY <1>0, <1>12, <3>1, <3>2 DEF Calm, Mapped
    <3>4. x.socks[r].addr \in Client  BY <1>3, <3>1 DEF Socket
    <3> QED  BY <1>6, <3>1, <3>2, <3>3, <3>4
  <2> QED  BY <1>6, <2>1 DEF Calm
<1>13. Good(y)  BY <1>6, <1>8, <1>9, <1>10, <1>11 DEF Good
<1> QED  BY <1>2, <1>12, <1>13 DEF y

(* The socket s becomes o and nothing else changes.                           *)
UpdateResult(x, s, o, y) ==
  /\ y \in State /\ Len(y.socks) = Len(x.socks) /\ y.socks[s] = o
  /\ \A r \in 1 .. Len(x.socks) : r # s => y.socks[r] = x.socks[r]
  /\ y.fd = x.fd /\ y.ev = x.ev /\ y.fds = x.fds /\ y.children = x.children
  /\ y.ss = x.ss /\ y.ended = x.ended

(* An assignment to a socket's record does that.                              *)
LEMMA SocketUpdate ==
  ASSUME NEW x \in State, NEW s \in 1 .. Len(x.socks), NEW o \in Socket
  PROVE  UpdateResult(x, s, o, [x EXCEPT !.socks = [@ EXCEPT ![s] = o]])
<1> DEFINE a == [x.socks EXCEPT ![s] = o]
           y == [x EXCEPT !.socks = [@ EXCEPT ![s] = o]]
<1>1. x.socks \in Seq(Socket) /\ Len(x.socks) \in Nat  BY StateTypes DEF State
<1>2. /\ a \in Seq(Socket) /\ Len(a) = Len(x.socks) /\ a[s] = o
      /\ \A r \in 1 .. Len(x.socks) : r # s => a[r] = x.socks[r]
  BY <1>1, ExceptSeq, LenProperties
<1>3. y = [x EXCEPT !.socks = a]  OBVIOUS
<1> HIDE DEF a, y
<1>4. /\ y \in State /\ y.socks = a
      /\ y.fd = x.fd /\ y.ev = x.ev /\ y.fds = x.fds /\ y.children = x.children
      /\ y.ss = x.ss /\ y.ended = x.ended
  BY <1>2, <1>3 DEF State
<1>5. UpdateResult(x, s, o, y)  BY <1>2, <1>4 DEF UpdateResult
<1> QED  BY <1>5 DEF y

(* Marking a socket keeps Good; of Calm it keeps that no other child is to be *)
(* closed.                                                                    *)
LEMMA MarkGood ==
  ASSUME NEW x, Good(x), NEW s \in 1 .. Len(x.socks)
  PROVE  LET y == [x EXCEPT !.socks[s].tobeclosed = TRUE] IN
         /\ Good(y) /\ Len(y.socks) = Len(x.socks)
         /\ Calm(x, 0) => Calm(y, s)
<1> DEFINE o == [x.socks[s] EXCEPT !.tobeclosed = TRUE]
           y == [x EXCEPT !.socks[s].tobeclosed = TRUE]
<1>0. x \in State /\ Bounded(x) /\ Owned(x) /\ Linked(x) /\ Mapped(x)  BY DEF Good
<1>1. x.socks[s] \in Socket /\ Len(x.socks) \in Nat  BY <1>0, StateTypes
<1>2. /\ o \in Socket /\ o.live = x.socks[s].live /\ o.addr = x.socks[s].addr /\ o.fd = x.socks[s].fd
      /\ o.child = x.socks[s].child /\ o.container = x.socks[s].container /\ o.session = x.socks[s].session
  BY <1>1 DEF Socket
<1>3. y = [x EXCEPT !.socks = [@ EXCEPT ![s] = o]]  OBVIOUS
<1> HIDE DEF o, y
<1>4. /\ y \in State /\ Len(y.socks) = Len(x.socks) /\ y.socks[s] = o
      /\ \A r \in 1 .. Len(x.socks) : r # s => y.socks[r] = x.socks[r]
      /\ y.fd = x.fd /\ y.ev = x.ev /\ y.fds = x.fds /\ y.children = x.children
      /\ y.ss = x.ss /\ y.ended = x.ended
  <2>1. UpdateResult(x, s, o, y)  BY <1>0, <1>2, <1>3, SocketUpdate, Zenon
  <2> QED  BY <2>1 DEF UpdateResult
<1>5. \A r \in 1 .. Len(x.socks) :
        /\ y.socks[r].live = x.socks[r].live /\ y.socks[r].addr = x.socks[r].addr
        /\ y.socks[r].fd = x.socks[r].fd /\ y.socks[r].child = x.socks[r].child
        /\ y.socks[r].container = x.socks[r].container /\ y.socks[r].session = x.socks[r].session
  BY <1>2, <1>4
<1>6. Bounded(y)  BY <1>0, <1>4, <1>5 DEF Bounded
<1>7. Owned(y)
  <2>1. \A r \in 1 .. Len(x.socks) : Owns(y, r) <=> Owns(x, r)  BY <1>5 DEF Owns
  <2> QED  BY <1>0, <1>4, <1>5, <2>1 DEF Owned
<1>8. Linked(y)
  <2>1. \A n \in 1 .. Len(x.ss) : x.ss[n] # 0 => x.ss[n] \in 1 .. Len(x.socks)
    BY <1>0, <1>1, StateTypes DEF Bounded
  <2> QED  BY <1>0, <1>4, <1>5, <2>1, SMTT(20) DEF Linked
<1>9. Mapped(y)
  <2>1. \A c \in Client : x.children[c] # 0 => x.children[c] \in 1 .. Len(x.socks)
    BY <1>0, <1>1, StateTypes DEF Bounded
  <2> QED  BY <1>0, <1>4, <1>5, <2>1, SMTT(20) DEF Mapped
<1>10. Calm(x, 0) => Calm(y, s)
  <2>1. \A r \in 1 .. Len(x.socks) : r # s => y.socks[r].tobeclosed = x.socks[r].tobeclosed  BY <1>4
  <2>2. \A r \in 1 .. Len(x.socks) : r # 0  BY <1>1
  <2> QED  BY <1>4, <1>5, <2>1, <2>2 DEF Calm
<1>11. Good(y)  BY <1>4, <1>6, <1>7, <1>8, <1>9 DEF Good
<1> QED  BY <1>4, <1>10, <1>11 DEF y

(* What attach_socket_to_session and open_client_connection_session leave: a  *)
(* good state with as many sockets, as calm as it was.                        *)
Kept(x, y) ==
  Good(y) /\ Len(y.socks) = Len(x.socks) /\ \A m : Calm(x, m) => Calm(y, m)

(* A live socket that has no session and a session that has no socket are     *)
(* made each other's: Good and Calm are kept.                                 *)
LEMMA LinkGood ==
  ASSUME NEW x, Good(x), NEW s \in 1 .. Len(x.socks), x.socks[s].live, x.socks[s].session = 0,
         NEW n \in 1 .. Len(x.ss), n \notin x.ended, x.ss[n] = 0
  PROVE  Kept(x, [x EXCEPT !.ss[n] = s, !.socks[s].session = n])
<1> DEFINE y == [x EXCEPT !.ss[n] = s, !.socks[s].session = n]
           o == [x.socks[s] EXCEPT !.session = n]
           b == [x.ss EXCEPT ![n] = s]
           w == [x EXCEPT !.ss = b]
<1>0. x \in State /\ Bounded(x) /\ Owned(x) /\ Linked(x) /\ Mapped(x)  BY DEF Good
<1>1. /\ x.socks[s] \in Socket /\ Len(x.socks) \in Nat /\ Len(x.ss) \in Nat
      /\ x.socks \in Seq(Socket) /\ x.ss \in Seq(Nat) /\ s \in Nat /\ n \in Nat
  BY <1>0, StateTypes DEF State
<1>2. /\ o \in Socket /\ o.live = x.socks[s].live /\ o.addr = x.socks[s].addr /\ o.fd = x.socks[s].fd
      /\ o.child = x.socks[s].child /\ o.container = x.socks[s].container /\ o.session = n
      /\ o.tobeclosed = x.socks[s].tobeclosed
  BY <1>1 DEF Socket
<1>3. /\ b \in Seq(Nat) /\ Len(b) = Len(x.ss) /\ b[n] = s
      /\ \A j \in 1 .. Len(x.ss) : j # n => b[j] = x.ss[j]
  BY <1>1, ExceptSeq, LenProperties
<1>4. /\ w \in State /\ w.socks = x.socks /\ w.ss = b
      /\ w.fd = x.fd /\ w.ev = x.ev /\ w.fds = x.fds /\ w.children = x.children /\ w.ended = x.ended
  <2> HIDE DEF b
  <2> QED  BY <1>0, <1>3 DEF State
<1>5. y = [w EXCEPT !.socks = [@ EXCEPT ![s] = o]]
  <2>1. y = [w EXCEPT !.socks[s].session = n]  OBVIOUS
  <2>2. w.socks = x.socks  BY <1>4
  <2> HIDE DEF w
  <2> QED  BY <2>1, <2>2
<1> HIDE DEF o, b, w, y
<1>6. /\ y \in State /\ Len(y.socks) = Len(w.socks) /\ y.socks[s] = o
      /\ \A r \in 1 .. Len(w.socks) : r # s => y.socks[r] = w.socks[r]
      /\ y.fd = w.fd /\ y.ev = w.ev /\ y.fds = w.fds /\ y.children = w.children
      /\ y.ss = w.ss /\ y.ended = w.ended
  <2>1. s \in 1 .. Len(w.socks)  BY <1>4
  <2>2. w \in State /\ o \in Socket  BY <1>2, <1>4
  <2>3. UpdateResult(w, s, o, [w EXCEPT !.socks = [@ EXCEPT ![s] = o]])  BY <2>1, <2>2, SocketUpdate, Zenon
  <2>4. UpdateResult(w, s, o, y)  BY <1>5, <2>3, Zenon
  <2> QED  BY <2>4 DEF UpdateResult
<1>7. /\ Len(y.socks) = Len(x.socks) /\ y.socks[s] = o /\ y.ss = b
      /\ \A r \in 1 .. Len(x.socks) : r # s => y.socks[r] = x.socks[r]
      /\ y.fd = x.fd /\ y.ev = x.ev /\ y.fds = x.fds /\ y.children = x.children /\ y.ended = x.ended
  BY <1>4, <1>6
<1>8. \A r \in 1 .. Len(x.socks) :
        /\ y.socks[r].live = x.socks[r].live /\ y.socks[r].addr = x.socks[r].addr
        /\ y.socks[r].fd = x.socks[r].fd /\ y.socks[r].child = x.socks[r].child
        /\ y.socks[r].container = x.socks[r].container /\ y.socks[r].tobeclosed = x.socks[r].tobeclosed
  BY <1>2, <1>7
<1>9. \A r \in 1 .. Len(x.socks) : y.socks[r].session = IF r = s THEN n ELSE x.socks[r].session
  BY <1>2, <1>7
<1>10. Bounded(y)
  <2>1. \A j \in 1 .. Len(y.ss) : y.ss[j] <= Len(y.socks)  BY <1>0, <1>1, <1>3, <1>7 DEF Bounded
  <2>2. \A r \in 1 .. Len(y.socks) : y.socks[r].session <= Len(y.ss)  BY <1>0, <1>1, <1>3, <1>7, <1>9, SMTT(20) DEF Bounded
  <2> QED  BY <1>0, <1>3, <1>7, <2>1, <2>2 DEF Bounded
<1>11. Owned(y)
  <2>1. \A r \in 1 .. Len(x.socks) : Owns(y, r) <=> Owns(x, r)  BY <1>8 DEF Owns
  <2> QED  BY <1>0, <1>7, <1>8, <2>1 DEF Owned
<1>12. Linked(y)
  <2>1. ASSUME NEW j \in 1 .. Len(y.ss), j \notin y.ended, y.ss[j] # 0
        PROVE  y.socks[y.ss[j]].live /\ y.socks[y.ss[j]].session = j
    <3>1. CASE j = n  BY <1>3, <1>7, <1>8, <1>9, <3>1
    <3>2. CASE j # n
      <4>1. j \in 1 .. Len(x.ss) /\ y.ss[j] = x.ss[j] /\ j \notin x.ended  BY <1>3, <1>7, <2>1, <3>2
      <4>2. x.ss[j] \in 1 .. Len(x.socks)  BY <1>0, <1>1, <2>1, <4>1, StateTypes DEF Bounded
      <4>3. x.socks[x.ss[j]].live /\ x.socks[x.ss[j]].session = j  BY <1>0, <2>1, <4>1 DEF Linked
      <4>4. x.ss[j] # s  BY <4>1, <4>3
      <4> QED  BY <1>8, <1>9, <4>1, <4>2, <4>3, <4>4
    <3> QED  BY <3>1, <3>2
  <2>2. ASSUME NEW r \in 1 .. Len(y.socks), y.socks[r].live, y.socks[r].session # 0
        PROVE  y.socks[r].session \notin y.ended /\ y.ss[y.socks[r].session] = r
    <3>1. CASE r = s  BY <1>3, <1>7, <1>9, <3>1
    <3>2. CASE r # s
      <4>1. r \in 1 .. Len(x.socks) /\ y.socks[r] = x.socks[r]  BY <1>7, <3>2
      <4>2. x.socks[r].session \notin x.ended /\ x.ss[x.socks[r].session] = r
        BY <1>0, <2>2, <4>1 DEF Linked
      <4>3. x.socks[r].session # n  BY <1>1, <4>1, <4>2
      <4>4. x.socks[r].session \in 1 .. Len(x.ss)  BY <1>0, <1>1, <2>2, <4>1, StateTypes DEF Bounded, Socket
      <4> QED  BY <1>3, <1>7, <4>1, <4>2, <4>3, <4>4, SMTT(20)
    <3> QED  BY <3>1, <3>2
  <2> QED  BY <2>1, <2>2 DEF Linked
<1>13. Mapped(y)
  <2>1. \A c \in Client : x.children[c] # 0 => x.children[c] \in 1 .. Len(x.socks)
    BY <1>0, <1>1, StateTypes DEF Bounded
  <2> QED  BY <1>0, <1>7, <1>8, <2>1, SMTT(20) DEF Mapped
<1>14. \A m : Calm(x, m) => Calm(y, m)  BY <1>7, <1>8 DEF Calm
<1>15. Good(y)  BY <1>6, <1>10, <1>11, <1>12, <1>13 DEF Good
<1>16. Kept(x, y)  BY <1>7, <1>14, <1>15 DEF Kept
<1> QED  BY <1>16 DEF y

(* attach_socket_to_session: the session's old socket is another one and is   *)
(* closed first.                                                              *)
LEMMA AttachGood ==
  ASSUME NEW x, Good(x), NEW s \in 1 .. Len(x.socks), x.socks[s].live, x.socks[s].session = 0,
         NEW n \in 1 .. Len(x.ss), n \notin x.ended
  PROVE  Kept(x, attach_socket_to_session(x, s, n))
<1> DEFINE c == IF x.ss[n] = 0 THEN x ELSE close_ioa_socket(x, x.ss[n])
           y == attach_socket_to_session(x, s, n)
<1>0. x \in State /\ Bounded(x) /\ Linked(x)  BY DEF Good
<1>1. x.ss[n] \in Nat /\ Len(x.ss) \in Nat /\ Len(x.socks) \in Nat /\ n \in Nat /\ n # 0  BY <1>0, StateTypes
<1>2. x.ss[n] # 0 => x.ss[n] \in 1 .. Len(x.socks) /\ x.socks[x.ss[n]].live /\ x.socks[x.ss[n]].session = n
  BY <1>0, <1>1 DEF Bounded, Linked
<1>3. x.ss[n] # s  BY <1>1, <1>2
<1>4. /\ Good(c) /\ Len(c.socks) = Len(x.socks) /\ Len(c.ss) = Len(x.ss) /\ c.ended = x.ended
      /\ c.ss[n] = 0 /\ c.socks[s] = x.socks[s]
      /\ \A m : Calm(x, m) => Calm(c, m)
  <2>1. CASE x.ss[n] = 0  BY <2>1
  <2>2. CASE x.ss[n] # 0
    <3> DEFINE r == x.ss[n]
    <3>1. r \in 1 .. Len(x.socks) /\ x.socks[r].live /\ x.socks[r].session = n /\ r # s  BY <1>2, <1>3, <2>2
    <3>2. c = close_ioa_socket(x, r)  BY <2>2
    <3> HIDE DEF c, r
    <3>3. CloseResult(x, r, c) /\ Good(c)  BY <1>0, <3>1, <3>2, CloseFields, CloseGood, Zenon
    <3>4. \A m : Calm(x, m) => Calm(c, m)  BY <3>1, <3>2, CloseCalm, Zenon
    <3>5. c.ss[n] = 0  BY <3>1, <3>3 DEF CloseResult, r
    <3> QED  BY <3>1, <3>3, <3>4, <3>5 DEF CloseResult
  <2> QED  BY <2>1, <2>2
<1>5. y = [c EXCEPT !.ss[n] = s, !.socks[s].session = n]  BY DEF attach_socket_to_session
<1> HIDE DEF c, y
<1>6. /\ s \in 1 .. Len(c.socks) /\ n \in 1 .. Len(c.ss) /\ c.socks[s].live /\ c.socks[s].session = 0
      /\ n \notin c.ended /\ c.ss[n] = 0
  BY <1>4
<1>7. Kept(c, [c EXCEPT !.ss[n] = s, !.socks[s].session = n])  BY <1>4, <1>6, LinkGood, Zenon
<1>8. Kept(c, y)  BY <1>5, <1>7, Zenon
<1>9. Kept(x, y)  BY <1>4, <1>8 DEF Kept
<1> QED  BY <1>9 DEF y

(* A session that has no socket yet is added.                                 *)
LEMMA NewSessionGood ==
  ASSUME NEW x, Good(x), NEW y, y = [x EXCEPT !.ss = Append(@, 0)]
  PROVE  /\ Good(y) /\ y.socks = x.socks /\ Len(y.ss) = Len(x.ss) + 1 /\ y.ended = x.ended
         /\ y.ss[Len(x.ss) + 1] = 0 /\ Len(x.ss) + 1 \notin y.ended
         /\ \A m : Calm(x, m) => Calm(y, m)
<1> DEFINE b == Append(x.ss, 0)
<1>0. x \in State /\ Bounded(x) /\ Owned(x) /\ Linked(x) /\ Mapped(x)  BY DEF Good
<1>1. x.ss \in Seq(Nat) /\ Len(x.ss) \in Nat /\ Len(x.socks) \in Nat  BY <1>0, StateTypes DEF State
<1>2. /\ b \in Seq(Nat) /\ Len(b) = Len(x.ss) + 1 /\ b[Len(x.ss) + 1] = 0
      /\ \A j \in 1 .. Len(x.ss) : b[j] = x.ss[j]
  BY <1>1, AppendProperties
<1>3. y = [x EXCEPT !.ss = b]  OBVIOUS
<1> HIDE DEF b
<1>4. /\ y \in State /\ y.socks = x.socks /\ y.ss = b
      /\ y.fd = x.fd /\ y.ev = x.ev /\ y.fds = x.fds /\ y.children = x.children /\ y.ended = x.ended
  BY <1>0, <1>2, <1>3 DEF State
<1>5. \A j \in 1 .. Len(x.ss) + 1 : j \in 1 .. Len(x.ss) \/ j = Len(x.ss) + 1  BY <1>1
<1>6. Bounded(y)
  <2>1. \A j \in 1 .. Len(y.ss) : y.ss[j] <= Len(y.socks)  BY <1>0, <1>1, <1>2, <1>4, <1>5 DEF Bounded
  <2>2. \A r \in 1 .. Len(y.socks) : y.socks[r].session <= Len(y.ss)
    <3> TAKE r \in 1 .. Len(y.socks)
    <3>1. x.socks[r].session \in Nat  BY <1>0, <1>4, StateTypes DEF Socket
    <3>2. x.socks[r].session <= Len(x.ss)  BY <1>0, <1>4 DEF Bounded
    <3> QED  BY <1>1, <1>2, <1>4, <3>1, <3>2
  <2>3. \A j \in y.ended : j \in 1 .. Len(y.ss)  BY <1>0, <1>1, <1>2, <1>4 DEF Bounded
  <2> QED  BY <1>0, <1>4, <2>1, <2>2, <2>3 DEF Bounded
<1>7. Owned(y)  BY <1>0, <1>4 DEF Owned, Owns
<1>8. Linked(y)
  <2>1. ASSUME NEW j \in 1 .. Len(y.ss), j \notin y.ended, y.ss[j] # 0
        PROVE  y.socks[y.ss[j]].live /\ y.socks[y.ss[j]].session = j
    <3>1. j \in 1 .. Len(x.ss) /\ y.ss[j] = x.ss[j]  BY <1>2, <1>4, <1>5, <2>1
    <3> QED  BY <1>0, <1>4, <2>1, <3>1 DEF Linked
  <2>2. ASSUME NEW r \in 1 .. Len(y.socks), y.socks[r].live, y.socks[r].session # 0
        PROVE  y.socks[r].session \notin y.ended /\ y.ss[y.socks[r].session] = r
    <3>1. x.socks[r].session \notin x.ended /\ x.ss[x.socks[r].session] = r
      BY <1>0, <1>4, <2>2 DEF Linked
    <3>2. x.socks[r].session \in Nat  BY <1>0, <1>4, StateTypes DEF Socket
    <3>3. x.socks[r].session \in 1 .. Len(x.ss)  BY <1>0, <1>1, <1>4, <2>2, <3>2 DEF Bounded
    <3> QED  BY <1>2, <1>4, <3>1, <3>3
  <2> QED  BY <2>1, <2>2 DEF Linked
<1>9. Mapped(y)  BY <1>0, <1>4 DEF Mapped
<1>10. \A m : Calm(x, m) => Calm(y, m)  BY <1>4 DEF Calm
<1>11. Good(y)  BY <1>4, <1>6, <1>7, <1>8, <1>9 DEF Good
<1>12. Len(x.ss) + 1 \notin y.ended  BY <1>0, <1>1, <1>4 DEF Bounded
<1> QED  BY <1>2, <1>4, <1>10, <1>11, <1>12

(* open_client_connection_session gives a socket that has none a session of   *)
(* its own.                                                                   *)
LEMMA OpenedGood ==
  ASSUME NEW x, Good(x), NEW s \in 1 .. Len(x.socks), x.socks[s].live, x.socks[s].session = 0
  PROVE  Kept(x, [x EXCEPT !.ss = Append(@, s), !.socks[s].session = Len(x.ss) + 1])
<1> DEFINE n == Len(x.ss) + 1
           w == [x EXCEPT !.ss = Append(@, 0)]
           y == [x EXCEPT !.ss = Append(@, s), !.socks[s].session = n]
<1>0. x \in State  BY DEF Good
<1>1. x.ss \in Seq(Nat) /\ Len(x.ss) \in Nat /\ Len(x.socks) \in Nat /\ s \in Nat  BY <1>0, StateTypes DEF State
<1>2. /\ Good(w) /\ w.socks = x.socks /\ Len(w.ss) = Len(x.ss) + 1 /\ w.ended = x.ended
      /\ w.ss[n] = 0 /\ n \notin w.ended
      /\ \A m : Calm(x, m) => Calm(w, m)
  <2> HIDE DEF w
  <2>1. w = [x EXCEPT !.ss = Append(@, 0)]  BY DEF w
  <2> QED  BY <2>1, NewSessionGood
<1>3. Append(x.ss, s) = [Append(x.ss, 0) EXCEPT ![n] = s]
  <2> DEFINE a == Append(x.ss, s)
             b == Append(x.ss, 0)
             c == [b EXCEPT ![n] = s]
  <2>1. /\ a \in Seq(Nat) /\ Len(a) = n /\ a[n] = s /\ \A j \in 1 .. Len(x.ss) : a[j] = x.ss[j]
    BY <1>1, AppendProperties
  <2>2. /\ b \in Seq(Nat) /\ Len(b) = n /\ \A j \in 1 .. Len(x.ss) : b[j] = x.ss[j]
    BY <1>1, AppendProperties
  <2> HIDE DEF a, b
  <2>3. n \in 1 .. Len(b)  BY <1>1, <2>2
  <2>4. /\ c \in Seq(Nat) /\ Len(c) = n /\ c[n] = s /\ \A j \in 1 .. Len(b) : j # n => c[j] = b[j]
    BY <1>1, <2>2, <2>3, ExceptSeq, LenProperties
  <2> HIDE DEF c
  <2>5. \A j \in 1 .. n : a[j] = c[j]
    <3> TAKE j \in 1 .. n
    <3>1. CASE j = n  BY <2>1, <2>4, <3>1
    <3>2. CASE j # n
      <4>1. j \in 1 .. Len(x.ss)  BY <1>1, <3>2
      <4> HIDE DEF n
      <4> QED  BY <2>1, <2>2, <2>4, <3>2, <4>1
    <3> QED  BY <3>1, <3>2
  <2>6. a = c  BY <2>1, <2>4, <2>5, SeqEqual
  <2> QED  BY <2>6 DEF a, b, c
<1>4. y = [w EXCEPT !.ss[n] = s, !.socks[s].session = n]
  <2>1. w.ss = Append(x.ss, 0)  BY <1>0 DEF State
  <2>2. y = [x EXCEPT !.ss = [Append(x.ss, 0) EXCEPT ![n] = s], !.socks[s].session = n]  BY <1>3
  <2> QED  BY <1>0, <2>1, <2>2 DEF State
<1> HIDE DEF w, y
<1>5. n \in 1 .. Len(w.ss) /\ s \in 1 .. Len(w.socks) /\ w.socks[s].live /\ w.socks[s].session = 0
  BY <1>1, <1>2
<1>6. Kept(w, y)
  <2> HIDE DEF n
  <2>1. Kept(w, [w EXCEPT !.ss[n] = s, !.socks[s].session = n])  BY <1>2, <1>5, LinkGood, Zenon
  <2> QED  BY <1>4, <2>1, Zenon
<1>7. Kept(x, y)  BY <1>2, <1>6 DEF Kept
<1> QED  BY <1>7 DEF y

-----------------------------------------------------------------------------
(* What a handler may leave of x: a good state within the bound, as calm as   *)
(* it was, but for the marked socket m.                                       *)
Handled(x, m, y) ==
  /\ Good(y) /\ Len(x.socks) <= Len(y.socks) /\ Len(y.socks) <= MaxSocket
  /\ Calm(x, 0) => Calm(y, 0) \/ Calm(y, m)

(* client_input_handler leaves that, and only the message that ends the       *)
(* session marks the socket.                                                  *)
LEMMA HandlerGood ==
  ASSUME ListenerAssumption, NEW x, Good(x), Len(x.socks) <= MaxSocket,
         NEW s \in 1 .. Len(x.socks), x.socks[s].live,
         NEW y \in client_input_handler(x, s)
  PROVE  /\ Handled(x, s, y)
         /\ y # [x EXCEPT !.socks[s].tobeclosed = TRUE] => Handled(x, 0, y)
<1>0. x \in State /\ Bounded(x)  BY DEF Good
<1>1. Len(x.socks) \in Nat /\ MaxSocket \in Nat /\ DOMAIN x.ss = 1 .. Len(x.ss)
  BY <1>0, StateTypes DEF ListenerAssumption
<1>2. CASE y = x  BY <1>1, <1>2 DEF Handled
<1>3. CASE y = [x EXCEPT !.socks[s].tobeclosed = TRUE]
  <2>1. Good(y) /\ Len(y.socks) = Len(x.socks) /\ (Calm(x, 0) => Calm(y, s))
    BY <1>3, MarkGood
  <2> QED  BY <1>1, <1>3, <2>1 DEF Handled
<1>4. CASE /\ Len(x.socks) < MaxSocket
           /\ \E n \in DOMAIN x.ss \ x.ended : y = attach_socket_to_session(detach_ioa_socket(x, s), Len(x.socks) + 1, n)
  <2> DEFINE k == Len(x.socks) + 1
             d == detach_ioa_socket(x, s)
  <2>1. PICK n \in DOMAIN x.ss \ x.ended : y = attach_socket_to_session(d, k, n)  BY <1>4
  <2>2. DetachResult(x, s, d) /\ Good(d) /\ (Calm(x, 0) => Calm(d, 0))  BY <1>4, DetachGood
  <2> HIDE DEF d
  <2>3. /\ Len(d.socks) = k /\ d.socks[k].live /\ d.socks[k].session = 0
        /\ d.ss = x.ss /\ d.ended = x.ended
    BY <2>2 DEF DetachResult, NewSocket
  <2>4. n \in 1 .. Len(d.ss) /\ n \notin d.ended /\ k \in 1 .. Len(d.socks)  BY <1>1, <2>1, <2>3
  <2>5. Kept(d, y)
    <3> HIDE DEF k
    <3>1. Kept(d, attach_socket_to_session(d, k, n))  BY <2>2, <2>3, <2>4, AttachGood, Zenon
    <3> QED  BY <2>1, <3>1, Zenon
  <2>6. Good(y) /\ Len(y.socks) = Len(x.socks) + 1 /\ (Calm(x, 0) => Calm(y, 0))
    BY <2>2, <2>3, <2>5 DEF Kept
  <2> QED  BY <1>1, <1>4, <2>6 DEF Handled
<1> QED  BY <1>2, <1>3, <1>4 DEF client_input_handler

(* Closing what was marked while it was served leaves nothing marked.         *)
LEMMA AfterGood ==
  ASSUME NEW x, NEW y, NEW s \in 1 .. Len(x.socks), Handled(x, s, y), Good(x)
  PROVE  Handled(x, 0, AfterProcessing(y, s))
<1>1. Good(y) /\ Len(x.socks) <= Len(y.socks) /\ Len(y.socks) <= MaxSocket
      /\ (Calm(x, 0) => Calm(y, 0) \/ Calm(y, s))
  BY DEF Handled
<1>2. s \in 1 .. Len(y.socks)
  <2>1. Len(y.socks) \in Nat /\ Len(x.socks) \in Nat  BY <1>1, StateTypes DEF Good
  <2> QED  BY <1>1, <2>1
<1>3. CASE y.socks[s].live /\ y.socks[s].tobeclosed
  <2> DEFINE z == Closed(y, s)
  <2>1. AfterProcessing(y, s) = z  BY <1>3 DEF AfterProcessing
  <2>2. Good(z) /\ Len(z.socks) = Len(y.socks) /\ (Calm(y, s) => Calm(z, 0)) /\ (Calm(y, 0) => Calm(z, 0))
    BY <1>1, <1>2, <1>3, ClosedGood
  <2> HIDE DEF z
  <2>3. Handled(x, 0, z)  BY <1>1, <2>2 DEF Handled
  <2> QED  BY <2>1, <2>3
<1>4. CASE ~(y.socks[s].live /\ y.socks[s].tobeclosed)
  <2>1. AfterProcessing(y, s) = y  BY <1>4 DEF AfterProcessing
  <2>2. Calm(y, s) => Calm(y, 0)  BY <1>4 DEF Calm
  <2>3. Handled(x, 0, y)  BY <1>1, <2>2 DEF Handled
  <2> QED  BY <2>1, <2>3
<1> QED  BY <1>3, <1>4

(* open_client_connection_session, with the first message: without failing    *)
(* calls no child is left marked.                                             *)
LEMMA OpenGood ==
  ASSUME ListenerAssumption, NEW x, Good(x), Len(x.socks) <= MaxSocket,
         NEW s \in 1 .. Len(x.socks), x.socks[s].live, x.socks[s].session = 0,
         NEW message \in BOOLEAN, NEW y \in open_client_connection_session(x, s, message)
  PROVE  Good(y) /\ Len(y.socks) <= MaxSocket /\ (~opt.Failures /\ Calm(x, 0) => Calm(y, 0))
<1> DEFINE w == [x EXCEPT !.ss = Append(@, s), !.socks[s].session = Len(x.ss) + 1]
<1>1. Kept(x, w)  BY OpenedGood, Zenon
<1>2. w.socks[s].live
  <2>1. x \in State /\ x.socks[s] \in Socket /\ DOMAIN x.socks = 1 .. Len(x.socks)  BY StateTypes DEF Good
  <2>2. w.socks = [x.socks EXCEPT ![s].session = Len(x.ss) + 1]  BY <2>1 DEF State
  <2> HIDE DEF w
  <2>3. w.socks[s] = [x.socks[s] EXCEPT !.session = Len(x.ss) + 1]  BY <2>1, <2>2
  <2> QED  BY <2>1, <2>3 DEF Socket
<1>3. /\ y \in client_input_handler(w, s) \/ y = w
      /\ ~opt.Failures => y # [w EXCEPT !.socks[s].tobeclosed = TRUE] \/ y = w
  <2> HIDE DEF w
  <2>1. open_client_connection_session(x, s, message) =
          IF message /\ opt.Failures THEN client_input_handler(w, s)
          ELSE IF message THEN client_input_handler(w, s) \ {[w EXCEPT !.socks[s].tobeclosed = TRUE]}
          ELSE {w}
    BY DEF open_client_connection_session, w
  <2> QED  BY <2>1
<1> HIDE DEF w
<1>4. Good(w) /\ Len(w.socks) = Len(x.socks) /\ (Calm(x, 0) => Calm(w, 0))  BY <1>1 DEF Kept
<1>5. CASE y = w  BY <1>4, <1>5
<1>6. CASE y \in client_input_handler(w, s) /\ y # w
  <2>1. /\ Handled(w, s, y)
        /\ y # [w EXCEPT !.socks[s].tobeclosed = TRUE] => Handled(w, 0, y)
    BY <1>2, <1>4, <1>6, HandlerGood
  <2>2. ~opt.Failures => Handled(w, 0, y)  BY <1>3, <1>6, <2>1, Zenon
  <2> QED  BY <1>4, <2>1, <2>2 DEF Handled
<1> QED  BY <1>3, <1>5, <1>6

(* A child is made for a client the map does not know and put in the map.     *)
LEMMA ChildGood ==
  ASSUME NEW x, Good(x), NEW c \in Client, NEW ssl \in BOOLEAN
  PROVE  LET k == Len(x.socks) + 1
             y == add_socket_to_map(create_ioa_socket(x, c, x.fd, TRUE, ssl), k)
         IN  /\ Good(y) /\ Len(y.socks) = k /\ y.socks[k].live /\ y.socks[k].session = 0
             /\ ~Known(x, c) /\ Calm(x, 0) => Calm(y, 0)
<1> DEFINE k == Len(x.socks) + 1
           w == create_ioa_socket(x, c, x.fd, TRUE, ssl)
           n == NewSocket(c, x.fd, TRUE, ssl)
           o == [n EXCEPT !.container = TRUE]
           ch == [x.children EXCEPT ![c] = k]
           v == [w EXCEPT !.children = ch]
           y == add_socket_to_map(w, k)
<1>0. x \in State /\ Bounded(x) /\ Owned(x) /\ Linked(x) /\ Mapped(x)  BY DEF Good
<1>1. /\ Len(x.socks) \in Nat /\ Len(x.ss) \in Nat /\ x.fd \in Fd \cup {NoFd} /\ TRUE \in BOOLEAN
      /\ x.children \in [Client -> Nat]
      /\ \A r \in 1 .. Len(x.socks) : x.socks[r] \in Socket
  BY <1>0, StateTypes DEF State
<1>2. CreateResult(x, n, w)  BY <1>0, <1>1, CreateFields, Zenon
<1>3. /\ o \in Socket /\ o.live /\ o.child /\ o.container /\ o.addr = c /\ o.session = 0 /\ ~o.tobeclosed
      /\ n.addr = c
  BY <1>1 DEF Socket, NewSocket
<1> HIDE DEF w, n
<1>4. ch \in [Client -> Nat] /\ ch[c] = k /\ \A e \in Client : e # c => ch[e] = x.children[e]
  BY <1>1
<1>5. /\ v \in State /\ v.socks = w.socks /\ v.children = ch /\ v.fds = w.fds
      /\ v.fd = w.fd /\ v.ev = w.ev /\ v.ss = w.ss /\ v.ended = w.ended
  <2> HIDE DEF ch
  <2> QED  BY <1>2, <1>4 DEF State, CreateResult
<1>6. y = [v EXCEPT !.socks = [@ EXCEPT ![k] = o]]
  <2>1. w.socks[k] = n /\ w.children = x.children  BY <1>2 DEF CreateResult
  <2>2. y = [w EXCEPT !.children = [w.children EXCEPT ![w.socks[k].addr] = k],
                      !.socks = [w.socks EXCEPT ![k] = [w.socks[k] EXCEPT !.container = TRUE]]]
    <3>1. w \in State  BY <1>2 DEF CreateResult
    <3> QED  BY <3>1 DEF add_socket_to_map, State
  <2>3. y = [w EXCEPT !.children = ch, !.socks = [w.socks EXCEPT ![k] = o]]
    BY <1>3, <2>1, <2>2, Zenon
  <2>4. w.socks = v.socks  BY <1>5
  <2>5. y = [v EXCEPT !.socks = [w.socks EXCEPT ![k] = o]]  BY <2>3
  <2> HIDE DEF v, y
  <2> QED  BY <2>4, <2>5
<1> HIDE DEF y, v, o, ch
<1>7. UpdateResult(v, k, o, y)
  <2>1. k \in 1 .. Len(v.socks) /\ v \in State /\ o \in Socket  BY <1>1, <1>2, <1>3, <1>5 DEF CreateResult
  <2> HIDE DEF k
  <2>2. UpdateResult(v, k, o, [v EXCEPT !.socks = [@ EXCEPT ![k] = o]])  BY <2>1, SocketUpdate, Zenon
  <2> QED  BY <1>6, <2>2, Zenon
<1>8. /\ y \in State /\ Len(y.socks) = k /\ y.socks[k] = o
      /\ \A r \in 1 .. Len(x.socks) : y.socks[r] = x.socks[r]
      /\ y.fd = x.fd /\ y.ev = x.ev /\ y.fds = x.fds /\ y.ss = x.ss /\ y.ended = x.ended
      /\ y.children[c] = k /\ \A e \in Client : e # c => y.children[e] = x.children[e]
  <2>1. \A r \in 1 .. Len(x.socks) : r \in 1 .. Len(v.socks) /\ r # k  BY <1>1, <1>2, <1>5 DEF CreateResult
  <2>2. \A r \in 1 .. Len(x.socks) : y.socks[r] = x.socks[r]  BY <1>2, <1>5, <1>7, <2>1 DEF CreateResult, UpdateResult
  <2>3. /\ y \in State /\ Len(y.socks) = k /\ y.socks[k] = o /\ y.children = ch
        /\ y.fd = x.fd /\ y.ev = x.ev /\ y.fds = x.fds /\ y.ss = x.ss /\ y.ended = x.ended
    BY <1>2, <1>5, <1>7 DEF CreateResult, UpdateResult
  <2> QED  BY <1>4, <2>2, <2>3
<1>9. \A r \in 1 .. k : r \in 1 .. Len(x.socks) \/ r = k  BY <1>1
<1>10. k \in Nat /\ Len(x.socks) <= k /\ \A r \in 1 .. Len(x.socks) : r \in 1 .. k  BY <1>1
<1>11. Bounded(y)
  <2>1. \A e \in Client : y.children[e] <= Len(y.socks)
    <3> TAKE e \in Client
    <3>1. CASE e = c  BY <1>8, <1>10, <3>1
    <3>2. CASE e # c
      <4>1. y.children[e] = x.children[e] /\ x.children[e] <= Len(x.socks) /\ x.children[e] \in Nat
        BY <1>0, <1>1, <1>8, <3>2 DEF Bounded
      <4> QED  BY <1>1, <1>8, <4>1
    <3> QED  BY <3>1, <3>2
  <2>2. \A j \in 1 .. Len(y.ss) : y.ss[j] <= Len(y.socks)
    <3> TAKE j \in 1 .. Len(y.ss)
    <3>1. x.ss[j] \in Nat /\ x.ss[j] <= Len(x.socks)  BY <1>0, <1>8, StateTypes DEF Bounded
    <3> QED  BY <1>1, <1>8, <3>1
  <2>3. \A r \in 1 .. Len(y.socks) : y.socks[r].session <= Len(y.ss)
    <3> HIDE DEF k
    <3> QED  BY <1>0, <1>1, <1>3, <1>8, <1>9 DEF Bounded
  <2> QED  BY <1>0, <1>8, <2>1, <2>2, <2>3 DEF Bounded
<1> HIDE DEF k
<1>12. Owned(y)
  <2>1. \A r \in 1 .. Len(x.socks) : (Owns(y, r) <=> Owns(x, r)) /\ y.socks[r].fd = x.socks[r].fd  BY <1>8 DEF Owns
  <2>2. ~Owns(y, k)  BY <1>3, <1>8 DEF Owns
  <2>3. \A r \in 1 .. k : Owns(y, r) => r \in 1 .. Len(x.socks) /\ Owns(x, r)  BY <1>9, <2>1, <2>2
  <2>4. \A f \in Fd : y.fds[f].kind = "conn" => \E r \in 1 .. k : Owns(y, r) /\ y.socks[r].fd = f
    BY <1>0, <1>8, <1>10, <2>1 DEF Owned
  <2>5. \A q, r \in 1 .. k : Owns(y, q) /\ Owns(y, r) /\ y.socks[q].fd = y.socks[r].fd => q = r
    BY <1>0, <2>1, <2>3 DEF Owned
  <2>6. \A r \in 1 .. k : Owns(y, r) => y.fds[y.socks[r].fd].kind = "conn"
    BY <1>0, <1>8, <2>1, <2>3 DEF Owned
  <2> QED  BY <1>0, <1>8, <2>4, <2>5, <2>6 DEF Owned
<1>13. Linked(y)
  <2>1. ASSUME NEW j \in 1 .. Len(y.ss), j \notin y.ended, y.ss[j] # 0
        PROVE  y.socks[y.ss[j]].live /\ y.socks[y.ss[j]].session = j
    <3>1. j \in 1 .. Len(x.ss) /\ x.ss[j] \in 1 .. Len(x.socks)
      BY <1>0, <1>1, <1>8, <2>1, StateTypes DEF Bounded
    <3> QED  BY <1>0, <1>8, <2>1, <3>1 DEF Linked
  <2>2. ASSUME NEW r \in 1 .. Len(y.socks), y.socks[r].live, y.socks[r].session # 0
        PROVE  y.socks[r].session \notin y.ended /\ y.ss[y.socks[r].session] = r
    <3>1. r \in 1 .. Len(x.socks)  BY <1>3, <1>8, <1>9, <2>2
    <3> QED  BY <1>0, <1>8, <2>2, <3>1 DEF Linked
  <2> QED  BY <2>1, <2>2 DEF Linked
<1>14. Mapped(y)
  <2>1. ASSUME NEW e \in Client, y.children[e] # 0
        PROVE  LET r == y.socks[y.children[e]] IN r.live /\ r.child /\ r.container /\ r.addr = e
    <3>1. CASE e = c  BY <1>3, <1>8, <3>1
    <3>2. CASE e # c
      <4>1. x.children[e] = y.children[e] /\ x.children[e] \in 1 .. Len(x.socks)
        BY <1>0, <1>1, <1>8, <2>1, <3>2 DEF Bounded
      <4> QED  BY <1>0, <1>8, <2>1, <4>1 DEF Mapped
    <3> QED  BY <3>1, <3>2
  <2>2. \A r \in 1 .. Len(y.socks) : y.socks[r].container => y.socks[r].child /\ y.socks[r].live
    BY <1>0, <1>3, <1>8, <1>9 DEF Mapped
  <2> QED  BY <2>1, <2>2 DEF Mapped
<1>15. ASSUME ~Known(x, c), Calm(x, 0)  PROVE Calm(y, 0)
  <2>1. x.children[c] = 0
    <3> SUFFICES ASSUME x.children[c] # 0 PROVE FALSE  OBVIOUS
    <3>1. x.children[c] \in 1 .. Len(x.socks)  BY <1>0, <1>1 DEF Bounded
    <3>2. x.socks[x.children[c]].live /\ x.socks[x.children[c]].child /\ x.socks[x.children[c]].container
      BY <1>0 DEF Mapped
    <3>3. ~x.socks[x.children[c]].tobeclosed  BY <1>15, <3>1, <3>2 DEF Calm
    <3> QED  BY <1>15, <3>2, <3>3 DEF Known
  <2>2. ASSUME NEW r \in 1 .. k, y.socks[r].live, y.socks[r].child
        PROVE  y.children[y.socks[r].addr] = r /\ (y.socks[r].tobeclosed => r = 0)
    <3>1. CASE r = k  BY <1>3, <1>8, <3>1
    <3>2. CASE r # k
      <4>1. r \in 1 .. Len(x.socks) /\ y.socks[r] = x.socks[r]  BY <1>8, <1>9, <3>2
      <4>2. x.children[x.socks[r].addr] = r /\ (x.socks[r].tobeclosed => r = 0)
        BY <1>15, <2>2, <4>1 DEF Calm
      <4>3. x.socks[r].addr # c /\ x.socks[r].addr \in Client  BY <1>1, <2>1, <4>1, <4>2 DEF Socket
      <4> QED  BY <1>8, <4>1, <4>2, <4>3
    <3> QED  BY <3>1, <3>2
  <2> QED  BY <1>8, <2>2 DEF Calm
<1>16. Good(y)  BY <1>8, <1>11, <1>12, <1>13, <1>14 DEF Good
<1>17. y.socks[k].live /\ y.socks[k].session = 0  BY <1>3, <1>8
<1> QED  BY <1>8, <1>15, <1>16, <1>17 DEF y, w, k

(* A connected socket is made for a client: the descriptor it owns was free.  *)
LEMMA ConnectedGood ==
  ASSUME ListenerAssumption, NEW x, Good(x), Len(x.socks) < MaxSocket,
         NEW c \in Client, NEW ssl \in BOOLEAN
  PROVE  LET k == Len(x.socks) + 1
             y == create_ioa_socket(connected_fd(x, c), c, NextFd(x), FALSE, ssl)
         IN  /\ Good(y) /\ Len(y.socks) = k /\ y.socks[k].live /\ y.socks[k].session = 0
             /\ Calm(x, 0) => Calm(y, 0)
<1> DEFINE k == Len(x.socks) + 1
           g == NextFd(x)
           w == connected_fd(x, c)
           o == NewSocket(c, g, FALSE, ssl)
           y == create_ioa_socket(w, c, g, FALSE, ssl)
<1>0. x \in State /\ Bounded(x) /\ Owned(x) /\ Linked(x) /\ Mapped(x)  BY DEF Good
<1>1. /\ Len(x.socks) \in Nat /\ Len(x.ss) \in Nat /\ FALSE \in BOOLEAN
      /\ \A r \in 1 .. Len(x.socks) : x.socks[r] \in Socket
      /\ \A e \in Client : x.children[e] \in Nat
  BY <1>0, StateTypes DEF State
<1>2. g \in Fd /\ x.fds[g].kind = "free" /\ g # NoFd
  <2>1. g \in Fd /\ x.fds[g].kind = "free"  BY FdIsFree
  <2> QED  BY <2>1 DEF Fd, NoFd
<1>3. /\ w \in State /\ w.socks = x.socks
      /\ w.fd = x.fd /\ w.ev = x.ev /\ w.children = x.children /\ w.ss = x.ss /\ w.ended = x.ended
      /\ \A f \in Fd : f # g => w.fds[f] = x.fds[f]
      /\ w.fds[g].kind = "conn"
  BY <1>0, <1>2, ConnectedFields
<1>4. /\ o.live /\ ~o.child /\ ~o.container /\ o.fd = g /\ o.session = 0
  BY DEF NewSocket
<1> HIDE DEF w, g
<1>5. CreateResult(w, o, y)
  <2>1. g \in Fd \cup {NoFd} /\ w \in State  BY <1>2, <1>3
  <2> QED  BY <1>1, <2>1, CreateFields, Zenon
<1> HIDE DEF y, o
<1>6. /\ y \in State /\ Len(y.socks) = k /\ y.socks[k] = o
      /\ \A r \in 1 .. Len(x.socks) : y.socks[r] = x.socks[r]
      /\ y.fd = x.fd /\ y.ev = x.ev /\ y.children = x.children /\ y.ss = x.ss /\ y.ended = x.ended
      /\ \A f \in Fd : f # g => y.fds[f] = x.fds[f]
      /\ y.fds[g].kind = "conn"
  BY <1>3, <1>5 DEF CreateResult
<1>7. \A r \in 1 .. k : r \in 1 .. Len(x.socks) \/ r = k  BY <1>1
<1>8. k \in Nat /\ Len(x.socks) <= k /\ k \in 1 .. k /\ \A r \in 1 .. Len(x.socks) : r \in 1 .. k  BY <1>1
<1>9. Bounded(y)
  <2>1. \A e \in Client : y.children[e] <= Len(y.socks)
    <3> TAKE e \in Client
    <3>1. x.children[e] <= Len(x.socks) /\ x.children[e] \in Nat  BY <1>0, <1>1 DEF Bounded
    <3> QED  BY <1>1, <1>6, <3>1
  <2>2. \A j \in 1 .. Len(y.ss) : y.ss[j] <= Len(y.socks)
    <3> TAKE j \in 1 .. Len(y.ss)
    <3>1. x.ss[j] \in Nat /\ x.ss[j] <= Len(x.socks)  BY <1>0, <1>6, StateTypes DEF Bounded
    <3> QED  BY <1>1, <1>6, <3>1
  <2>3. \A r \in 1 .. Len(y.socks) : y.socks[r].session <= Len(y.ss)
    <3> HIDE DEF k
    <3> QED  BY <1>0, <1>1, <1>4, <1>6, <1>7 DEF Bounded
  <2> QED  BY <1>0, <1>6, <2>1, <2>2, <2>3 DEF Bounded
<1> HIDE DEF k
<1>10. Owned(y)
  <2>1. \A r \in 1 .. Len(x.socks) : (Owns(y, r) <=> Owns(x, r)) /\ y.socks[r].fd = x.socks[r].fd  BY <1>6 DEF Owns
  <2>2. Owns(y, k) /\ y.socks[k].fd = g  BY <1>2, <1>4, <1>6 DEF Owns
  <2>3. \A r \in 1 .. Len(x.socks) : Owns(x, r) => x.socks[r].fd # g /\ x.socks[r].fd \in Fd
    BY <1>0, <1>1, <1>2 DEF Owned, Owns, Socket
  <2>4. \A f \in Fd : y.fds[f].kind = "listen" <=> f = y.fd
    <3> TAKE f \in Fd
    <3>1. CASE f = g  BY <1>0, <1>2, <1>6, <3>1 DEF Owned
    <3>2. CASE f # g  BY <1>0, <1>6, <3>2 DEF Owned
    <3> QED  BY <3>1, <3>2
  <2>5. \A f \in Fd : y.fds[f].kind = "conn" => \E r \in 1 .. k : Owns(y, r) /\ y.socks[r].fd = f
    <3> TAKE f \in Fd
    <3>1. CASE f = g  BY <1>8, <2>2, <3>1
    <3>2. CASE f # g  BY <1>0, <1>6, <1>8, <2>1, <3>2 DEF Owned
    <3> QED  BY <3>1, <3>2
  <2>6. \A q, r \in 1 .. k : Owns(y, q) /\ Owns(y, r) /\ y.socks[q].fd = y.socks[r].fd => q = r
    <3>1. \A q, r \in 1 .. Len(x.socks) : Owns(y, q) /\ Owns(y, r) /\ y.socks[q].fd = y.socks[r].fd => q = r
      BY <1>0, <2>1 DEF Owned
    <3>2. \A r \in 1 .. Len(x.socks) : Owns(y, r) => y.socks[r].fd # y.socks[k].fd  BY <2>1, <2>2, <2>3
    <3> QED  BY <1>7, <3>1, <3>2
  <2>7. \A r \in 1 .. k : Owns(y, r) => y.fds[y.socks[r].fd].kind = "conn"
    <3>1. \A r \in 1 .. Len(x.socks) : Owns(y, r) => y.fds[y.socks[r].fd].kind = "conn"
      BY <1>0, <1>6, <2>1, <2>3 DEF Owned
    <3> QED  BY <1>6, <1>7, <2>2, <3>1
  <2> QED  BY <1>0, <1>6, <2>4, <2>5, <2>6, <2>7 DEF Owned
<1>11. Linked(y)
  <2>1. ASSUME NEW j \in 1 .. Len(y.ss), j \notin y.ended, y.ss[j] # 0
        PROVE  y.socks[y.ss[j]].live /\ y.socks[y.ss[j]].session = j
    <3>1. j \in 1 .. Len(x.ss) /\ x.ss[j] \in 1 .. Len(x.socks)
      BY <1>0, <1>1, <1>6, <2>1, StateTypes DEF Bounded
    <3> QED  BY <1>0, <1>6, <2>1, <3>1 DEF Linked
  <2>2. ASSUME NEW r \in 1 .. Len(y.socks), y.socks[r].live, y.socks[r].session # 0
        PROVE  y.socks[r].session \notin y.ended /\ y.ss[y.socks[r].session] = r
    <3>1. r \in 1 .. Len(x.socks)  BY <1>4, <1>6, <1>7, <2>2
    <3> QED  BY <1>0, <1>6, <2>2, <3>1 DEF Linked
  <2> QED  BY <2>1, <2>2 DEF Linked
<1>12. Mapped(y)
  <2>1. \A e \in Client : x.children[e] # 0 => x.children[e] \in 1 .. Len(x.socks)
    BY <1>0, <1>1 DEF Bounded
  <2>2. \A r \in 1 .. Len(y.socks) : y.socks[r].container => y.socks[r].child /\ y.socks[r].live
    BY <1>0, <1>4, <1>6, <1>7 DEF Mapped
  <2> QED  BY <1>0, <1>6, <2>1, <2>2 DEF Mapped
<1>13. Calm(x, 0) => Calm(y, 0)  BY <1>4, <1>6, <1>7 DEF Calm
<1>14. Good(y)  BY <1>6, <1>9, <1>10, <1>11, <1>12 DEF Good
<1>15. y.socks[k].live /\ y.socks[k].session = 0  BY <1>4, <1>6
<1> QED  BY <1>6, <1>13, <1>14, <1>15 DEF y, w, k, g

(* Reopening the listener keeps Good: the number it gets was its own or free. *)
LEMMA ReopenGood ==
  ASSUME ListenerAssumption, NEW x, Good(x), x.ev, NEW y \in reopen_server_socket(x)
  PROVE  Good(y) /\ y.socks = x.socks /\ (Calm(x, 0) => Calm(y, 0))
<1> DEFINE a == [x.fds EXCEPT ![x.fd] = Free]
           v == [x EXCEPT !.fds = a, !.ev = FALSE]
           g == NextFd(v)
           e == [kind |-> "listen", addr |-> <<>>]
           b == [a EXCEPT ![g] = e]
<1>0. x \in State /\ Bounded(x) /\ Owned(x) /\ Linked(x) /\ Mapped(x)  BY DEF Good
<1>1. x.fd \in Fd /\ x.fds \in [Fd -> FdEntry] /\ Free \in FdEntry /\ e \in FdEntry
  BY <1>0 DEF Owned, State, FdEntry, Free
<1>2. /\ a \in [Fd -> FdEntry] /\ a[x.fd].kind = "free" /\ \A f \in Fd : f # x.fd => a[f] = x.fds[f]
  BY <1>1 DEF Free
<1>3. /\ v.fds = a /\ v.fd = x.fd /\ v.socks = x.socks /\ v.children = x.children /\ v.ss = x.ss /\ v.ended = x.ended
      /\ v.ev = FALSE /\ v \in State
  <2> HIDE DEF a
  <2> QED  BY <1>0, <1>2 DEF State
<1>4. g \in Fd /\ a[g].kind = "free"
  <2> DEFINE S == {f \in Fd : a[f].kind = "free"}
  <2>1. S # {} /\ S \subseteq Nat  BY <1>1, <1>2 DEF Fd, ListenerAssumption
  <2>2. g = Min(S)  BY <1>3 DEF NextFd
  <2> HIDE DEF S, g
  <2>3. g \in S  BY <2>1, <2>2, MinOfNaturals
  <2> QED  BY <2>3 DEF S
<1>5. /\ b \in [Fd -> FdEntry] /\ b[g].kind = "listen" /\ \A f \in Fd : f # g => b[f] = a[f]
  <2> HIDE DEF a, g
  <2> QED  BY <1>1, <1>2, <1>4
<1>6. /\ y \in State /\ y.socks = x.socks /\ y.children = x.children /\ y.ss = x.ss /\ y.ended = x.ended
      /\ \/ y.fd = g /\ y.fds = b
         \/ y.fd = NoFd /\ y.fds = a /\ y.ev = FALSE
  <2>1. v = [x EXCEPT !.fds[x.fd] = Free, !.ev = FALSE]  OBVIOUS
  <2>2. y \in {[[v EXCEPT !.fds[g] = e, !.fd = g] EXCEPT !.ev = TRUE],
               [v EXCEPT !.fds[g] = e, !.fd = g], [v EXCEPT !.fd = NoFd]}
    BY <2>1 DEF reopen_server_socket
  <2> HIDE DEF v, g, a, e
  <2>3. y \in {[v EXCEPT !.fds = b, !.fd = g, !.ev = TRUE], [v EXCEPT !.fds = b, !.fd = g],
               [v EXCEPT !.fd = NoFd]}
    BY <1>3, <2>2
  <2> HIDE DEF b
  <2> QED  BY <1>3, <1>4, <1>5, <2>3 DEF State
<1> HIDE DEF a, b, g, v, e
<1>7. Owned(y)
  <2>1. \A r \in 1 .. Len(x.socks) : (Owns(y, r) <=> Owns(x, r)) /\ y.socks[r].fd = x.socks[r].fd
    BY <1>6 DEF Owns
  <2>2. g = x.fd \/ x.fds[g].kind = "free"  BY <1>2, <1>4
  <2>3. NoFd \notin Fd  BY DEF NoFd, Fd
  <2>4. \A f \in Fd : y.fds[f].kind = "conn" <=> x.fds[f].kind = "conn"
    <3> TAKE f \in Fd
    <3>1. x.fds[x.fd].kind = "listen"  BY <1>0, <1>1 DEF Owned
    <3>2. a[f].kind = "conn" <=> x.fds[f].kind = "conn"  BY <1>2, <3>1
    <3>3. b[f].kind = "conn" <=> x.fds[f].kind = "conn"
      <4>1. CASE f = g  BY <1>5, <2>2, <3>1, <4>1
      <4>2. CASE f # g  BY <1>5, <3>2, <4>2
      <4> QED  BY <4>1, <4>2
    <3> QED  BY <1>6, <3>2, <3>3
  <2>5. \A f \in Fd : y.fds[f].kind = "listen" <=> f = y.fd
    <3>1. \A f \in Fd : a[f].kind # "listen"  BY <1>0, <1>2 DEF Owned
    <3> QED  BY <1>5, <1>6, <2>3, <3>1
  <2>6. y.ev => y.fd # NoFd  BY <1>4, <1>6, <2>3
  <2>7. \A r \in 1 .. Len(x.socks) : Owns(x, r) => x.socks[r].fd \in Fd
    BY <1>0, StateTypes DEF Owns, Socket
  <2>8. \A r \in 1 .. Len(y.socks) : Owns(y, r) => y.fds[y.socks[r].fd].kind = "conn"
    BY <1>0, <1>6, <2>1, <2>4, <2>7 DEF Owned
  <2>9. \A q, r \in 1 .. Len(y.socks) : Owns(y, q) /\ Owns(y, r) /\ y.socks[q].fd = y.socks[r].fd => q = r
    BY <1>0, <1>6, <2>1 DEF Owned
  <2>10. \A f \in Fd : y.fds[f].kind = "conn" => \E r \in 1 .. Len(y.socks) : Owns(y, r) /\ y.socks[r].fd = f
    BY <1>0, <1>6, <2>1, <2>4 DEF Owned
  <2> QED  BY <2>5, <2>6, <2>8, <2>9, <2>10 DEF Owned
<1>8. Bounded(y)  BY <1>0, <1>6 DEF Bounded
<1>9. Linked(y)  BY <1>0, <1>6 DEF Linked
<1>10. Mapped(y)  BY <1>0, <1>6 DEF Mapped
<1>11. Calm(x, 0) => Calm(y, 0)  BY <1>6 DEF Calm
<1> QED  BY <1>6, <1>7, <1>8, <1>9, <1>10, <1>11 DEF Good

(* Closing the child the map has for a client leaves nothing there, so what   *)
(* handle_udp_packet then removes from the map is gone already.               *)
LEMMA ClosedLeavesMap ==
  ASSUME NEW x, Good(x), NEW c \in Client, x.children[c] # 0
  PROVE  [Closed(x, x.children[c]) EXCEPT !.children[c] = 0] = Closed(x, x.children[c])
<1> DEFINE s == x.children[c]
           w == close_ioa_socket(x, s)
           z == Closed(x, s)
<1>0. x \in State /\ Bounded(x) /\ Linked(x) /\ Mapped(x)  BY DEF Good
<1>1. s \in Nat /\ Len(x.socks) \in Nat /\ Len(x.ss) \in Nat  BY <1>0, StateTypes
<1>2. s \in 1 .. Len(x.socks) /\ x.socks[s].live /\ x.socks[s].container /\ x.socks[s].addr = c
  BY <1>0, <1>1 DEF Bounded, Mapped
<1>3. CloseResult(x, s, w)  BY <1>0, <1>2, CloseFields
<1>4. w.children[c] = 0 /\ w \in State  BY <1>2, <1>3 DEF CloseResult
<1>5. z = w \/ z = [w EXCEPT !.ended = @ \cup {x.socks[s].session}]
  <2>1. CASE x.socks[s].session = 0  BY <2>1 DEF Closed
  <2>2. CASE x.socks[s].session # 0
    <3>1. x.ss[x.socks[s].session] = s  BY <1>0, <1>2, <2>2 DEF Linked
    <3>2. z = shutdown_client_connection(x, x.socks[s].session)  BY <2>2 DEF Closed
    <3>3. s # 0  BY <1>2
    <3> DEFINE v == IF x.ss[x.socks[s].session] = 0 THEN x ELSE close_ioa_socket(x, x.ss[x.socks[s].session])
    <3>4. v = w
      <4> HIDE DEF s
      <4> QED  BY <3>1, <3>3
    <3>5. z = [v EXCEPT !.ended = @ \cup {x.socks[s].session}]  BY <3>2 DEF shutdown_client_connection
    <3> HIDE DEF z, s, v, w
    <3> QED  BY <3>4, <3>5
  <2> QED  BY <2>1, <2>2
<1> HIDE DEF w, s, z
<1>6. z.children = w.children /\ z.children \in [Client -> Nat]
  <2> DEFINE e == w.ended \cup {x.socks[s].session}
  <2>1. z = w \/ z = [w EXCEPT !.ended = e]  BY <1>5
  <2> HIDE DEF e
  <2> QED  BY <1>4, <2>1 DEF State
<1>7. [z.children EXCEPT ![c] = 0] = z.children  BY <1>4, <1>6
<1>8. z = [z EXCEPT !.children = z.children]
  <2>1. z \in State
    <3>1. Good(Closed(x, s))  BY <1>2, ClosedGood
    <3> QED  BY <3>1 DEF Good, z
  <2> QED  BY <2>1 DEF State
<1>9. [z EXCEPT !.children[c] = 0] = z  BY <1>7, <1>8
<1> QED  BY <1>9 DEF z, s

(* A packet from a client the map knows.                                      *)
LEMMA KnownGood ==
  ASSUME ListenerAssumption, NEW x, Good(x), Len(x.socks) <= MaxSocket,
         NEW c \in Client, Known(x, c), NEW y \in KnownClient(x, c)
  PROVE  Handled(x, 0, y)
<1> DEFINE s == x.children[c]
<1>0. x \in State /\ Bounded(x) /\ Mapped(x)  BY DEF Good
<1>1. s \in Nat /\ Len(x.socks) \in Nat /\ s # 0  BY <1>0, StateTypes DEF Known
<1>2. s \in 1 .. Len(x.socks) /\ x.socks[s].live  BY <1>0, <1>1 DEF Bounded, Mapped
<1>3. \/ \E z \in client_input_handler(x, s) : y = AfterProcessing(z, s)
      \/ y = x
      \/ y = [Closed(x, s) EXCEPT !.children[c] = 0]
  BY DEF KnownClient, ssl_read
<1>4. CASE \E z \in client_input_handler(x, s) : y = AfterProcessing(z, s)
  <2>1. PICK z \in client_input_handler(x, s) : y = AfterProcessing(z, s)  BY <1>4
  <2> HIDE DEF s
  <2>2. Handled(x, s, z)  BY <1>2, HandlerGood
  <2> QED  BY <1>2, <2>1, <2>2, AfterGood
<1>5. CASE y = x  BY <1>1, <1>5 DEF Handled
<1>6. CASE y = [Closed(x, s) EXCEPT !.children[c] = 0]
  <2>1. y = Closed(x, s)  BY <1>1, <1>6, ClosedLeavesMap
  <2> HIDE DEF s
  <2>2. Good(y) /\ Len(y.socks) = Len(x.socks) /\ (Calm(x, 0) => Calm(y, 0))  BY <1>2, <2>1, ClosedGood
  <2> QED  BY <1>1, <2>2 DEF Handled
<1> QED  BY <1>3, <1>4, <1>5, <1>6

(* What a step of the listener keeps of a state.                              *)
StepKept(y) ==
  Good(y) /\ Len(y.socks) <= MaxSocket /\ (~opt.Failures => Calm(y, 0))

(* A packet the listener reads, whatever it is.                               *)
LEMMA PacketGood ==
  ASSUME ListenerAssumption, StepKept(st), NEW c \in Client, NEW hello \in BOOLEAN,
         udp_server_input_handler(c, hello)
  PROVE  StepKept(st')
<1>0. Good(st) /\ Len(st.socks) <= MaxSocket /\ (~opt.Failures => Calm(st, 0)) /\ st \in State
  BY DEF StepKept, Good
<1>1. Len(st.socks) \in Nat /\ MaxSocket \in Nat  BY <1>0, StateTypes DEF ListenerAssumption
<1>2. opt' = opt  BY DEF udp_server_input_handler
<1>3. SUFFICES Good(st') /\ Len(st'.socks) <= MaxSocket /\ (~opt.Failures => Calm(st', 0))
  BY <1>2 DEF StepKept
<1>4. CASE opt.SocketEach
  <2> DEFINE k == Len(st.socks) + 1
             w == create_ioa_socket(connected_fd(st, c), c, NextFd(st), FALSE, hello)
  <2>1. st' \in create_new_connected_udp_socket(st, c, hello)  BY <1>4 DEF udp_server_input_handler
  <2>2. Len(st.socks) < MaxSocket /\ (st' \in open_client_connection_session(w, k, ~hello) \/ st' = st)
    BY <2>1 DEF create_new_connected_udp_socket
  <2>3. CASE st' = st  BY <1>0, <2>3
  <2>4. CASE st' \in open_client_connection_session(w, k, ~hello)
    <3>1. Good(w) /\ Len(w.socks) = k /\ w.socks[k].live /\ w.socks[k].session = 0 /\ (Calm(st, 0) => Calm(w, 0))
      BY <1>0, <2>2, ConnectedGood
    <3> HIDE DEF w
    <3>2. k \in 1 .. Len(w.socks) /\ Len(w.socks) <= MaxSocket /\ (~hello) \in BOOLEAN  BY <1>1, <2>2, <3>1
    <3> HIDE DEF k
    <3> QED  BY <1>0, <2>4, <3>1, <3>2, OpenGood
  <2> QED  BY <2>2, <2>3, <2>4
<1>5. CASE ~opt.SocketEach
  <2>1. st' \in handle_udp_packet(st, c, hello)  BY <1>5 DEF udp_server_input_handler
  <2>2. CASE Known(st, c)
    <3>1. Handled(st, 0, st')  BY <1>0, <2>1, <2>2, KnownGood DEF handle_udp_packet
    <3> QED  BY <1>0, <3>1 DEF Handled
  <2>3. CASE ~Known(st, c)
    <3> DEFINE k == Len(st.socks) + 1
               w(ssl) == add_socket_to_map(create_ioa_socket(st, c, st.fd, TRUE, ssl), k)
    <3>1. Len(st.socks) < MaxSocket /\ st' \in UnknownClient(st, c, hello)
      BY <2>1, <2>3 DEF handle_udp_packet
    <3>2. st' = st \/ \E ssl, message \in BOOLEAN : st' \in open_client_connection_session(w(ssl), k, message)
      <4>1. st' = st \/ st' \in NewChild(st, c, TRUE, FALSE) \/ st' \in NewChild(st, c, FALSE, ~hello)
        BY <3>1 DEF UnknownClient
      <4>2. \A ssl, message : NewChild(st, c, ssl, message) = open_client_connection_session(w(ssl), k, message)
        BY DEF NewChild
      <4>3. TRUE \in BOOLEAN /\ FALSE \in BOOLEAN /\ (~hello) \in BOOLEAN  OBVIOUS
      <4> HIDE DEF w, k
      <4> QED  BY <4>1, <4>2, <4>3, Zenon
    <3>3. CASE st' = st  BY <1>0, <3>3
    <3>4. ASSUME NEW ssl \in BOOLEAN, NEW message \in BOOLEAN,
                 st' \in open_client_connection_session(w(ssl), k, message)
          PROVE  Good(st') /\ Len(st'.socks) <= MaxSocket /\ (~opt.Failures => Calm(st', 0))
      <4> DEFINE v == w(ssl)
      <4>1. Good(v) /\ Len(v.socks) = k /\ v.socks[k].live /\ v.socks[k].session = 0 /\ (Calm(st, 0) => Calm(v, 0))
        BY <1>0, <2>3, ChildGood
      <4>2. st' \in open_client_connection_session(v, k, message)  BY <3>4
      <4> HIDE DEF v, w
      <4>3. k \in 1 .. Len(v.socks) /\ Len(v.socks) <= MaxSocket  BY <1>1, <3>1, <4>1
      <4> HIDE DEF k
      <4> QED  BY <1>0, <4>1, <4>2, <4>3, OpenGood
    <3> QED  BY <3>2, <3>3, <3>4
  <2> QED  BY <2>2, <2>3
<1> QED  BY <1>4, <1>5

(* A packet on a socket of its own.                                           *)
LEMMA SocketInputGood ==
  ASSUME ListenerAssumption, StepKept(st), NEW s \in DOMAIN st.socks, socket_input_handler(s)
  PROVE  StepKept(st')
<1>0. Good(st) /\ Len(st.socks) <= MaxSocket /\ (~opt.Failures => Calm(st, 0)) /\ st \in State
  BY DEF StepKept, Good
<1>1. Len(st.socks) \in Nat /\ MaxSocket \in Nat /\ s \in 1 .. Len(st.socks)
  BY <1>0, StateTypes DEF ListenerAssumption
<1>2. opt' = opt /\ st.socks[s].live  BY DEF socket_input_handler, Live
<1>3. PICK y \in socket_input_worker(st, s) : st' = AfterProcessing(y, s)  BY DEF socket_input_handler
<1>4. y = st \/ y \in client_input_handler(st, s) \/ y = [st EXCEPT !.socks[s].tobeclosed = TRUE]
  BY DEF socket_input_worker, ssl_read
<1>5. y \in client_input_handler(st, s)  BY <1>4 DEF client_input_handler
<1>6. Handled(st, s, y)  BY <1>0, <1>1, <1>2, <1>5, HandlerGood
<1>7. Handled(st, 0, st')  BY <1>0, <1>1, <1>3, <1>6, AfterGood
<1> QED  BY <1>0, <1>2, <1>7 DEF Handled, StepKept

(* ListenerInv is inductive.                                                  *)
LEMMA ListenerStep ==
  ASSUME ListenerAssumption, ListenerInv, [ListenerNext]_listenerVars
  PROVE  ListenerInv'
<1>0. StepKept(st) /\ opt \in Options /\ reopened \in Nat  BY DEF ListenerInv, StepKept
<1>1. Good(st) /\ Len(st.socks) <= MaxSocket /\ (~opt.Failures => Calm(st, 0)) /\ st \in State
  BY <1>0 DEF StepKept, Good
<1>2. Len(st.socks) \in Nat /\ DOMAIN st.socks = 1 .. Len(st.socks) /\ DOMAIN st.ss = 1 .. Len(st.ss)
  BY <1>1, StateTypes
<1>3. opt' = opt /\ reopened' \in Nat
  BY <1>0 DEF ListenerNext, listenerVars, udp_server_input_handler, socket_input_handler,
              send_data_from_ioa_socket_nbh, session_timeout, connreset
<1>4. StepKept(st')
  <2>1. ASSUME NEW c \in Client, NEW hello \in BOOLEAN, udp_server_input_handler(c, hello)
        PROVE  StepKept(st')
    BY <1>0, <2>1, PacketGood
  <2>2. ASSUME NEW s \in DOMAIN st.socks, socket_input_handler(s)  PROVE StepKept(st')
    BY <1>0, <2>2, SocketInputGood
  <2>3. ASSUME NEW s \in DOMAIN st.socks, send_data_from_ioa_socket_nbh(s)  PROVE StepKept(st')
    <3>1. opt.Failures /\ st' = [st EXCEPT !.socks[s].tobeclosed = TRUE] /\ opt' = opt
      BY <2>3 DEF send_data_from_ioa_socket_nbh
    <3>2. Good(st') /\ Len(st'.socks) = Len(st.socks)  BY <1>1, <1>2, <3>1, MarkGood
    <3> QED  BY <1>1, <3>1, <3>2 DEF StepKept
  <2>4. ASSUME NEW n \in DOMAIN st.ss, session_timeout(n)  PROVE StepKept(st')
    <3>1. n \in 1 .. Len(st.ss) /\ n \notin st.ended /\ st' = shutdown_client_connection(st, n) /\ opt' = opt
      BY <1>2, <2>4 DEF session_timeout
    <3>2. Good(st') /\ Len(st'.socks) = Len(st.socks) /\ (Calm(st, 0) => Calm(st', 0))
      BY <1>1, <3>1, ShutdownGood
    <3> QED  BY <1>1, <3>1, <3>2 DEF StepKept
  <2>5. ASSUME connreset  PROVE StepKept(st')
    <3>1. st.ev /\ st' \in reopen_server_socket(st) /\ opt' = opt  BY <2>5 DEF connreset
    <3>2. Good(st') /\ st'.socks = st.socks /\ (Calm(st, 0) => Calm(st', 0))  BY <1>1, <3>1, ReopenGood
    <3> QED  BY <1>1, <3>1, <3>2 DEF StepKept
  <2>6. CASE UNCHANGED listenerVars
    <3>1. st' = st /\ opt' = opt  BY <2>6 DEF listenerVars
    <3> QED  BY <1>0, <3>1 DEF StepKept
  <2> QED  BY <2>1, <2>2, <2>3, <2>4, <2>5, <2>6 DEF ListenerNext
<1>5. Good(st)' /\ (Len(st.socks) <= MaxSocket)' /\ (~opt.Failures => Calm(st, 0))'
  BY <1>3, <1>4 DEF StepKept
<1> QED  BY <1>0, <1>3, <1>5 DEF ListenerInv

(* ListenerInv holds of the listener as it starts.                            *)
LEMMA ListenerStart ==
  ASSUME ListenerAssumption, ListenerInit
  PROVE  ListenerInv
<1> DEFINE a == [f \in Fd |-> IF f = 1 THEN [kind |-> "listen", addr |-> <<>>] ELSE Free]
           ch == [c \in Client |-> 0]
<1>1. st = [fd |-> 1, ev |-> TRUE, fds |-> a, socks |-> <<>>, children |-> ch, ss |-> <<>>, ended |-> {}]
  BY DEF ListenerInit
<1>2. 1 \in Fd /\ MaxSocket \in Nat  BY DEF Fd, ListenerAssumption
<1>3. a \in [Fd -> FdEntry] /\ \A f \in Fd : (a[f].kind = "listen" <=> f = 1) /\ a[f].kind # "conn"
  BY DEF FdEntry, Free
<1>4. <<>> \in Seq(Socket) /\ <<>> \in Seq(Nat) /\ Len(<<>>) = 0  BY EmptySeq
<1>5. ch \in [Client -> Nat] /\ \A c \in Client : ch[c] = 0  OBVIOUS
<1> HIDE DEF a, ch
<1>6. /\ st \in State /\ st.fd = 1 /\ st.fds = a /\ st.socks = <<>> /\ st.children = ch /\ st.ss = <<>> /\ st.ended = {}
  BY <1>1, <1>2, <1>3, <1>4, <1>5 DEF State
<1>7. Len(st.socks) = 0 /\ Len(st.ss) = 0 /\ 1 .. 0 = {}  BY <1>4, <1>6
<1>8. \A s \in 1 .. Len(st.socks) : FALSE  BY <1>7
<1>9. \A n \in 1 .. Len(st.ss) : FALSE  BY <1>7
<1>10. Bounded(st)  BY <1>5, <1>6, <1>7, <1>8, <1>9 DEF Bounded
<1>11. Owned(st)  BY <1>2, <1>3, <1>6, <1>8 DEF Owned, NoFd
<1>12. Linked(st)  BY <1>8, <1>9 DEF Linked
<1>13. Mapped(st)  BY <1>5, <1>6, <1>8 DEF Mapped
<1>14. Calm(st, 0)  BY <1>8 DEF Calm
<1>15. Len(st.socks) <= MaxSocket /\ opt \in Options /\ reopened \in Nat  BY <1>2, <1>7 DEF ListenerInit
<1> QED  BY <1>6, <1>10, <1>11, <1>12, <1>13, <1>14, <1>15 DEF ListenerInv, Good

(* The invariant gives what the listener promises: one owner is a set of one  *)
(* owner, and the sockets and sessions are those made so far.                 *)
LEMMA InvIsSound ==
  ASSUME ListenerAssumption, ListenerInv
  PROVE  ListenerSound
<1>0. Good(st) /\ Len(st.socks) <= MaxSocket /\ (~opt.Failures => Calm(st, 0))  BY DEF ListenerInv
<1>1. st \in State /\ Bounded(st) /\ Owned(st) /\ Linked(st) /\ Mapped(st)  BY <1>0 DEF Good
<1>2. /\ Len(st.socks) \in Nat /\ Len(st.ss) \in Nat
      /\ DOMAIN st.socks = 1 .. Len(st.socks) /\ DOMAIN st.ss = 1 .. Len(st.ss)
      /\ \A s \in 1 .. Len(st.socks) : st.socks[s] \in Socket
      /\ \A n \in 1 .. Len(st.ss) : st.ss[n] \in Nat
      /\ \A c \in Client : st.children[c] \in Nat
      /\ \A f \in Fd : st.fds[f] \in FdEntry
  BY <1>1, StateTypes
<1>3. ListenerTypeOK
  <2>1. st.fd \in Fd \cup {NoFd} /\ st.ev \in BOOLEAN /\ st.children \in [Client -> Nat]  BY <1>1 DEF State
  <2>2. \A f \in Fd : st.fds[f].kind \in {"free", "listen", "conn"}  BY <1>2 DEF FdEntry
  <2>3. \A c \in Client : st.children[c] \in 0 .. Len(st.socks)  BY <1>1, <1>2 DEF Bounded
  <2>4. st.children \in [Client -> 0 .. Len(st.socks)]  BY <2>1, <2>3
  <2>5. \A n \in DOMAIN st.ss : st.ss[n] \in 0 .. Len(st.socks)  BY <1>1, <1>2 DEF Bounded
  <2>6. \A s \in DOMAIN st.socks : st.socks[s].session \in 0 .. Len(st.ss)
    BY <1>1, <1>2 DEF Bounded, Socket
  <2> QED  BY <1>0, <2>1, <2>2, <2>4, <2>5, <2>6 DEF ListenerTypeOK
<1>4. DescriptorsOwned
  <2> DEFINE own == {s \in Live(st) : ~st.socks[s].child /\ st.socks[s].fd # NoFd}
  <2>1. \A s : s \in own <=> s \in 1 .. Len(st.socks) /\ Owns(st, s)  BY <1>2 DEF Live, Owns
  <2> HIDE DEF own
  <2>2. \A s \in own : st.fds[st.socks[s].fd].kind = "conn"  BY <1>1, <2>1 DEF Owned
  <2>3. ASSUME NEW f \in Fd, st.fds[f].kind = "conn"
        PROVE  Cardinality({s \in own : st.socks[s].fd = f}) = 1
    <3>1. PICK s \in 1 .. Len(st.socks) : Owns(st, s) /\ st.socks[s].fd = f  BY <1>1, <2>3 DEF Owned
    <3>2. \A r \in own : st.socks[r].fd = f => r = s  BY <1>1, <2>1, <3>1 DEF Owned
    <3>3. {r \in own : st.socks[r].fd = f} = {s}  BY <2>1, <3>1, <3>2
    <3> QED  BY <3>3, FS_Singleton
  <2>4. \A f \in Fd : st.fds[f].kind = "listen" <=> f = st.fd  BY <1>1 DEF Owned
  <2>5. /\ \A f \in Fd : st.fds[f].kind = "listen" <=> f = st.fd
        /\ \A s \in own : st.fds[st.socks[s].fd].kind = "conn"
        /\ \A f \in Fd : st.fds[f].kind = "conn" => Cardinality({s \in own : st.socks[s].fd = f}) = 1
    BY <2>2, <2>3, <2>4
  <2> QED  BY <2>5 DEF DescriptorsOwned, own
<1>5. SessionSocketAlive
  <2>1. \A n \in DOMAIN st.ss \ st.ended : st.ss[n] # 0 => st.socks[st.ss[n]].live /\ st.socks[st.ss[n]].session = n
    BY <1>1, <1>2 DEF Linked
  <2>2. \A s \in Live(st) : st.socks[s].session # 0 =>
          st.socks[s].session \notin st.ended /\ st.ss[st.socks[s].session] = s
    BY <1>1, <1>2 DEF Linked, Live
  <2> QED  BY <2>1, <2>2 DEF SessionSocketAlive
<1>6. MapHoldsChildren  BY <1>1 DEF Mapped, MapHoldsChildren
<1>7. SessionReachable  BY <1>0, <1>2 DEF SessionReachable, Live, Calm
<1> QED  BY <1>3, <1>4, <1>5, <1>6, <1>7 DEF ListenerSound

(* For any clients, ways the server is run and bounds: each open descriptor   *)
(* belongs to the listener or to one live socket, a session and its client    *)
(* socket know each other and nobody else, the listener's map holds live      *)
(* children, and without failing calls a client's packets reach its session   *)
(* (handle_udp_packet, create_new_connected_udp_socket, detach_ioa_socket,    *)
(* attach_socket_to_session, close_ioa_socket, reopen_server_socket).         *)
THEOREM ListenerAlwaysSound ==
  ASSUME ListenerAssumption
  PROVE  ListenerSpec => []ListenerSound
<1>1. ListenerInit => ListenerInv  BY ListenerStart
<1>2. ListenerInv /\ [ListenerNext]_listenerVars => ListenerInv'  BY ListenerStep
<1>3. ListenerInv => ListenerSound  BY InvIsSound
<1> QED  BY <1>1, <1>2, <1>3, PTL DEF ListenerSpec

-----------------------------------------------------------------------------
(* The address map implements MapSpec.  What a list has for a key is the      *)
(* value in the first slot in use with that key, so nothing need be known of  *)
(* the free slots: putting a key writes one slot, deleting it frees them all. *)

Slot == [key : Nat, value : Values \cup {NoValue}]
AddrInv ==
  /\ lists \in [0 .. MapSize - 1 -> Seq(Slot)]
  /\ \A h \in 0 .. MapSize - 1 : Len(lists[h]) >= ArraySize
  /\ valid \in BOOLEAN /\ (~valid => lists = EmptyLists)

(* The slots in which a key is found, and what a list has for a key.          *)
Hits(l, k) == {i \in 1 .. Len(l) : Used(l[i]) /\ l[i].key = k}
ValueIn(l, k) == LET i == addr_list_get(l, k) IN IF i = 0 THEN NoValue ELSE l[i].value

(* The list in which ur_addr_map_put leaves a key.                            *)
Replaced(l, k, v) == [l EXCEPT ![addr_list_get(l, k)].value = v]
AfterPut(l, k, v) == IF addr_list_get(l, k) # 0 THEN Replaced(l, k, v) ELSE addr_list_add(l, k, v)

(* The least of a set of natural numbers.                                     *)
LEMMA LeastIs ==
  ASSUME NEW S \in SUBSET Nat, S # {}
  PROVE  Min(S) \in S /\ \A y \in S : Min(S) <= y
<1> DEFINE R == OpToRel(<, Nat)
<1>1. IsWellFoundedOn(R, Nat)
  BY NatLessThanWellFounded
<1>2. \A x, y \in Nat : y < x => <<y, x>> \in R
  BY DEF OpToRel
<1> HIDE DEF R
<1>3. PICK x \in S : \A y \in S : ~(<<y, x>> \in R)
  BY <1>1, WFMin
<1>4. \A y \in S : x <= y
  <2> TAKE y \in S
  <2>1. x \in Nat /\ y \in Nat
    OBVIOUS
  <2>2. ~(y < x)
    BY <1>2, <1>3, <2>1, Zenon
  <2> QED BY <2>1, <2>2
<1> QED BY <1>4 DEF Min

(* addr_list_get: the first slot in use with the key.                         *)
LEMMA ListGet ==
  ASSUME NEW l \in Seq(Slot), NEW k
  PROVE  /\ addr_list_get(l, k) = IF Hits(l, k) # {} THEN Min(Hits(l, k)) ELSE 0
         /\ Hits(l, k) # {} => /\ addr_list_get(l, k) \in Hits(l, k) /\ addr_list_get(l, k) # 0
                               /\ \A i \in Hits(l, k) : addr_list_get(l, k) <= i
         /\ Hits(l, k) = {} => addr_list_get(l, k) = 0
<1>1. addr_list_get(l, k) = IF Hits(l, k) # {} THEN Min(Hits(l, k)) ELSE 0
  BY DEF addr_list_get, SelectInSeq, Hits
<1>2. Hits(l, k) \in SUBSET Nat /\ 0 \notin Hits(l, k)
  BY LenProperties DEF Hits
<1> QED BY <1>1, <1>2, LeastIs

(* Two lists in which a key is found in the same slots, with the same value,  *)
(* have the same for it.                                                      *)
LEMMA SameValue ==
  ASSUME NEW l \in Seq(Slot), NEW m \in Seq(Slot), NEW k, Hits(l, k) = Hits(m, k),
         \A i \in Hits(l, k) : l[i].value = m[i].value
  PROVE  ValueIn(l, k) = ValueIn(m, k)
<1>1. addr_list_get(l, k) = addr_list_get(m, k)
  BY ListGet
<1> QED BY <1>1, ListGet DEF ValueIn

(* What a list has for a key that is in one slot.                             *)
LEMMA OneValue ==
  ASSUME NEW l \in Seq(Slot), NEW k, NEW i, Hits(l, k) = {i}
  PROVE  ValueIn(l, k) = l[i].value
BY ListGet DEF ValueIn

(* A slot of a list is written, or one is added, for a key that is not there. *)
LEMMA ListAdd ==
  ASSUME AddrMapAssumption, NEW l \in Seq(Slot), NEW k \in Keys, NEW v \in Values, Hits(l, k) = {}
  PROVE  LET m == addr_list_add(l, k, v)
         IN /\ m \in Seq(Slot) /\ ValueIn(m, k) = v
            /\ \A q : q # k => ValueIn(m, q) = ValueIn(l, q)
            /\ Len(m) >= Len(l) /\ (Len(m) > Len(l) => \A i \in DOMAIN l : Used(l[i]))
<1> DEFINE S == {i \in 1 .. Len(l) : ~Used(l[i])}
           f == SelectInSeq(l, LAMBDA e : ~Used(e))
           elem == [key |-> k, value |-> v]
           m == addr_list_add(l, k, v)
           n == IF f = 0 THEN Len(l) + 1 ELSE f
<1>1. elem \in Slot /\ Used(elem) /\ elem.key = k /\ elem.value = v
  BY DEF AddrMapAssumption, Slot, Used
<1>2. Len(l) \in Nat /\ DOMAIN l = 1 .. Len(l) /\ S \in SUBSET Nat /\ 0 \notin S
  BY LenProperties
<1>3. f = IF S # {} THEN Min(S) ELSE 0
  BY DEF SelectInSeq
<1>4. (f = 0 => S = {}) /\ (f # 0 => f \in S)
  <2> HIDE DEF S, f
  <2> QED BY <1>2, <1>3, LeastIs
<1>5. m = IF f = 0 THEN Append(l, elem) ELSE [l EXCEPT ![f] = elem]
  BY DEF addr_list_add
<1> HIDE DEF elem, m, f
<1>6. /\ m \in Seq(Slot) /\ n \in 1 .. Len(m) /\ m[n] = elem
      /\ \A i \in 1 .. Len(m) : i # n => i \in 1 .. Len(l) /\ m[i] = l[i]
      /\ \A i \in 1 .. Len(l) : i # n => i \in 1 .. Len(m)
      /\ n \notin 1 .. Len(l) \/ ~Used(l[n])
      /\ Len(m) >= Len(l) /\ (Len(m) > Len(l) => S = {})
  <2>1. CASE f = 0
    BY <1>1, <1>2, <1>4, <1>5, <2>1, AppendProperties, LenProperties
  <2>2. CASE f # 0
    <3>1. f \in 1 .. Len(l) /\ ~Used(l[f])
      BY <1>4, <2>2
    <3>2. m = [l EXCEPT ![f] = elem]
      BY <1>5, <2>2
    <3>3. m \in Seq(Slot) /\ Len(m) = Len(l) /\ m[f] = elem /\ \A i \in 1 .. Len(l) : i # f => m[i] = l[i]
      BY <1>1, <1>2, <3>1, <3>2, ExceptSeq, LenProperties
    <3> QED BY <1>2, <2>2, <3>1, <3>3
  <2> QED BY <2>1, <2>2
<1> HIDE DEF n
<1>7. Hits(m, k) = {n}
  BY <1>1, <1>6 DEF Hits
<1>8. ASSUME NEW q, q # k PROVE Hits(m, q) = Hits(l, q) /\ n \notin Hits(l, q)
  BY <1>1, <1>6, <1>8 DEF Hits
<1>9. ASSUME NEW q, q # k PROVE ValueIn(m, q) = ValueIn(l, q)
  <2>1. \A i \in Hits(l, q) : m[i] = l[i]
    BY <1>6, <1>8, <1>9 DEF Hits
  <2> QED BY <1>6, <1>8, <1>9, <2>1, SameValue
<1>10. ValueIn(m, k) = v
  BY <1>1, <1>6, <1>7, OneValue
<1> QED BY <1>2, <1>6, <1>9, <1>10 DEF m

(* The value of a key that is there is replaced.                              *)
LEMMA ListReplace ==
  ASSUME AddrMapAssumption, NEW l \in Seq(Slot), NEW k \in Keys, NEW v \in Values, Hits(l, k) # {}
  PROVE  LET m == Replaced(l, k, v)
         IN /\ m \in Seq(Slot) /\ ValueIn(m, k) = v /\ Len(m) = Len(l)
            /\ \A q : q # k => ValueIn(m, q) = ValueIn(l, q)
<1> DEFINE n == addr_list_get(l, k)
           m == Replaced(l, k, v)
<1>1. n \in Hits(l, k) /\ \A i \in Hits(l, k) : n <= i
  BY ListGet
<1>2. Len(l) \in Nat /\ DOMAIN l = 1 .. Len(l) /\ n \in 1 .. Len(l) /\ l[n].key = k
  BY <1>1, LenProperties DEF Hits
<1>3. PICK s \in Slot : s = l[n]
  BY <1>2, ElementOfSeq
<1> DEFINE o == [s EXCEPT !.value = v]
<1>4. o \in Slot /\ o.key = k /\ o.value = v /\ Used(o)
  BY <1>2, <1>3 DEF Slot, Used, AddrMapAssumption
<1> HIDE DEF n
<1>5. m = [l EXCEPT ![n] = o]
  BY <1>3 DEF Replaced, n
<1> HIDE DEF m, o
<1>6. m \in Seq(Slot) /\ Len(m) = Len(l) /\ m[n] = o /\ \A i \in 1 .. Len(l) : i # n => m[i] = l[i]
  BY <1>2, <1>4, <1>5, ExceptSeq, LenProperties
<1>7. Hits(m, k) = Hits(l, k)
  BY <1>1, <1>4, <1>6 DEF Hits
<1>8. addr_list_get(m, k) = n /\ n # 0
  BY <1>1, <1>2, <1>6, <1>7, ListGet DEF n
<1>9. ValueIn(m, k) = v
  BY <1>4, <1>6, <1>8 DEF ValueIn
<1>10. ASSUME NEW q, q # k PROVE ValueIn(m, q) = ValueIn(l, q)
  <2>1. Hits(m, q) = Hits(l, q) /\ n \notin Hits(l, q)
    BY <1>2, <1>4, <1>6, <1>10 DEF Hits
  <2>2. \A i \in Hits(l, q) : m[i] = l[i]
    BY <1>6, <2>1 DEF Hits
  <2> QED BY <1>6, <2>1, <2>2, SameValue
<1> QED BY <1>6, <1>9, <1>10 DEF m, n

(* addr_list_remove: the key is not found any more, and every other is.       *)
LEMMA ListRemove ==
  ASSUME AddrMapAssumption, NEW l \in Seq(Slot), NEW k
  PROVE  LET m == addr_list_remove(l, k)
         IN /\ m \in Seq(Slot) /\ ValueIn(m, k) = NoValue /\ Len(m) = Len(l)
            /\ \A q : q # k => ValueIn(m, q) = ValueIn(l, q)
<1> DEFINE m == addr_list_remove(l, k)
<1>1. Len(l) \in Nat /\ DOMAIN l = 1 .. Len(l) /\ \A i \in 1 .. Len(l) : l[i] \in Slot
  BY LenProperties, ElementOfSeq
<1>2. DOMAIN m = 1 .. Len(l)
  BY <1>1 DEF addr_list_remove
<1>3. ASSUME NEW i \in 1 .. Len(l)
      PROVE  m[i] \in Slot /\ m[i] = IF i \in Hits(l, k) THEN [l[i] EXCEPT !.value = NoValue] ELSE l[i]
  <2>1. PICK s \in Slot : s = l[i]
    BY <1>1
  <2>2. m[i] = IF i \in Hits(l, k) THEN [s EXCEPT !.value = NoValue] ELSE s
    BY <1>1, <2>1 DEF addr_list_remove, Hits
  <2> QED BY <2>1, <2>2 DEF Slot
<1>4. m = [i \in 1 .. Len(l) |-> m[i]]
  BY <1>1 DEF addr_list_remove
<1> HIDE DEF m
<1>5. m \in Seq(Slot) /\ Len(m) = Len(l)
  <2>1. m \in Seq(Slot)
    BY <1>1, <1>3, <1>4, IsASeq
  <2> QED BY <1>1, <1>2, <2>1, LenProperties
<1>6. ASSUME NEW i \in Hits(l, k) PROVE ~Used(m[i])
  <2>1. PICK s \in Slot : s = l[i] /\ m[i] = [s EXCEPT !.value = NoValue]
    BY <1>1, <1>3 DEF Hits
  <2> QED BY <2>1 DEF Slot, Used
<1>7. Hits(m, k) = {}
  <2>1. \A i \in 1 .. Len(l) : i \notin Hits(l, k) => m[i] = l[i]
    BY <1>3
  <2> QED BY <1>5, <1>6, <2>1 DEF Hits
<1>8. ASSUME NEW q, q # k PROVE ValueIn(m, q) = ValueIn(l, q)
  <2>1. \A i \in 1 .. Len(l) : i \notin Hits(l, k) => m[i] = l[i]
    BY <1>3
  <2>2. \A i \in Hits(l, k) : i \notin Hits(l, q) /\ i \notin Hits(m, q)
    BY <1>6, <1>8 DEF Hits
  <2>3. Hits(m, q) = Hits(l, q)
    BY <1>5, <2>1, <2>2 DEF Hits
  <2>4. \A i \in Hits(l, q) : m[i] = l[i]
    BY <2>1, <2>2 DEF Hits
  <2> QED BY <1>5, <2>3, <2>4, SameValue
<1> QED BY <1>5, <1>7, <1>8, ListGet DEF m, ValueIn

(* Every key has a list.                                                      *)
LEMMA IndexIn == ASSUME AddrMapAssumption, NEW k \in Keys PROVE addr_map_index(k) \in 0 .. MapSize - 1
<1>1. k \in Nat /\ MapSize \in Nat /\ MapSize > 0
  BY DEF AddrMapAssumption
<1> QED BY <1>1 DEF addr_map_index

(* What a reader sees is what the lists have.                                 *)
LEMMA SeenIs == \A k \in Keys : Seen[k] = ValueIn(lists[addr_map_index(k)], k)
BY DEF Seen, ur_addr_map_get, ValueIn

(* The list of a key after ur_addr_map_put.                                   *)
LEMMA ListPut ==
  ASSUME AddrMapAssumption, NEW l \in Seq(Slot), NEW k \in Keys, NEW v \in Values
  PROVE  LET m == AfterPut(l, k, v)
         IN /\ m \in Seq(Slot) /\ ValueIn(m, k) = v
            /\ \A q : q # k => ValueIn(m, q) = ValueIn(l, q)
            /\ Len(m) >= Len(l) /\ (Len(m) > Len(l) => \A i \in DOMAIN l : Used(l[i]))
<1>1. Len(l) \in Nat
  BY LenProperties
<1>2. CASE addr_list_get(l, k) = 0
  <2>1. Hits(l, k) = {} /\ AfterPut(l, k, v) = addr_list_add(l, k, v)
    BY <1>2, ListGet DEF AfterPut
  <2> QED BY <2>1, ListAdd
<1>3. CASE addr_list_get(l, k) # 0
  <2>1. Hits(l, k) # {} /\ AfterPut(l, k, v) = Replaced(l, k, v)
    BY <1>3, ListGet DEF AfterPut
  <2> QED BY <1>1, <2>1, ListReplace
<1> QED BY <1>2, <1>3

(* Lists in which no slot is in use have nothing.                             *)
LEMMA EmptyHasNothing ==
  ASSUME AddrMapAssumption
  PROVE  /\ EmptyLists \in [0 .. MapSize - 1 -> Seq(Slot)]
         /\ \A h \in 0 .. MapSize - 1 : Len(EmptyLists[h]) = ArraySize
         /\ \A k \in Keys : ValueIn(EmptyLists[addr_map_index(k)], k) = NoValue
<1> DEFINE l == [i \in 1 .. ArraySize |-> Zero]
<1>1. ArraySize \in Nat /\ Zero \in Slot /\ ~Used(Zero)
  BY DEF AddrMapAssumption, Zero, Slot, Used
<1>2. l \in Seq(Slot) /\ Len(l) = ArraySize
  <2>1. l \in Seq(Slot)
    BY <1>1, IsASeq
  <2> QED BY <1>1, <2>1, LenProperties
<1>3. \A k : Hits(l, k) = {}
  BY <1>1, <1>2 DEF Hits
<1>4. \A h \in 0 .. MapSize - 1 : EmptyLists[h] = l
  BY DEF EmptyLists
<1>5. EmptyLists \in [0 .. MapSize - 1 -> Seq(Slot)]
  BY <1>2 DEF EmptyLists
<1> HIDE DEF l
<1>6. \A k \in Keys : ValueIn(l, k) = NoValue
  BY <1>2, <1>3, ListGet DEF ValueIn
<1> QED BY <1>2, <1>4, <1>5, <1>6, IndexIn

(* An empty map is seen as one.                                               *)
LEMMA EmptyIsSeen == ASSUME AddrMapAssumption, lists = EmptyLists PROVE Seen = Abstract!Nothing
BY EmptyHasNothing, SeenIs DEF Seen, Abstract!Nothing

(* One list is changed, for one key: so is the map that is seen.              *)
LEMMA OneChanged ==
  ASSUME AddrMapAssumption, lists \in [0 .. MapSize - 1 -> Seq(Slot)], NEW k \in Keys, NEW m \in Seq(Slot), NEW v,
         lists' = [lists EXCEPT ![addr_map_index(k)] = m], ValueIn(m, k) = v,
         \A q : q # k => ValueIn(m, q) = ValueIn(lists[addr_map_index(k)], q)
  PROVE  Seen' = [Seen EXCEPT ![k] = v] /\ lists' \in [0 .. MapSize - 1 -> Seq(Slot)]
<1>1. \A q \in Keys : addr_map_index(q) \in 0 .. MapSize - 1
  BY IndexIn
<1>2. \A q \in Keys : Seen'[q] = ValueIn(lists'[addr_map_index(q)], q)
  BY DEF Seen, ur_addr_map_get, ValueIn
<1>3. \A q \in Keys : ValueIn(lists'[addr_map_index(q)], q) = IF q = k THEN v ELSE ValueIn(lists[addr_map_index(q)], q)
  BY <1>1
<1>4. \A q \in Keys : Seen'[q] = IF q = k THEN v ELSE Seen[q]
  BY <1>2, <1>3, SeenIs
<1>5. Seen = [q \in Keys |-> Seen[q]] /\ Seen' = [q \in Keys |-> Seen'[q]]
  BY DEF Seen
<1>6. Seen' = [Seen EXCEPT ![k] = v]
  BY <1>4, <1>5
<1> QED BY <1>6

(* Every step is one of the abstract map's.                                   *)
LEMMA AddrMapStep ==
  ASSUME AddrMapAssumption, AddrInv, AddrNext
  PROVE  AddrInv' /\ Abstract!MapNext /\ GrowsWhenFull
<1>1. /\ lists \in [0 .. MapSize - 1 -> Seq(Slot)] /\ DOMAIN lists = 0 .. MapSize - 1
      /\ \A h \in 0 .. MapSize - 1 : Len(lists[h]) >= ArraySize /\ Len(lists[h]) \in Nat /\ ArraySize \in Nat
      /\ valid \in BOOLEAN /\ (~valid => lists = EmptyLists)
  BY LenProperties DEF AddrInv, AddrMapAssumption
<1>2. ASSUME UNCHANGED <<lists, valid>> PROVE AddrInv' /\ Seen' = Seen /\ GrowsWhenFull
  BY <1>1, <1>2 DEF AddrInv, Seen, GrowsWhenFull, EmptyLists
<1>3. CASE Refuse
  <2>1. Seen = Abstract!Nothing
    BY <1>1, <1>3, EmptyIsSeen DEF Refuse
  <2> QED BY <1>2, <1>3, <2>1 DEF Refuse, Abstract!MapNext, Abstract!Refused
<1>4. CASE ur_addr_map_clean
  <2>1. lists' = EmptyLists /\ ~valid' /\ valid' \in BOOLEAN /\ res' = [op |-> "clean", value |-> NoValue]
    BY <1>4 DEF ur_addr_map_clean
  <2>2. \A k \in Keys : Seen'[k] = NoValue
    BY <2>1, EmptyHasNothing DEF Seen, ur_addr_map_get, ValueIn
  <2>3. Seen' = Abstract!Nothing
    BY <2>2 DEF Seen, Abstract!Nothing
  <2>4. AddrInv' /\ GrowsWhenFull
    BY <1>1, <2>1, EmptyHasNothing DEF AddrInv, GrowsWhenFull
  <2> QED BY <2>1, <2>3, <2>4 DEF Abstract!MapNext, Abstract!Clean
<1>5. ASSUME NEW k \in Keys, Get(k) PROVE AddrInv' /\ Abstract!MapNext /\ GrowsWhenFull
  <2>1. Abstract!Get(k)
    BY <1>2, <1>5 DEF Get, Abstract!Get, Seen
  <2> QED BY <1>2, <1>5, <2>1 DEF Get, Abstract!MapNext
<1>6. ASSUME NEW k \in Keys, NEW m \in Seq(Slot), NEW v, valid, valid' = valid,
             lists' = [lists EXCEPT ![addr_map_index(k)] = m], ValueIn(m, k) = v,
             \A q : q # k => ValueIn(m, q) = ValueIn(lists[addr_map_index(k)], q),
             Len(m) \in Nat, Len(m) >= Len(lists[addr_map_index(k)]),
             Len(m) > Len(lists[addr_map_index(k)]) =>
               \A i \in DOMAIN lists[addr_map_index(k)] : Used(lists[addr_map_index(k)][i])
      PROVE  AddrInv' /\ Seen' = [Seen EXCEPT ![k] = v] /\ GrowsWhenFull
  <2>1. Seen' = [Seen EXCEPT ![k] = v] /\ lists' \in [0 .. MapSize - 1 -> Seq(Slot)]
    BY <1>1, <1>6, OneChanged
  <2>2. \A h \in 0 .. MapSize - 1 : Len(lists'[h]) >= ArraySize
    BY <1>1, <1>6
  <2>4. AddrInv'
    BY <1>1, <1>6, <2>1, <2>2 DEF AddrInv
  <2>3. GrowsWhenFull
    <3> SUFFICES ASSUME NEW h \in DOMAIN lists, Len(lists'[h]) > Len(lists[h]) PROVE \A i \in DOMAIN lists[h] : Used(lists[h][i])
      BY DEF GrowsWhenFull
    <3>1. CASE h = addr_map_index(k)
      BY <1>1, <1>6, <3>1
    <3>2. CASE h # addr_map_index(k)
      <4>1. lists'[h] = lists[h] /\ Len(lists[h]) \in Nat
        BY <1>1, <1>6, <3>2, LenProperties
      <4> QED BY <4>1
    <3> QED BY <3>1, <3>2
  <2> QED BY <2>1, <2>3, <2>4
<1>7. ASSUME NEW k \in Keys, Del(k) PROVE AddrInv' /\ Abstract!MapNext /\ GrowsWhenFull
  <2> DEFINE l == lists[addr_map_index(k)]
             m == addr_list_remove(l, k)
  <2>1. l \in Seq(Slot) /\ Len(l) \in Nat
    BY <1>1, IndexIn, LenProperties
  <2>2. m \in Seq(Slot) /\ ValueIn(m, k) = NoValue /\ Len(m) = Len(l) /\ \A q : q # k => ValueIn(m, q) = ValueIn(l, q)
    BY <2>1, ListRemove
  <2>3. valid /\ valid' = valid /\ lists' = [lists EXCEPT ![addr_map_index(k)] = m] /\ res' = [op |-> "del", value |-> Seen[k]]
    BY <1>7 DEF Del, ur_addr_map_del, Seen
  <2> HIDE DEF m
  <2>5. Len(m) \in Nat /\ Len(m) >= Len(l) /\ ~(Len(m) > Len(l))
    BY <2>1, <2>2
  <2>4. AddrInv' /\ Seen' = [Seen EXCEPT ![k] = NoValue] /\ GrowsWhenFull
    BY <1>6, <2>2, <2>3, <2>5
  <2> QED BY <2>3, <2>4 DEF Abstract!MapNext, Abstract!Del
<1>8. ASSUME NEW k \in Keys, NEW v \in Values, Put(k, v) PROVE AddrInv' /\ Abstract!MapNext /\ GrowsWhenFull
  <2> DEFINE l == lists[addr_map_index(k)]
             m == AfterPut(l, k, v)
  <2>1. l \in Seq(Slot)
    BY <1>1, IndexIn
  <2>2. /\ m \in Seq(Slot) /\ ValueIn(m, k) = v /\ \A q : q # k => ValueIn(m, q) = ValueIn(l, q)
        /\ Len(m) >= Len(l) /\ (Len(m) > Len(l) => \A i \in DOMAIN l : Used(l[i]))
    BY <2>1, ListPut
  <2>3. valid /\ valid' = valid /\ lists' = [lists EXCEPT ![addr_map_index(k)] = m] /\ res' = [op |-> "put", value |-> v]
    BY <1>8 DEF Put, ur_addr_map_put, AfterPut, Replaced
  <2> HIDE DEF m
  <2>4. Len(m) \in Nat
    BY <2>2, LenProperties
  <2>5. AddrInv' /\ Seen' = [Seen EXCEPT ![k] = v] /\ GrowsWhenFull
    BY <1>6, <2>2, <2>3, <2>4
  <2> QED BY <2>3, <2>5 DEF Abstract!MapNext, Abstract!Put
<1> QED BY <1>3, <1>4, <1>5, <1>7, <1>8 DEF AddrNext

(* For any addresses, any number of lists and of slots in a list: the address *)
(* map answers like a function from addresses to values (ur_addr_map_put, get *)
(* and del of ns_turn_maps.c), whatever keys the free slots still hold, and a *)
(* list gets another slot only when none of it is free.                       *)
THEOREM AddrMapIsMap ==
  ASSUME AddrMapAssumption
  PROVE  AddrSpec => AddrImplementsMap /\ [][GrowsWhenFull]_addrVars
<1>1. ur_addr_map_init => AddrInv /\ Abstract!MapInit
  <2> SUFFICES ASSUME ur_addr_map_init PROVE AddrInv /\ Abstract!MapInit
    OBVIOUS
  <2>1. lists = EmptyLists /\ valid = TRUE /\ res = [op |-> "init", value |-> NoValue] /\ ArraySize \in Nat
    BY DEF ur_addr_map_init, AddrMapAssumption
  <2> QED BY <2>1, EmptyHasNothing, EmptyIsSeen DEF AddrInv, Abstract!MapInit
<1>2. AddrInv /\ [AddrNext]_addrVars => AddrInv' /\ [Abstract!MapNext]_(Abstract!mapVars) /\ [GrowsWhenFull]_addrVars
  <2> SUFFICES ASSUME AddrInv, [AddrNext]_addrVars
               PROVE  AddrInv' /\ [Abstract!MapNext]_(Abstract!mapVars) /\ [GrowsWhenFull]_addrVars
    OBVIOUS
  <2>1. CASE AddrNext
    BY <2>1, AddrMapStep
  <2>2. CASE UNCHANGED addrVars
    BY <2>2 DEF addrVars, AddrInv, EmptyLists, Abstract!mapVars, Seen, ur_addr_map_get
  <2> QED BY <2>1, <2>2
<1> QED BY <1>1, <1>2, PTL DEF AddrSpec, AddrImplementsMap, Abstract!MapSpecification

-----------------------------------------------------------------------------
(* The connections of StunStream.                                             *)

(* A table says where each of the first k messages of s starts, from p on.    *)
Tabulates(f, s, p, k) == f = [n \in 1 .. k |-> IF n = 1 THEN p ELSE f[n - 1] + Size(s[n - 1])]

(* There is such a table of every length.                                     *)
LEMMA TableExists ==
  ASSUME NEW s, NEW p, NEW k \in Nat
  PROVE  \E f : Tabulates(f, s, p, k)
<1> DEFINE Bad == {n \in Nat : ~ \E f : Tabulates(f, s, p, n)}
<1> SUFFICES ASSUME Bad # {} PROVE FALSE
  OBVIOUS
<1> DEFINE b == Min(Bad)
<1>1. b \in Bad /\ \A y \in Bad : b <= y
  BY LeastIs
<1> HIDE DEF b
<1>2. CASE b = 0
  <2> DEFINE e == [n \in 1 .. 0 |-> p]
  <2>1. Tabulates(e, s, p, 0)
    BY DEF Tabulates
  <2> QED BY <1>1, <1>2, <2>1
<1>3. CASE b # 0
  <2>1. b - 1 \in Nat /\ b - 1 \notin Bad /\ b \in Nat
    BY <1>1, <1>3
  <2>2. PICK f : Tabulates(f, s, p, b - 1)
    BY <2>1
  <2> DEFINE g == [n \in 1 .. b |-> IF n = 1 THEN p ELSE f[n - 1] + Size(s[n - 1])]
  <2>3. \A n \in 1 .. b - 1 : f[n] = g[n]
    BY <2>1, <2>2 DEF Tabulates
  <2>4. \A n \in 1 .. b : n # 1 => n - 1 \in 1 .. b - 1
    BY <2>1
  <2>5. g = [n \in 1 .. b |-> IF n = 1 THEN p ELSE g[n - 1] + Size(s[n - 1])]
    BY <2>3, <2>4
  <2>6. Tabulates(g, s, p, b)
    BY <2>5 DEF Tabulates
  <2> QED BY <1>1, <2>6
<1> QED BY <1>2, <1>3

(* Starts is the table of all messages.                                       *)
LEMMA StartsTable ==
  ASSUME MaxMessage \in Nat, NEW s, NEW p
  PROVE  /\ Starts(s, p)[1] = p
         /\ \A n \in 1 .. MaxMessage : Starts(s, p)[n + 1] = Starts(s, p)[n] + Size(s[n])
<1>1. Tabulates(Starts(s, p), s, p, MaxMessage + 1)
  <2>1. \E f : Tabulates(f, s, p, MaxMessage + 1)
    BY TableExists
  <2>2. Starts(s, p) = CHOOSE f : Tabulates(f, s, p, MaxMessage + 1)
    BY DEF Starts, Tabulates
  <2> QED BY <2>1, <2>2
<1> QED BY <1>1 DEF Tabulates

(* The sizes of a client's messages are numbers other than 0.                 *)
Sized(s) == \A n \in 1 .. Len(s) : Size(s[n]) \in Nat /\ Size(s[n]) > 0

(* Messages start one behind the other.                                       *)
LEMMA StartsGrow ==
  ASSUME MaxMessage \in Nat, NEW s, Len(s) \in 0 .. MaxMessage, Sized(s), NEW p \in Nat
  PROVE  \A n \in 1 .. Len(s) + 1 : /\ Starts(s, p)[n] \in Nat
                                    /\ \A i \in 1 .. n - 1 : Starts(s, p)[i] < Starts(s, p)[n]
<1> DEFINE f == Starts(s, p)
           Fine(n) == f[n] \in Nat /\ \A i \in 1 .. n - 1 : f[i] < f[n]
           Bad == {n \in 1 .. Len(s) + 1 : ~Fine(n)}
<1>1. f[1] = p /\ \A n \in 1 .. MaxMessage : f[n + 1] = f[n] + Size(s[n])
  BY StartsTable
<1> HIDE DEF f
<1> SUFFICES ASSUME Bad # {} PROVE FALSE
  BY DEF f
<1>5. Bad \in SUBSET Nat
  OBVIOUS
<1>2. PICK b \in Bad : \A y \in Bad : b <= y
  <2> HIDE DEF Bad
  <2> QED BY <1>5, LeastIs
<1>3. CASE b = 1
  BY <1>1, <1>2, <1>3
<1>4. CASE b # 1
  <2> DEFINE c == b - 1
  <2>1. c \in 1 .. Len(s) /\ c \in 1 .. MaxMessage /\ c + 1 = b /\ b \in Nat /\ c \notin Bad
    BY <1>2, <1>4
  <2>2. f[c] \in Nat /\ \A i \in 1 .. c - 1 : f[i] < f[c]
    BY <2>1
  <2>3. f[b] = f[c] + Size(s[c]) /\ Size(s[c]) \in Nat /\ Size(s[c]) > 0
    BY <1>1, <2>1 DEF Sized
  <2>4. f[b] \in Nat /\ f[c] < f[b]
    BY <2>2, <2>3
  <2>5. \A i \in 1 .. b - 1 : f[i] < f[b]
    <3> TAKE i \in 1 .. b - 1
    <3>1. CASE i = c
      BY <2>4, <3>1
    <3>2. CASE i # c
      <4>1. i \in 1 .. c - 1
        BY <2>1, <3>2
      <4>2. f[i] \in Nat
        <5>1. i \in 1 .. Len(s) + 1 /\ i < b
          BY <2>1, <4>1
        <5> QED BY <1>2, <5>1
      <4> QED BY <2>2, <2>4, <4>1, <4>2
    <3> QED BY <3>1, <3>2
  <2> QED BY <1>2, <2>4, <2>5
<1> QED BY <1>3, <1>4

(* Where messages start does not depend on what follows them.                 *)
LEMMA StartsPrefix ==
  ASSUME MaxMessage \in Nat, NEW s, NEW t, NEW p, Len(s) \in 0 .. MaxMessage,
         \A n \in 1 .. Len(s) : s[n] = t[n]
  PROVE  \A n \in 1 .. Len(s) + 1 : Starts(s, p)[n] = Starts(t, p)[n]
<1> DEFINE f == Starts(s, p)
           g == Starts(t, p)
           Bad == {n \in 1 .. Len(s) + 1 : f[n] # g[n]}
<1>1. f[1] = p /\ \A n \in 1 .. MaxMessage : f[n + 1] = f[n] + Size(s[n])
  BY StartsTable
<1>2. g[1] = p /\ \A n \in 1 .. MaxMessage : g[n + 1] = g[n] + Size(t[n])
  BY StartsTable
<1> HIDE DEF f, g
<1> SUFFICES ASSUME Bad # {} PROVE FALSE
  BY DEF f, g
<1>6. Bad \in SUBSET Nat
  OBVIOUS
<1>3. PICK b \in Bad : \A y \in Bad : b <= y
  <2> HIDE DEF Bad
  <2> QED BY <1>6, LeastIs
<1>4. CASE b = 1
  BY <1>1, <1>2, <1>3, <1>4
<1>5. CASE b # 1
  <2> DEFINE c == b - 1
  <2>1. c \in 1 .. Len(s) /\ c \in 1 .. MaxMessage /\ c + 1 = b /\ b \in Nat /\ c \notin Bad
    BY <1>3, <1>5
  <2>2. f[c] = g[c] /\ s[c] = t[c]
    BY <2>1
  <2>3. f[c + 1] = g[c + 1]
    BY <1>1, <1>2, <2>1, <2>2
  <2> QED BY <1>3, <2>1, <2>3
<1> QED BY <1>4, <1>5

-----------------------------------------------------------------------------
Kind == {"stun", "channel", "http"}
Fits(m) == Size(m) <= BufferSize /\ Size(m) < Wrap /\ (m.kind = "http" => Size(m) <= HttpAsChannel)

(* A number below the width is not changed by it.                             *)
LEMMA ModSmall ==
  ASSUME NEW x \in Nat, NEW w \in Nat, x < w
  PROVE  x % w = x
OBVIOUS

(* Padding adds less than four, and commutes with the header.                 *)
LEMMA PaddedIs ==
  ASSUME NEW d \in Nat
  PROVE  Padded(d) \in Nat /\ d <= Padded(d) /\ Padded(4 + d) = 4 + Padded(d)
BY DEF Padded

(* A message takes at least four bytes.                                       *)
LEMMA SizeIs ==
  ASSUME NEW m, m.kind \in Kind, m.data \in Nat
  PROVE  Size(m) \in Nat /\ Size(m) >= 4 /\ AppSize(m) \in Nat
<1>1. CASE m.kind = "stun"
  BY <1>1 DEF Size, AppSize
<1>2. CASE m.kind = "channel"
  BY <1>2, PaddedIs DEF Size, AppSize, stun_init_channel_message_str
<1>3. CASE m.kind = "http"
  BY <1>3 DEF Size, AppSize
<1> QED BY <1>1, <1>2, <1>3 DEF Kind

(* The header of a message that is all there gives its size; that of another  *)
(* gives none.                                                                *)
Nothing == [len |-> -1, app |-> 0]

(* The head of the buffer where no message starts.                            *)
LEMMA ParsedNowhere ==
  ASSUME NEW at, NEW blen, {n \in DOMAIN sent : Start[n] = at} = {}
  PROVE  stun_get_message_len_str(at, blen) = Nothing
BY DEF stun_get_message_len_str, Nothing

(* The head of the buffer where message k starts.                             *)
LEMMA ParsedMessage ==
  ASSUME StreamAssumption, NEW at, NEW blen \in Nat, NEW k, {n \in DOMAIN sent : Start[n] = at} = {k},
         sent[k].kind \in Kind, sent[k].data \in Nat, Fits(sent[k])
  PROVE  stun_get_message_len_str(at, blen) =
           IF Size(sent[k]) <= blen THEN [len |-> Size(sent[k]), app |-> AppSize(sent[k])] ELSE Nothing
<1> DEFINE here == {n \in DOMAIN sent : Start[n] = at}
           m == sent[CHOOSE n \in here : TRUE]
           stun == (20 + m.data) % Wrap
           app == (4 + m.data) % Wrap
<1>1. here = {k} /\ here # {} /\ (CHOOSE n \in here : TRUE) = k
  OBVIOUS
<1>2. m = sent[k]
  BY <1>1
<1>3. Wrap \in Nat /\ HttpAsChannel \in Nat /\ m.data \in Nat
  BY <1>2 DEF StreamAssumption
<1>4. stun_get_message_len_str(at, blen) =
        CASE m.kind = "stun" -> IF blen >= 20 /\ stun <= blen THEN [len |-> stun, app |-> stun] ELSE [len |-> -1, app |-> 0]
          [] m.kind = "http" ->
               IF blen >= Size(m) THEN [len |-> Size(m), app |-> Size(m)]
               ELSE IF blen >= HttpAsChannel THEN [len |-> HttpAsChannel, app |-> HttpAsChannel]
               ELSE [len |-> -1, app |-> 0]
          [] m.kind = "channel" ->
               IF blen >= 4 /\ Padded(app) % Wrap <= blen THEN [len |-> Padded(app) % Wrap, app |-> app]
               ELSE [len |-> -1, app |-> 0]
  <2> HIDE DEF stun, app
  <2>1. m.kind \in Kind
    BY <1>2
  <2> QED BY <1>1, <2>1 DEF stun_get_message_len_str, Kind, stun, app
<1> HIDE DEF m
<1>5. CASE m.kind = "stun"
  <2>1. Size(m) = 20 + m.data /\ AppSize(m) = Size(m) /\ Size(m) < Wrap
    BY <1>2, <1>5 DEF Size, AppSize, Fits
  <2>2. stun = Size(m)
    BY <1>3, <2>1, ModSmall
  <2> HIDE DEF stun
  <2> QED BY <1>2, <1>3, <1>4, <1>5, <2>1, <2>2 DEF Nothing
<1>6. CASE m.kind = "http"
  <2>1. Size(m) = 12 + m.data /\ AppSize(m) = Size(m) /\ Size(m) <= HttpAsChannel
    BY <1>2, <1>6 DEF Size, AppSize, Fits
  <2> HIDE DEF stun, app
  <2> QED BY <1>2, <1>3, <1>4, <1>6, <2>1 DEF Nothing
<1>7. CASE m.kind = "channel"
  <2>1. Size(m) = 4 + Padded(m.data) /\ AppSize(m) = 4 + m.data /\ Size(m) < Wrap
    BY <1>2, <1>7 DEF Size, AppSize, Fits, stun_init_channel_message_str
  <2>2. Padded(m.data) \in Nat /\ m.data <= Padded(m.data) /\ Padded(4 + m.data) = 4 + Padded(m.data)
    BY <1>3, PaddedIs
  <2>3. app = 4 + m.data
    BY <1>3, <2>1, <2>2, ModSmall
  <2>4. Padded(app) = Size(m)
    BY <2>1, <2>2, <2>3
  <2>5. Padded(app) % Wrap = Size(m) /\ Size(m) \in Nat /\ Size(m) >= 4
    BY <1>3, <2>1, <2>2, <2>4, ModSmall
  <2> HIDE DEF stun, app
  <2> QED BY <1>2, <1>3, <1>4, <1>7, <2>1, <2>3, <2>5 DEF Nothing
<1> QED BY <1>2, <1>5, <1>6, <1>7 DEF Kind

-----------------------------------------------------------------------------
(* The messages s, from place p on, follow one another and fit.               *)
Laid(s, p) ==
  /\ Len(s) \in 0 .. MaxMessage /\ DOMAIN s = 1 .. Len(s) /\ Starts(s, p)[1] = p
  /\ \A n \in 1 .. Len(s) : /\ Starts(s, p)[n + 1] = Starts(s, p)[n] + Size(s[n])
                            /\ Size(s[n]) \in Nat /\ Size(s[n]) > 0
                            /\ s[n].kind \in Kind /\ s[n].data \in Nat /\ Fits(s[n])
  /\ \A n \in 1 .. Len(s) + 1 : /\ Starts(s, p)[n] \in Nat
                                /\ \A i \in 1 .. n - 1 : Starts(s, p)[i] < Starts(s, p)[n]

(* So do the messages of every connection.                                    *)
LEMMA Layout ==
  ASSUME StreamAssumption, MessagesFit, NEW h \in Connections, NEW s \in Seq(h.sends),
         Len(s) <= MaxMessage, NEW p \in Nat
  PROVE  Laid(s, p)
<1>1. Len(s) \in 0 .. MaxMessage /\ MaxMessage \in Nat /\ DOMAIN s = 1 .. Len(s)
  BY LenProperties DEF StreamAssumption
<1>2. \A n \in 1 .. Len(s) : s[n] \in h.sends
  BY ElementOfSeq
<1>3. \A n \in 1 .. Len(s) : s[n].kind \in Kind /\ s[n].data \in Nat /\ Fits(s[n])
  BY <1>2 DEF StreamAssumption, MessagesFit, Kind, Fits
<1>4. \A n \in 1 .. Len(s) : Size(s[n]) \in Nat /\ Size(s[n]) >= 4
  BY <1>3, SizeIs
<1>5. \A n \in 1 .. Len(s) : Size(s[n]) \in Nat /\ Size(s[n]) > 0
  BY <1>4
<1>6. Sized(s)
  BY <1>5 DEF Sized
<1>7. \A n \in 1 .. Len(s) + 1 : /\ Starts(s, p)[n] \in Nat
                                 /\ \A i \in 1 .. n - 1 : Starts(s, p)[i] < Starts(s, p)[n]
  BY <1>1, <1>6, StartsGrow
<1>8. /\ Starts(s, p)[1] = p
      /\ \A n \in 1 .. MaxMessage : Starts(s, p)[n + 1] = Starts(s, p)[n] + Size(s[n])
  BY <1>1, StartsTable
<1>9. \A n \in 1 .. Len(s) : Starts(s, p)[n + 1] = Starts(s, p)[n] + Size(s[n])
  BY <1>1, <1>8
<1> QED BY <1>1, <1>3, <1>5, <1>7, <1>8, <1>9 DEF Laid

(* What comes before the messages, by the kind of client.                     *)
LEMMA PreambleIs ==
  ASSUME StreamAssumption, how \in Connections
  PROVE  /\ Preamble \in 0 .. 30
         /\ how.client = "plain" => Preamble = 0
         /\ how.client = "tls" => Preamble = 12
         /\ how.client = "proxy1" => Preamble = 30
         /\ how.client = "proxy2" => Preamble = 28
BY DEF StreamAssumption, Preamble

(* The connection is still to be looked at, or its kind is known and the      *)
(* handler has had all messages before the place that was reached.            *)
Waiting ==
  /\ socket_type = IF how.client \in {"proxy1", "proxy2"} THEN "proxy" ELSE "tentative"
  /\ pos = 0 /\ got = <<>>
Working == socket_type \in {"tcp", "tls"} /\ pos = Start[Len(got) + 1]

(* StreamsKept, where the worker is, and what has come of what it looks at    *)
(* once.                                                                      *)
StreamInv ==
  /\ how \in Connections /\ sent \in Seq(how.sends) /\ Len(sent) <= MaxMessage
  /\ arrived \in Nat /\ arrived <= Total /\ pos \in Nat /\ pos <= arrived
  /\ ready \in BOOLEAN /\ spent \in BOOLEAN /\ cycle \in 0 .. MaxCycle
  /\ got \in Seq([at : Nat, app : Nat]) /\ CutWhereJoined
  /\ Waiting \/ Working
  /\ how.fragments \/ arrived = 0 \/ arrived >= Preamble
  /\ ready => arrived > 0
  /\ OnlyLimitLeavesMessage

(* What the invariant says of the places.                                     *)
LEMMA Places ==
  ASSUME StreamAssumption, MessagesFit, StreamInv
  PROVE  /\ Laid(sent, Preamble) /\ Start = Starts(sent, Preamble) /\ Preamble \in Nat
         /\ Len(got) \in Nat /\ Len(got) <= Len(sent)
<1>2. how \in Connections
  BY DEF StreamInv
<1>1. Preamble \in Nat
  BY <1>2, PreambleIs
<1> QED BY <1>1, Layout, LenProperties DEF StreamInv, Start, CutWhereJoined

(* The place of message k holds no other message.                             *)
LEMMA HereIs ==
  ASSUME NEW s, NEW p, Laid(s, p), NEW k \in 1 .. Len(s) + 1
  PROVE  {n \in DOMAIN s : Starts(s, p)[n] = Starts(s, p)[k]} = IF k <= Len(s) THEN {k} ELSE {}
<1>1. DOMAIN s = 1 .. Len(s) /\ Len(s) \in Nat
  BY DEF Laid
<1>2. ASSUME NEW n \in 1 .. Len(s), n # k PROVE Starts(s, p)[n] # Starts(s, p)[k]
  <2>1. CASE n < k
    <3>1. n \in 1 .. k - 1
      BY <1>1, <2>1
    <3> QED BY <3>1 DEF Laid
  <2>2. CASE k < n
    <3>1. k \in 1 .. n - 1 /\ n \in 1 .. Len(s) + 1
      BY <1>1, <2>2
    <3> QED BY <3>1 DEF Laid
  <2> QED BY <1>1, <1>2, <2>1, <2>2
<1> QED BY <1>1, <1>2

(* The worker at the place of the next message finds it when it is all there. *)
LEMMA AtMessage ==
  ASSUME StreamAssumption, MessagesFit, StreamInv, Start[Len(got) + 1] <= arrived
  PROVE  LET k == Len(got) + 1
             at == Start[k]
             blen == Least(arrived - at, BufferSize)
             r == stun_get_message_len_str(at, blen)
         IN  IF k <= Len(sent) /\ Start[k + 1] <= arrived
             THEN /\ r = [len |-> Size(sent[k]), app |-> AppSize(sent[k])] /\ blen # 0
                  /\ Size(sent[k]) > 0 /\ Size(sent[k]) <= blen /\ Start[k + 1] = at + Size(sent[k])
             ELSE blen = 0 \/ r.len <= 0
<1> DEFINE k == Len(got) + 1
           at == Start[k]
           blen == Least(arrived - at, BufferSize)
           r == stun_get_message_len_str(at, blen)
<1>1. /\ Laid(sent, Preamble) /\ Start = Starts(sent, Preamble) /\ Preamble \in Nat
      /\ k \in 1 .. Len(sent) + 1 /\ Len(sent) \in Nat
  BY Places DEF Laid
<1>2. at \in Nat /\ arrived \in Nat /\ BufferSize \in Nat /\ arrived <= Start[Len(sent) + 1]
  BY <1>1 DEF Laid, StreamInv, Total, StreamAssumption
<1>3. blen \in Nat /\ blen <= arrived - at /\ blen <= BufferSize /\ (blen = arrived - at \/ blen = BufferSize)
  BY <1>2 DEF Least
<1>4. CASE k = Len(sent) + 1
  <2>1. arrived - at = 0
    BY <1>2, <1>4
  <2> QED BY <1>1, <1>2, <1>3, <1>4, <2>1
<1>5. CASE k <= Len(sent)
  <2> DEFINE m == sent[k]
  <2>1. {n \in DOMAIN sent : Start[n] = at} = {k}
    BY <1>1, <1>5, HereIs
  <2>2. /\ Start[k + 1] = at + Size(m) /\ Size(m) \in Nat /\ Size(m) > 0
        /\ m.kind \in Kind /\ m.data \in Nat /\ Fits(m)
    BY <1>1, <1>5 DEF Laid
  <2> HIDE DEF at, blen, k
  <2>3. r = IF Size(m) <= blen THEN [len |-> Size(m), app |-> AppSize(m)] ELSE Nothing
    BY <1>3, <2>1, <2>2, ParsedMessage
  <2>4. Start[k + 1] <= arrived <=> Size(m) <= blen
    BY <1>2, <1>3, <2>2 DEF Fits
  <2> HIDE DEF r
  <2>5. CASE Size(m) <= blen
    <3>1. blen # 0 /\ Start[k + 1] <= arrived
      BY <1>3, <2>2, <2>4, <2>5
    <3> QED BY <1>5, <2>2, <2>3, <2>5, <3>1 DEF at, blen, k, r
  <2>6. CASE ~(Size(m) <= blen)
    <3>1. r.len <= 0
      BY <2>3, <2>6 DEF Nothing
    <3> QED BY <2>4, <2>6, <3>1 DEF at, blen, k, r
  <2> QED BY <2>5, <2>6
<1> QED BY <1>1, <1>4, <1>5

(* What a call of the worker may do: wait for the rest of a proxy's header,   *)
(* find no whole message at the place of the next one, or hand that one over. *)
HeaderMissing(c) == socket_type = "proxy" /\ c = [pos |-> pos, st |-> socket_type, got |-> got, more |-> FALSE]
MessageMissing(c) ==
  /\ c.more = FALSE /\ c.got = got /\ c.st \in {"tcp", "tls"}
  /\ c.pos = Start[Len(got) + 1] /\ Start[Len(got) + 1] <= arrived
  /\ ~(Len(got) < Len(sent) /\ Start[Len(got) + 2] <= arrived)
MessageFound(c) ==
  /\ c.more = TRUE /\ c.st \in {"tcp", "tls"} /\ Len(got) < Len(sent)
  /\ c.pos = Start[Len(got) + 2] /\ Start[Len(got) + 2] <= arrived
  /\ c.got = Append(got, [at |-> Start[Len(got) + 1], app |-> AppSize(sent[Len(got) + 1])])

(* A proxy's header is read whole or waited for: none is refused.             *)
LEMMA HeaderIs ==
  ASSUME StreamAssumption, MessagesFit, StreamInv, Waiting, socket_type = "proxy", NEW blen,
         blen = Least(arrived, BufferSize), blen # 0
  PROVE  socket_parse_proxy(blen) = 0 \/ (socket_parse_proxy(blen) = Preamble /\ Preamble <= arrived)
<1>1. how \in Connections /\ arrived \in Nat /\ BufferSize \in Nat /\ 30 <= BufferSize
  BY DEF StreamInv, StreamAssumption, MessagesFit
<1>2. how.client \in {"proxy1", "proxy2"}
  BY DEF Waiting
<1>3. blen \in Nat /\ blen <= arrived /\ (blen = arrived \/ blen >= 30) /\ arrived # 0
  BY <1>1 DEF Least
<1>4. /\ how.client = "proxy1" => Preamble = 30
      /\ how.client = "proxy2" => Preamble = 28
  BY <1>1, PreambleIs
<1>5. CASE how.client = "proxy1"
  <2>1. ~how.fragments
    BY <1>1, <1>5 DEF MessagesFit
  <2>2. arrived >= 30
    BY <1>3, <1>4, <1>5, <2>1 DEF StreamInv
  <2>3. blen >= 30
    BY <1>3, <2>2
  <2>4. socket_parse_proxy_v2(blen) = -1 /\ socket_parse_proxy_v1(blen) = Preamble
    BY <1>3, <1>4, <1>5, <2>3 DEF socket_parse_proxy_v2, socket_parse_proxy_v1
  <2> QED BY <1>4, <1>5, <2>2, <2>4 DEF socket_parse_proxy
<1>6. CASE how.client = "proxy2"
  <2>1. socket_parse_proxy_v2(blen) \in {0, Preamble} /\ (socket_parse_proxy_v2(blen) = Preamble => Preamble <= blen)
    BY <1>3, <1>4, <1>6 DEF socket_parse_proxy_v2
  <2>2. socket_parse_proxy(blen) = socket_parse_proxy_v2(blen)
    BY <1>4, <1>6, <2>1 DEF socket_parse_proxy
  <2>3. CASE socket_parse_proxy_v2(blen) = 0
    BY <2>2, <2>3
  <2>4. CASE socket_parse_proxy_v2(blen) = Preamble
    <3>1. Preamble = 28 /\ Preamble <= blen
      BY <1>4, <1>6, <2>1, <2>4
    <3>2. Preamble <= arrived
      BY <1>1, <1>3, <3>1
    <3> QED BY <2>2, <2>4, <3>2
  <2> QED BY <2>1, <2>3, <2>4
<1> QED BY <1>2, <1>5, <1>6

(* The worker says that it need not be called again.                          *)
LEMMA SaysNoMore ==
  ASSUME NEW p, NEW t, NEW g, NEW u, NEW x, x = [pos |-> p, st |-> t, got |-> g, more |-> u]
  PROVE  [x EXCEPT !.more = FALSE] = [pos |-> p, st |-> t, got |-> g, more |-> FALSE]
<1>1. PICK b : b = FALSE
  OBVIOUS
<1>2. [x EXCEPT !.more = b] = [pos |-> p, st |-> t, got |-> g, more |-> b]
  OBVIOUS
<1> QED BY <1>1, <1>2, Zenon

(* The worker does one of the three.                                          *)
LEMMA WorkerIs ==
  ASSUME StreamAssumption, MessagesFit, StreamInv, socket_type \notin {"tentative", "closed"},
         NEW c, c = socket_input_worker_stream([pos |-> pos, st |-> socket_type, got |-> got, more |-> TRUE])
  PROVE  HeaderMissing(c) \/ MessageMissing(c) \/ MessageFound(c)
<1> DEFINE there == Least(arrived - pos, BufferSize)
           head == IF socket_type = "proxy" THEN socket_parse_proxy(there) ELSE 0
           at == pos + head
           blen == Least(arrived - at, BufferSize)
           r == stun_get_message_len_str(at, blen)
           known == IF socket_type = "proxy" THEN "tcp" ELSE socket_type
<1>1. c = IF there = 0 \/ (socket_type = "proxy" /\ head = 0)
          THEN [pos |-> pos, st |-> socket_type, got |-> got, more |-> FALSE]
          ELSE IF head < 0 THEN [pos |-> pos, st |-> "closed", got |-> got, more |-> FALSE]
          ELSE IF blen = 0 \/ r.len <= 0 \/ r.len > blen
               THEN [pos |-> at, st |-> known, got |-> got, more |-> FALSE]
          ELSE [pos |-> at + r.len, st |-> known, more |-> TRUE, got |-> Append(got, [at |-> at, app |-> r.app])]
  <2>1. PICK x, u : u = TRUE /\ x = [pos |-> pos, st |-> socket_type, got |-> got, more |-> u]
    OBVIOUS
  <2>2. x.pos = pos /\ x.st = socket_type /\ x.got = got
    BY <2>1
  <2>3. /\ [x EXCEPT !.more = FALSE] = [pos |-> pos, st |-> socket_type, got |-> got, more |-> FALSE]
        /\ [x EXCEPT !.st = "closed", !.more = FALSE] = [pos |-> pos, st |-> "closed", got |-> got, more |-> FALSE]
        /\ \A a, t : [x EXCEPT !.pos = a, !.st = t, !.more = FALSE] = [pos |-> a, st |-> t, got |-> got, more |-> FALSE]
    <3>1. [x EXCEPT !.more = FALSE] = [pos |-> pos, st |-> socket_type, got |-> got, more |-> FALSE]
      BY <2>1, SaysNoMore
    <3>2. ASSUME NEW a, NEW t
          PROVE  [x EXCEPT !.pos = a, !.st = t, !.more = FALSE] = [pos |-> a, st |-> t, got |-> got, more |-> FALSE]
      <4>1. PICK y : y = [x EXCEPT !.pos = a]
        OBVIOUS
      <4>2. y = [pos |-> a, st |-> socket_type, got |-> got, more |-> u]
        BY <2>1, <4>1
      <4>3. PICK z : z = [y EXCEPT !.st = t]
        OBVIOUS
      <4>4. z = [pos |-> a, st |-> t, got |-> got, more |-> u]
        BY <4>2, <4>3
      <4>5. [z EXCEPT !.more = FALSE] = [pos |-> a, st |-> t, got |-> got, more |-> FALSE]
        BY <4>4, SaysNoMore
      <4> QED BY <4>1, <4>3, <4>5
    <3>3. [x EXCEPT !.st = "closed", !.more = FALSE] = [pos |-> pos, st |-> "closed", got |-> got, more |-> FALSE]
      <4>1. PICK y : y = [x EXCEPT !.st = "closed"]
        OBVIOUS
      <4>2. y = [pos |-> pos, st |-> "closed", got |-> got, more |-> u]
        BY <2>1, <4>1
      <4>3. [y EXCEPT !.more = FALSE] = [pos |-> pos, st |-> "closed", got |-> got, more |-> FALSE]
        BY <4>2, SaysNoMore
      <4> QED BY <4>1, <4>3
    <3> QED BY <3>1, <3>2, <3>3
  <2>4. c = socket_input_worker_stream(x)
    BY <2>1
  <2>5. c = IF there = 0 \/ (socket_type = "proxy" /\ head = 0) THEN [x EXCEPT !.more = FALSE]
            ELSE IF head < 0 THEN [x EXCEPT !.st = "closed", !.more = FALSE]
            ELSE IF blen = 0 \/ r.len <= 0 \/ r.len > blen
                 THEN [x EXCEPT !.pos = at, !.st = known, !.more = FALSE]
            ELSE [pos |-> at + r.len, st |-> known, more |-> TRUE, got |-> Append(got, [at |-> at, app |-> r.app])]
    BY <2>2, <2>4 DEF socket_input_worker_stream
  <2> HIDE DEF there, head, blen, r, at, known
  <2> QED BY <2>3, <2>5
<1>2. /\ Laid(sent, Preamble) /\ Start = Starts(sent, Preamble) /\ Preamble \in Nat
      /\ Len(got) \in Nat /\ Len(got) <= Len(sent) /\ Len(sent) \in Nat
  BY Places DEF Laid
<1>3. arrived \in Nat /\ pos \in Nat /\ pos <= arrived /\ BufferSize \in Nat /\ 30 <= BufferSize
  BY DEF StreamInv, StreamAssumption, MessagesFit
<1>4. there \in Nat /\ (there = 0 <=> arrived = pos)
  BY <1>3 DEF Least
<1>5. Start[1] = Preamble /\ \A n \in 1 .. Len(sent) : Start[n] \in Nat /\ Start[n + 1] \in Nat /\ Start[n] < Start[n + 1]
  <2>2. Start[1] = Preamble
    BY <1>2 DEF Laid
  <2> SUFFICES ASSUME NEW n \in 1 .. Len(sent) PROVE Start[n] \in Nat /\ Start[n + 1] \in Nat /\ Start[n] < Start[n + 1]
    BY <2>2
  <2>1. n \in 1 .. Len(sent) + 1 /\ n + 1 \in 1 .. Len(sent) + 1 /\ n \in 1 .. (n + 1) - 1
    BY <1>2
  <2> QED BY <1>2, <2>1 DEF Laid
<1>6. ASSUME at = Start[Len(got) + 1], at <= arrived, known \in {"tcp", "tls"},
             c = IF blen = 0 \/ r.len <= 0 \/ r.len > blen
                 THEN [pos |-> at, st |-> known, got |-> got, more |-> FALSE]
                 ELSE [pos |-> at + r.len, st |-> known, more |-> TRUE, got |-> Append(got, [at |-> at, app |-> r.app])]
      PROVE  MessageMissing(c) \/ MessageFound(c)
  <2>1. IF Len(got) + 1 <= Len(sent) /\ Start[(Len(got) + 1) + 1] <= arrived
        THEN /\ r = [len |-> Size(sent[Len(got) + 1]), app |-> AppSize(sent[Len(got) + 1])] /\ blen # 0
             /\ Size(sent[Len(got) + 1]) > 0 /\ Size(sent[Len(got) + 1]) <= blen
             /\ Start[(Len(got) + 1) + 1] = at + Size(sent[Len(got) + 1])
        ELSE blen = 0 \/ r.len <= 0
    BY <1>6, AtMessage
  <2>2. (Len(got) + 1) + 1 = Len(got) + 2 /\ (Len(got) + 1 <= Len(sent) <=> Len(got) < Len(sent))
    BY <1>2
  <2> HIDE DEF at, blen, r, known
  <2>3. CASE Len(got) < Len(sent) /\ Start[Len(got) + 2] <= arrived
    <3> DEFINE m == sent[Len(got) + 1]
    <3>1. /\ r = [len |-> Size(m), app |-> AppSize(m)] /\ blen # 0
          /\ Size(m) > 0 /\ Size(m) <= blen /\ Start[Len(got) + 2] = at + Size(m)
      BY <2>1, <2>2, <2>3
    <3>2. Size(m) \in Nat
      BY <1>2, <2>3 DEF Laid
    <3>3. blen \in Nat
      BY <1>3, <1>6, <1>2 DEF blen, Least, Laid
    <3> HIDE DEF m
    <3>4. ~(blen = 0 \/ r.len <= 0 \/ r.len > blen)
      BY <3>1, <3>2, <3>3
    <3>5. c = [pos |-> at + r.len, st |-> known, more |-> TRUE, got |-> Append(got, [at |-> at, app |-> r.app])]
      BY <1>6, <3>4
    <3>6. r.len = Size(m) /\ r.app = AppSize(m)
      BY <3>1
    <3>7. c.more = TRUE /\ c.st = known /\ c.pos = at + r.len /\ c.got = Append(got, [at |-> at, app |-> r.app])
      <4>1. PICK l, g : l = at + r.len /\ g = Append(got, [at |-> at, app |-> r.app])
        OBVIOUS
      <4>2. c = [pos |-> l, st |-> known, more |-> TRUE, got |-> g]
        BY <3>5, <4>1
      <4>3. c.more = TRUE /\ c.st = known /\ c.pos = l /\ c.got = g
        BY <4>2
      <4> QED BY <4>1, <4>3
    <3>8. c.pos = Start[Len(got) + 2] /\ c.got = Append(got, [at |-> Start[Len(got) + 1], app |-> AppSize(m)])
      BY <1>6, <3>1, <3>6, <3>7
    <3> QED BY <1>6, <2>3, <3>7, <3>8 DEF MessageFound, m
  <2>4. CASE ~(Len(got) < Len(sent) /\ Start[Len(got) + 2] <= arrived)
    <3>1. blen = 0 \/ r.len <= 0
      BY <2>1, <2>2, <2>4
    <3>2. c = [pos |-> at, st |-> known, got |-> got, more |-> FALSE]
      BY <1>6, <3>1
    <3> QED BY <1>6, <2>4, <3>2 DEF MessageMissing
  <2> QED BY <2>3, <2>4
<1>7. CASE Working
  <2>1. socket_type # "proxy" /\ head = 0 /\ ~(head < 0) /\ at = pos /\ known = socket_type /\ known \in {"tcp", "tls"}
    BY <1>3, <1>7 DEF Working
  <2>2. at = Start[Len(got) + 1] /\ at <= arrived
    BY <1>3, <1>7, <2>1 DEF Working
  <2>3. CASE there = 0
    <3>1. c = [pos |-> pos, st |-> socket_type, got |-> got, more |-> FALSE]
      BY <1>1, <2>3
    <3>2. ~(Len(got) < Len(sent) /\ Start[Len(got) + 2] <= arrived)
      <4> SUFFICES ASSUME Len(got) < Len(sent) PROVE ~(Start[Len(got) + 2] <= arrived)
        OBVIOUS
      <4>1. Len(got) + 1 \in 1 .. Len(sent) /\ (Len(got) + 1) + 1 = Len(got) + 2
        BY <1>2
      <4>2. Start[Len(got) + 1] \in Nat /\ Start[Len(got) + 2] \in Nat /\ Start[Len(got) + 1] < Start[Len(got) + 2]
        BY <1>5, <4>1
      <4>3. arrived = Start[Len(got) + 1]
        BY <1>4, <1>7, <2>3 DEF Working
      <4> QED BY <4>2, <4>3
    <3> QED BY <1>7, <2>1, <2>2, <3>1, <3>2 DEF MessageMissing
  <2>4. CASE there # 0
    <3> HIDE DEF there, blen, r, head, at, known
    <3>1. c = IF blen = 0 \/ r.len <= 0 \/ r.len > blen
              THEN [pos |-> at, st |-> known, got |-> got, more |-> FALSE]
              ELSE [pos |-> at + r.len, st |-> known, more |-> TRUE, got |-> Append(got, [at |-> at, app |-> r.app])]
      BY <1>1, <2>1, <2>4
    <3> QED BY <1>6, <2>1, <2>2, <3>1
  <2> QED BY <2>3, <2>4
<1>8. CASE Waiting
  <2>1. socket_type = "proxy" /\ pos = 0 /\ got = <<>>
    BY <1>8 DEF Waiting
  <2>2. Len(got) = 0 /\ Len(got) + 1 = 1
    BY <2>1
  <2>3. CASE there = 0 \/ head = 0
    <3>1. c = [pos |-> pos, st |-> socket_type, got |-> got, more |-> FALSE]
      BY <1>1, <2>1, <2>3
    <3> QED BY <2>1, <3>1 DEF HeaderMissing
  <2>4. CASE there # 0 /\ head # 0
    <3>1. there = Least(arrived, BufferSize)
      BY <1>3, <2>1
    <3>2. head = Preamble /\ Preamble <= arrived
      BY <1>8, <2>1, <2>4, <3>1, HeaderIs
    <3> HIDE DEF there, blen, r, head
    <3>3. at = Preamble /\ at = Start[Len(got) + 1] /\ at <= arrived /\ ~(head < 0) /\ known = "tcp"
      BY <1>2, <1>5, <2>1, <2>2, <3>2
    <3> HIDE DEF at, known
    <3>4. c = IF blen = 0 \/ r.len <= 0 \/ r.len > blen
              THEN [pos |-> at, st |-> known, got |-> got, more |-> FALSE]
              ELSE [pos |-> at + r.len, st |-> known, more |-> TRUE, got |-> Append(got, [at |-> at, app |-> r.app])]
      BY <1>1, <2>4, <3>3
    <3> QED BY <1>6, <3>3, <3>4
  <2> QED BY <2>3, <2>4
<1>9. Waiting \/ Working
  BY DEF StreamInv
<1> QED BY <1>7, <1>8, <1>9

-----------------------------------------------------------------------------
(* The invariant holds before anything is sent.                               *)
LEMMA StreamStart == ASSUME StreamAssumption, MessagesFit, StreamInit PROVE StreamInv
<1>1. how \in Connections /\ sent = <<>> /\ arrived = 0 /\ pos = 0 /\ got = <<>> /\ ready = FALSE /\ cycle = 0 /\ spent = FALSE
  BY DEF StreamInit
<1>2. sent \in Seq(how.sends) /\ Len(sent) = 0 /\ got \in Seq([at : Nat, app : Nat]) /\ Len(got) = 0 /\ MaxMessage \in Nat /\ MaxCycle \in Nat
  BY <1>1 DEF StreamAssumption
<1>3. Preamble \in Nat
  BY <1>1, PreambleIs
<1>4. Laid(sent, Preamble)
  <2>1. how \in Connections
    BY <1>1
  <2>2. Len(sent) <= MaxMessage
    BY <1>2
  <2>3. sent \in Seq(how.sends)
    BY <1>2
  <2> QED BY <1>3, <2>1, <2>2, <2>3, Layout
<1>5. Total = Preamble
  BY <1>2, <1>4 DEF Total, Start, Laid
<1>6. Waiting
  BY <1>1 DEF Waiting, StreamInit
<1>7. CutWhereJoined
  BY <1>1, <1>2 DEF CutWhereJoined
<1>8. OnlyLimitLeavesMessage
  BY <1>2 DEF OnlyLimitLeavesMessage
<1>9. arrived \in Nat /\ arrived <= Total /\ pos \in Nat /\ pos <= arrived /\ cycle \in 0 .. MaxCycle /\ Len(sent) <= MaxMessage
  BY <1>1, <1>2, <1>3, <1>5
<1>10. ready \in BOOLEAN /\ spent \in BOOLEAN /\ (ready => arrived > 0)
  BY <1>1
<1> QED BY <1>1, <1>2, <1>6, <1>7, <1>8, <1>9, <1>10, Zenon DEF StreamInv

(* The client sends a message: what was laid out stays where it was.          *)
LEMMA SendKeeps ==
  ASSUME StreamAssumption, MessagesFit, StreamInv, NEW m \in how.sends, Send(m)
  PROVE  StreamInv'
<1>1. /\ sent' = Append(sent, m) /\ Len(sent) < MaxMessage
      /\ UNCHANGED <<how, arrived, pos, socket_type, ready, cycle, got, spent>>
  BY DEF Send
<1>2. /\ Laid(sent, Preamble) /\ Start = Starts(sent, Preamble) /\ Preamble \in Nat
      /\ Len(got) \in Nat /\ Len(got) <= Len(sent)
  BY Places
<1>3. /\ how \in Connections /\ sent \in Seq(how.sends) /\ arrived \in Nat /\ arrived <= Total
      /\ got \in Seq([at : Nat, app : Nat]) /\ Len(sent) \in Nat /\ MaxMessage \in Nat /\ DOMAIN got = 1 .. Len(got)
  BY LenProperties DEF StreamInv, StreamAssumption
<1>4. Preamble' = Preamble
  BY <1>1 DEF Preamble
<1>5. sent' \in Seq(how.sends) /\ Len(sent') = Len(sent) + 1 /\ Len(sent') <= MaxMessage
  BY <1>1, <1>3
<1>6. Laid(sent', Preamble)
  BY <1>2, <1>3, <1>5, Layout
<1>7. Start' = Starts(sent', Preamble)
  BY <1>4 DEF Start
<1>8. \A n \in 1 .. Len(sent) : sent'[n] = sent[n]
  BY <1>1, <1>3
<1>9. \A n \in 1 .. Len(sent) + 1 : Start'[n] = Start[n]
  <2>1. \A n \in 1 .. Len(sent) + 1 : Starts(sent, Preamble)[n] = Starts(sent', Preamble)[n]
    <3>1. PICK s, t, p : s = sent /\ t = sent' /\ p = Preamble
      OBVIOUS
    <3>2. Len(s) \in 0 .. MaxMessage /\ \A n \in 1 .. Len(s) : s[n] = t[n]
      BY <1>1, <1>3, <1>8, <3>1
    <3>3. \A n \in 1 .. Len(s) + 1 : Starts(s, p)[n] = Starts(t, p)[n]
      BY <1>3, <3>2, StartsPrefix
    <3> QED BY <3>1, <3>3
  <2> QED BY <1>2, <1>7, <2>1
<1>10. Total' = Start'[Len(sent) + 2] /\ Total' \in Nat /\ Total \in Nat /\ Total < Total'
  <2>1. Len(sent') + 1 = Len(sent) + 2 /\ Len(sent) + 2 \in 1 .. Len(sent') + 1 /\ Len(sent) + 1 \in 1 .. (Len(sent) + 2) - 1
    BY <1>3, <1>5
  <2>2. Start'[Len(sent) + 2] \in Nat /\ Start'[Len(sent) + 1] < Start'[Len(sent) + 2]
    BY <1>6, <1>7, <2>1 DEF Laid
  <2>3. Total = Start'[Len(sent) + 1] /\ Total \in Nat
    BY <1>2, <1>3, <1>9 DEF Total, Laid
  <2> QED BY <2>1, <2>2, <2>3 DEF Total
<1>11. CutWhereJoined'
  BY <1>1, <1>2, <1>3, <1>5, <1>8, <1>9 DEF CutWhereJoined, StreamInv
<1>12. (Waiting \/ Working)'
  <2>1. CASE Waiting
    BY <1>1, <2>1 DEF Waiting
  <2>2. CASE Working
    BY <1>1, <1>2, <1>3, <1>9, <2>2 DEF Working
  <2> QED BY <2>1, <2>2 DEF StreamInv
<1>13. OnlyLimitLeavesMessage'
  <2> SUFFICES ASSUME ~ready, socket_type \in {"tcp", "tls"}, Len(got) < Len(sent'), Start'[Len(got) + 2] <= arrived
               PROVE  spent
    BY <1>1 DEF OnlyLimitLeavesMessage
  <2>1. CASE Len(got) < Len(sent)
    <3>1. Len(got) + 2 \in 1 .. Len(sent) + 1
      BY <1>2, <1>3, <2>1
    <3>2. Start[Len(got) + 2] <= arrived
      BY <1>9, <3>1
    <3> QED BY <2>1, <3>2 DEF OnlyLimitLeavesMessage, StreamInv
  <2>2. CASE Len(got) = Len(sent)
    BY <1>3, <1>10, <2>2
  <2> QED BY <1>2, <1>3, <2>1, <2>2
<1>14. arrived <= Total'
  BY <1>3, <1>10
<1> QED BY <1>1, <1>4, <1>5, <1>11, <1>12, <1>13, <1>14 DEF StreamInv

(* Bytes arrive.                                                              *)
LEMMA ArriveKeeps ==
  ASSUME StreamAssumption, MessagesFit, StreamInv, Arrive
  PROVE  StreamInv'
<1>1. UNCHANGED <<how, sent, pos, socket_type, cycle, got, spent>> /\ ready' = TRUE
  BY DEF Arrive
<1>2. arrived \in Nat /\ pos \in Nat /\ pos <= arrived /\ Total \in Nat /\ Preamble \in Nat
  <2>1. Laid(sent, Preamble) /\ Start = Starts(sent, Preamble) /\ Preamble \in Nat
    BY Places
  <2>2. arrived \in Nat /\ pos \in Nat /\ pos <= arrived
    BY DEF StreamInv
  <2>3. Total \in Nat
    <3>1. Len(sent) + 1 \in 1 .. Len(sent) + 1
      BY <2>1 DEF Laid
    <3> QED BY <2>1, <3>1 DEF Total, Laid
  <2> QED BY <2>1, <2>2, <2>3
<1>3. arrived' \in (arrived + 1) .. Total /\ (how.fragments \/ arrived' >= Preamble)
  BY DEF Arrive
<1>4. arrived' \in Nat /\ pos <= arrived' /\ arrived' <= Total /\ arrived' > 0
  BY <1>2, <1>3
<1>5. Preamble' = Preamble /\ Start' = Start /\ Total' = Total
  BY <1>1 DEF Preamble, Start, Total
<1>6. CutWhereJoined' /\ OnlyLimitLeavesMessage' /\ (Waiting \/ Working)'
  BY <1>1, <1>5 DEF CutWhereJoined, OnlyLimitLeavesMessage, Waiting, Working, StreamInv
<1> QED BY <1>1, <1>3, <1>4, <1>5, <1>6 DEF StreamInv

(* The kind of the connection is found out.                                   *)
LEMMA TentativeKeeps ==
  ASSUME StreamAssumption, MessagesFit, StreamInv, tentative_tcp
  PROVE  StreamInv'
<1>1. /\ UNCHANGED <<how, sent, arrived, ready, cycle, got, spent>> /\ socket_type = "tentative" /\ ready
      /\ socket_type' = (IF check_tentative_tls THEN "tls" ELSE "tcp")
      /\ pos' = (IF check_tentative_tls THEN Preamble ELSE pos)
  BY DEF tentative_tcp
<1>2. how \in Connections /\ arrived \in Nat /\ arrived > 0 /\ pos = 0 /\ got = <<>> /\ how.client \notin {"proxy1", "proxy2"}
  <2>1. ~Working
    BY <1>1 DEF Working
  <2> QED BY <1>1, <2>1 DEF StreamInv, Waiting
<1>3. how.client \in {"plain", "tls"}
  BY <1>2 DEF StreamAssumption
<1>4. /\ how.client = "plain" => Preamble = 0
      /\ how.client = "tls" => Preamble = 12
  BY <1>2, PreambleIs
<1>5. pos' = Preamble /\ pos' \in Nat /\ pos' <= arrived
  <2>1. CASE how.client = "plain"
    BY <1>1, <1>2, <1>4, <2>1 DEF check_tentative_tls
  <2>2. CASE how.client = "tls"
    <3>1. ~how.fragments
      BY <1>2, <2>2 DEF MessagesFit
    <3>2. arrived >= 12
      BY <1>2, <1>4, <2>2, <3>1 DEF StreamInv
    <3> QED BY <1>1, <1>2, <1>4, <2>2, <3>2 DEF check_tentative_tls
  <2> QED BY <1>3, <2>1, <2>2
<1>6. Preamble' = Preamble /\ Start' = Start /\ Total' = Total
  BY <1>1 DEF Preamble, Start, Total
<1>7. Start[1] = Preamble /\ Len(got) = 0
  BY <1>2, Places DEF Laid
<1>8. Working'
  BY <1>1, <1>5, <1>6, <1>7 DEF Working
<1>9. CutWhereJoined' /\ OnlyLimitLeavesMessage'
  BY <1>1, <1>6 DEF CutWhereJoined, OnlyLimitLeavesMessage, StreamInv
<1> QED BY <1>1, <1>2, <1>5, <1>6, <1>8, <1>9 DEF StreamInv

(* The callback calls the worker.                                             *)
LEMMA HandlerKeeps ==
  ASSUME StreamAssumption, MessagesFit, StreamInv, socket_input_handler_bev
  PROVE  StreamInv'
<1>1. PICK c : /\ c = socket_input_worker_stream([pos |-> pos, st |-> socket_type, got |-> got, more |-> TRUE])
               /\ pos' = c.pos /\ socket_type' = c.st /\ got' = c.got
               /\ ready' = (c.more /\ cycle + 1 < MaxCycle)
               /\ cycle' = (IF ready' THEN cycle + 1 ELSE 0)
               /\ spent' = (c.more /\ ~ready')
  BY DEF socket_input_handler_bev
<1>2. UNCHANGED <<how, sent, arrived>> /\ ready /\ socket_type \notin {"tentative", "closed"}
  BY DEF socket_input_handler_bev
<1>3. HeaderMissing(c) \/ MessageMissing(c) \/ MessageFound(c)
  BY <1>1, <1>2, WorkerIs
<1>4. Preamble' = Preamble /\ Start' = Start /\ Total' = Total
  BY <1>2 DEF Preamble, Start, Total
<1>5. /\ Laid(sent, Preamble) /\ Start = Starts(sent, Preamble) /\ Preamble \in Nat
      /\ Len(got) \in Nat /\ Len(got) <= Len(sent) /\ Len(sent) \in Nat
  BY Places DEF Laid
<1>6. /\ arrived \in Nat /\ arrived > 0 /\ pos \in Nat /\ pos <= arrived /\ cycle \in 0 .. MaxCycle /\ MaxCycle \in Nat
      /\ got \in Seq([at : Nat, app : Nat]) /\ CutWhereJoined /\ how \in Connections
  BY <1>2 DEF StreamInv, StreamAssumption
<1>7. ready' \in BOOLEAN /\ spent' \in BOOLEAN
  BY <1>1
<1>8. cycle' \in 0 .. MaxCycle
  <2>1. CASE ready'
    <3>1. cycle + 1 < MaxCycle /\ cycle' = cycle + 1
      BY <1>1, <2>1
    <3> QED BY <1>6, <3>1
  <2>2. CASE ~ready'
    BY <1>1, <1>6, <2>2
  <2> QED BY <2>1, <2>2
<1>9. ASSUME pos' \in Nat, pos' <= arrived, got' \in Seq([at : Nat, app : Nat]), CutWhereJoined', (Waiting \/ Working)',
             OnlyLimitLeavesMessage'
      PROVE  StreamInv'
  BY <1>2, <1>4, <1>6, <1>7, <1>8, <1>9 DEF StreamInv
<1>10. CASE HeaderMissing(c)
  <2>1. socket_type = "proxy" /\ c.pos = pos /\ c.st = socket_type /\ c.got = got
    BY <1>10 DEF HeaderMissing
  <2>2. pos' = pos /\ socket_type' = socket_type /\ got' = got /\ socket_type' \notin {"tcp", "tls"}
    BY <1>1, <2>1
  <2>3. CutWhereJoined' /\ (Waiting \/ Working)' /\ OnlyLimitLeavesMessage'
    BY <1>2, <1>4, <2>2 DEF CutWhereJoined, Waiting, Working, OnlyLimitLeavesMessage, StreamInv
  <2> QED BY <1>6, <1>9, <2>2, <2>3
<1>11. CASE MessageMissing(c)
  <2>1. /\ pos' = Start[Len(got) + 1] /\ pos' <= arrived /\ got' = got /\ socket_type' \in {"tcp", "tls"}
        /\ ~(Len(got) < Len(sent) /\ Start[Len(got) + 2] <= arrived)
    BY <1>1, <1>11 DEF MessageMissing
  <2>2. pos' \in Nat
    BY <1>5, <2>1 DEF Laid
  <2>3. Working' /\ CutWhereJoined'
    BY <1>2, <1>4, <1>6, <2>1 DEF Working, CutWhereJoined
  <2>4. OnlyLimitLeavesMessage'
    BY <1>2, <1>4, <2>1 DEF OnlyLimitLeavesMessage
  <2> QED BY <1>6, <1>9, <2>1, <2>2, <2>3, <2>4
<1>12. CASE MessageFound(c)
  <2> DEFINE e == [at |-> Start[Len(got) + 1], app |-> AppSize(sent[Len(got) + 1])]
  <2>1. /\ pos' = Start[Len(got) + 2] /\ pos' <= arrived /\ socket_type' \in {"tcp", "tls"}
        /\ got' = Append(got, e) /\ Len(got) < Len(sent) /\ c.more = TRUE
    BY <1>1, <1>12 DEF MessageFound
  <2>2. Len(got) + 1 \in 1 .. Len(sent) /\ Len(got) + 1 \in 1 .. Len(sent) + 1 /\ Len(got) + 2 \in 1 .. Len(sent) + 1
    BY <1>5, <2>1
  <2>3. Start[Len(got) + 1] \in Nat /\ Start[Len(got) + 2] \in Nat
    BY <1>5, <2>2 DEF Laid
  <2>4. AppSize(sent[Len(got) + 1]) \in Nat
    BY <1>5, <2>2, SizeIs DEF Laid
  <2>5. e \in [at : Nat, app : Nat]
    BY <2>3, <2>4
  <2> HIDE DEF e
  <2>6. /\ got' \in Seq([at : Nat, app : Nat]) /\ Len(got') = Len(got) + 1 /\ got'[Len(got) + 1] = e
        /\ \A n \in 1 .. Len(got) : got'[n] = got[n]
    BY <1>6, <2>1, <2>5
  <2>7. DOMAIN got = 1 .. Len(got) /\ DOMAIN got' = 1 .. Len(got) + 1
    BY <1>6, <2>6, LenProperties
  <2>8. CutWhereJoined'
    <3>1. Len(got') <= Len(sent)
      BY <2>2, <2>6, <1>5
    <3>2. ASSUME NEW n \in 1 .. Len(got) + 1 PROVE got'[n] = [at |-> Start[n], app |-> AppSize(sent[n])]
      <4>1. CASE n = Len(got) + 1
        BY <2>6, <4>1 DEF e
      <4>2. CASE n # Len(got) + 1
        <5>1. n \in 1 .. Len(got)
          BY <1>5, <4>2
        <5> QED BY <1>6, <2>6, <2>7, <5>1 DEF CutWhereJoined
      <4> QED BY <4>1, <4>2
    <3> QED BY <1>2, <1>4, <2>7, <3>1, <3>2 DEF CutWhereJoined
  <2>9. Working'
    <3>1. Len(got') + 1 = Len(got) + 2
      BY <1>5, <2>6
    <3> QED BY <1>4, <2>1, <3>1 DEF Working
  <2>10. OnlyLimitLeavesMessage'
    <3>1. ~ready' => spent'
      BY <1>1, <2>1
    <3> QED BY <3>1 DEF OnlyLimitLeavesMessage
  <2> QED BY <1>9, <2>1, <2>3, <2>6, <2>8, <2>9, <2>10
<1> QED BY <1>3, <1>10, <1>11, <1>12

(* Every step keeps the invariant.                                            *)
LEMMA StreamStep ==
  ASSUME StreamAssumption, MessagesFit, StreamInv, [StreamNext]_streamVars
  PROVE  StreamInv'
<1>1. CASE UNCHANGED streamVars
  <2>1. UNCHANGED <<how, sent, arrived, pos, socket_type, ready, cycle, got, spent>>
    BY <1>1 DEF streamVars
  <2>2. Preamble' = Preamble /\ Start' = Start /\ Total' = Total
    BY <2>1 DEF Preamble, Start, Total
  <2> QED BY <2>1, <2>2 DEF StreamInv, CutWhereJoined, OnlyLimitLeavesMessage, Waiting, Working
<1>2. CASE StreamNext
  BY <1>2, SendKeeps, ArriveKeeps, TentativeKeeps, HandlerKeeps DEF StreamNext
<1> QED BY <1>1, <1>2

(* The invariant says what is asked for.                                      *)
LEMMA InvIsKept == ASSUME StreamAssumption, StreamInv PROVE StreamsKept
<1>1. socket_type \in {"tentative", "tcp", "tls", "proxy"}
  BY DEF StreamInv, Waiting, Working
<1> QED BY <1>1 DEF StreamInv, StreamsKept, StreamTypeOK, ProxyIsHeard

(* For any connections whose messages fit, any number of messages and any     *)
(* pieces in which the bytes arrive: the handler is given the client's        *)
(* messages in order, each cut where it was joined and without its padding,   *)
(* a whole message waits only when the callback has used up its calls, and no *)
(* proxy's header ends the connection (socket_input_worker and                *)
(* socket_input_handler_bev of ns_ioalib_engine_impl.c).                      *)
THEOREM StreamsAlwaysKept ==
  ASSUME StreamAssumption, MessagesFit
  PROVE  StreamSpec => []StreamsKept
<1>1. StreamInit => StreamInv  BY StreamStart
<1>2. StreamInv /\ [StreamNext]_streamVars => StreamInv'  BY StreamStep
<1>3. StreamInv => StreamsKept  BY InvIsKept
<1> QED  BY <1>1, <1>2, <1>3, PTL DEF StreamSpec
=============================================================================
