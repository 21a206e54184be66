----------------------- MODULE SignallingProofs -----------------------
(***************************************************************************)
(* Theorems about SignallingServer and SignalledCall, for every value of   *)
(* their constants.                                                        *)
(*                                                                         *)
(* Type correctness and RoomListBacked are inductive with the types.       *)
(* OneMembership is not: a join that the runner has not run yet could      *)
(* break it, so MembershipInv also says what may be waiting in the queue   *)
(* (QueueInv): a session's open comes before its join, its close after     *)
(* everything, and a join waits only for a session that is in no room.     *)
(* What sessions have been told (PairIntroduced, RemovePeerIsLast,         *)
(* LeaveAnnounced) needs NewsInv on top: news is only of and to sessions   *)
(* whose join has run, and a session that is said to have left has nothing *)
(* left in the queue.                                                      *)
(*                                                                         *)
(* The call adds the clients. EndInv: a client that has closed still has   *)
(* exitRoom's task to run, or holds nothing. HistoryInv: a client is sent  *)
(* its _peers before any _new_peer, and each newcomer once. TasksInv: the  *)
(* executor's queue keeps the order of what was received (QueueOK), and    *)
(* there is no connection before the stream. OfferInv: of any two clients  *)
(* one calls (Caller), its offer is sent once and behind the news of it    *)
(* (Offered), and the other's connection is untouched until then           *)
(* (Receiver).                                                             *)
(***************************************************************************)
EXTENDS SignalledCall, SequenceTheorems, FiniteSetTheorems,
        WellFoundedInduction, TLAPS

\* A nonempty set of naturals has a least element and Min is it (Min is what
\* RemoveFirst looks its index up with).
LEMMA NatMin ==
    ASSUME NEW S \in SUBSET Nat, S # {}
    PROVE  /\ Min(S) \in S
           /\ \A y \in S : Min(S) <= y
<1> DEFINE R == OpToRel(<, Nat)
<1>1. IsWellFoundedOn(R, Nat)
  BY NatLessThanWellFounded
<1>2. \A x, y \in Nat : y < x => <<y, x>> \in R
  BY DEF OpToRel
<1> HIDE DEF R
<1>3. PICK x \in S : \A y \in S : ~(<<y, x>> \in R)
  BY <1>1, WFMin
<1>4. \A y \in S : x <= y
  <2> TAKE y \in S
  <2>1. x \in Nat /\ y \in Nat
    OBVIOUS
  <2>2. ~(y < x)
    BY <1>2, <1>3, <2>1, Zenon
  <2> QED BY <2>1, <2>2
<1> QED BY <1>4 DEF Min

\* What Append does to the length, the domain and the elements of a sequence.
LEMMA AppendShape ==
    ASSUME NEW S, NEW q \in Seq(S), NEW e \in S
    PROVE  /\ Append(q, e) \in Seq(S)
           /\ Len(q) \in Nat
           /\ DOMAIN q = 1..Len(q)
           /\ DOMAIN Append(q, e) = 1..(Len(q) + 1)
           /\ Append(q, e)[Len(q) + 1] = e
           /\ \A i \in DOMAIN q : Append(q, e)[i] = q[i]
BY AppendProperties, LenProperties

\* RemoveFirst, which is List.remove(Object) of removeSocket, leaves out one
\* position k that held e and closes the gap.
LEMMA RemoveFirstShape ==
    ASSUME NEW S, NEW q \in Seq(S), NEW e, \E i \in 1..Len(q) : q[i] = e
    PROVE  \E k \in 1..Len(q) :
               /\ q[k] = e
               /\ RemoveFirst(q, e) \in Seq(S)
               /\ Len(RemoveFirst(q, e)) = Len(q) - 1
               /\ \A j \in 1..(Len(q) - 1) :
                     RemoveFirst(q, e)[j] = IF j < k THEN q[j] ELSE q[j + 1]
<1> DEFINE I == {i \in 1..Len(q) : q[i] = e}
           k == Min(I)
<1>1. /\ Len(q) \in Nat
      /\ \A i \in 1..Len(q) : q[i] \in S
  BY LenProperties, ElementOfSeq
<1>2. k \in 1..Len(q) /\ q[k] = e
  <2>1. I \in SUBSET Nat /\ I # {}
    BY <1>1
  <2> QED BY <2>1, NatMin
<1>3. RemoveFirst(q, e) = SubSeq(q, 1, k - 1) \o SubSeq(q, k + 1, Len(q))
  BY <1>2 DEF RemoveFirst, RemoveAt, SelectInSeq
<1> HIDE DEF k
<1> DEFINE a == SubSeq(q, 1, k - 1)
           b == SubSeq(q, k + 1, Len(q))
<1>4. /\ a \in Seq(S)
      /\ Len(a) = k - 1
      /\ \A j \in 1..(k - 1) : a[j] = q[j]
  <2>1. \A i \in 1..(k - 1) : q[i] \in S
    BY <1>1, <1>2
  <2>2. k - 1 \in Int /\ 1 \in Int /\ k - 1 >= 0
    BY <1>1, <1>2
  <2>3. /\ a \in Seq(S)
        /\ Len(a) = IF 1 <= k - 1 THEN (k - 1) - 1 + 1 ELSE 0
        /\ \A i \in 1..((k - 1) - 1 + 1) : a[i] = q[1 + i - 1]
    BY <2>1, <2>2, SubSeqProperties
  <2> HIDE DEF a
  <2> QED BY <1>1, <1>2, <2>3
<1>5. /\ b \in Seq(S)
      /\ Len(b) = Len(q) - k
      /\ \A j \in 1..(Len(q) - k) : b[j] = q[j + k]
  <2>1. \A i \in (k + 1)..Len(q) : q[i] \in S
    BY <1>1, <1>2
  <2>2. k + 1 \in Int /\ Len(q) \in Int
    BY <1>1, <1>2
  <2>3. /\ b \in Seq(S)
        /\ Len(b) = IF k + 1 <= Len(q) THEN Len(q) - (k + 1) + 1 ELSE 0
        /\ \A i \in 1..(Len(q) - (k + 1) + 1) : b[i] = q[(k + 1) + i - 1]
    BY <2>1, <2>2, SubSeqProperties
  <2> HIDE DEF b
  <2>4. \A j \in 1..(Len(q) - k) : (k + 1) + j - 1 = j + k
    BY <1>1, <1>2
  <2> QED BY <1>1, <1>2, <2>3, <2>4
<1> HIDE DEF a, b
<1>6. /\ a \o b \in Seq(S)
      /\ Len(a \o b) = Len(q) - 1
      /\ \A j \in 1..(Len(q) - 1) :
            (a \o b)[j] = IF j <= k - 1 THEN a[j] ELSE b[j - (k - 1)]
  BY <1>1, <1>2, <1>4, <1>5, ConcatProperties
<1>7. \A j \in 1..(Len(q) - 1) :
         (a \o b)[j] = IF j < k THEN q[j] ELSE q[j + 1]
  <2> TAKE j \in 1..(Len(q) - 1)
  <2>1. CASE j < k
    BY <1>1, <1>2, <1>4, <1>6, <2>1
  <2>2. CASE ~(j < k)
    <3>1. j - (k - 1) \in 1..(Len(q) - k) /\ (j - (k - 1)) + k = j + 1
      BY <1>1, <1>2, <2>2
    <3>2. b[j - (k - 1)] = q[j + 1]
      BY <1>5, <3>1
    <3> QED BY <1>1, <1>2, <1>6, <2>2, <3>2
  <2> QED BY <2>1, <2>2
<1>8. RemoveFirst(q, e) = a \o b
  BY <1>3 DEF a, b
<1> QED BY <1>2, <1>6, <1>7, <1>8

\* RemoveFirst invents no element and loses none but e.
LEMMA RemoveFirstMembers ==
    ASSUME NEW S, NEW q \in Seq(S), NEW e
    PROVE  /\ RemoveFirst(q, e) \in Seq(S)
           /\ \A i \in DOMAIN RemoveFirst(q, e) :
                 \E j \in DOMAIN q : RemoveFirst(q, e)[i] = q[j]
           /\ \A j \in DOMAIN q :
                 q[j] # e => \E i \in DOMAIN RemoveFirst(q, e) :
                                 RemoveFirst(q, e)[i] = q[j]
<1>1. CASE \E i \in 1..Len(q) : q[i] = e
  <2>1. PICK k \in 1..Len(q) :
            /\ q[k] = e
            /\ RemoveFirst(q, e) \in Seq(S)
            /\ Len(RemoveFirst(q, e)) = Len(q) - 1
            /\ \A j \in 1..(Len(q) - 1) :
                  RemoveFirst(q, e)[j] = IF j < k THEN q[j] ELSE q[j + 1]
    BY <1>1, RemoveFirstShape
  <2> DEFINE r == RemoveFirst(q, e)
  <2> HIDE DEF r
  <2>2. /\ Len(q) \in Nat
        /\ DOMAIN q = 1..Len(q)
        /\ r \in Seq(S)
        /\ DOMAIN r = 1..(Len(q) - 1)
        /\ \A j \in 1..(Len(q) - 1) :
              r[j] = IF j < k THEN q[j] ELSE q[j + 1]
    BY <2>1, LenProperties DEF r
  <2>3. ASSUME NEW i \in DOMAIN r
        PROVE  \E j \in DOMAIN q : r[i] = q[j]
    <3>1. i \in DOMAIN q /\ i + 1 \in DOMAIN q
      BY <2>2
    <3> QED BY <2>2, <3>1
  <2>4. ASSUME NEW j \in DOMAIN q, q[j] # e
        PROVE  \E i \in DOMAIN r : r[i] = q[j]
    <3>1. CASE j < k
      BY <2>1, <2>2, <3>1
    <3>2. CASE ~(j < k)
      <4>1. j > k
        BY <2>1, <2>2, <2>4, <3>2
      <4>2. j - 1 \in 1..(Len(q) - 1) /\ ~(j - 1 < k) /\ (j - 1) + 1 = j
        BY <2>1, <2>2, <4>1
      <4> QED BY <2>2, <4>2
    <3> QED BY <3>1, <3>2
  <2> QED BY <2>2, <2>3, <2>4 DEF r
<1>2. CASE ~\E i \in 1..Len(q) : q[i] = e
  BY <1>2 DEF RemoveFirst
<1> QED BY <1>1, <1>2

\* From a sequence without repetitions RemoveFirst removes e for good and
\* introduces no repetition.
LEMMA RemoveFirstDistinct ==
    ASSUME NEW S, NEW q \in Seq(S), NEW e,
           \A i, j \in DOMAIN q : q[i] = q[j] => i = j
    PROVE  LET r == RemoveFirst(q, e)
           IN  /\ \A i \in DOMAIN r : r[i] # e
               /\ \A i, j \in DOMAIN r : r[i] = r[j] => i = j
<1>0. Len(q) \in Nat /\ DOMAIN q = 1..Len(q)
  BY LenProperties
<1>1. CASE \E i \in 1..Len(q) : q[i] = e
  <2>1. PICK k \in 1..Len(q) :
            /\ q[k] = e
            /\ RemoveFirst(q, e) \in Seq(S)
            /\ Len(RemoveFirst(q, e)) = Len(q) - 1
            /\ \A j \in 1..(Len(q) - 1) :
                  RemoveFirst(q, e)[j] = IF j < k THEN q[j] ELSE q[j + 1]
    BY <1>1, RemoveFirstShape
  <2> DEFINE r == RemoveFirst(q, e)
             old(i) == IF i < k THEN i ELSE i + 1
  <2> HIDE DEF r
  <2>2. DOMAIN r = 1..(Len(q) - 1)
    BY <2>1, LenProperties DEF r
  <2>3. \A i \in DOMAIN r : r[i] = q[old(i)] /\ old(i) \in DOMAIN q /\ old(i) # k
    BY <1>0, <2>1, <2>2 DEF r
  <2>4. \A i, j \in DOMAIN r : old(i) = old(j) => i = j
    BY <1>0, <2>1, <2>2
  <2> HIDE DEF old
  <2>5. \A i \in DOMAIN r : r[i] # e
    BY <1>0, <2>1, <2>3
  <2>6. \A i, j \in DOMAIN r : r[i] = r[j] => i = j
    BY <2>3, <2>4
  <2> QED BY <2>5, <2>6 DEF r
<1>2. CASE ~\E i \in 1..Len(q) : q[i] = e
  BY <1>0, <1>2 DEF RemoveFirst
<1> QED BY <1>1, <1>2

\* The loops of onClose and join leave every inbox a sequence of frames.
LEMMA BroadcastType ==
    ASSUME NEW box \in [Sessions -> Seq(Frames)], NEW members \in Seq(Sessions),
           NEW self, NEW frame \in Frames
    PROVE  Broadcast(box, members, self, frame) \in [Sessions -> Seq(Frames)]
<1> SUFFICES ASSUME NEW s \in Sessions
             PROVE  box[s] \o [k \in 1..Copies(members, self, s) |-> frame]
                        \in Seq(Frames)
  BY DEF Broadcast
<1>1. Copies(members, self, s) \in Nat
  <2> DEFINE I == {i \in Reached(members, self) : members[i] = s}
  <2>1. IsFiniteSet(1..Len(members)) /\ DOMAIN members = 1..Len(members)
    BY LenProperties, FS_Interval
  <2>2. I \in SUBSET (1..Len(members))
    BY <2>1 DEF Reached
  <2>3. Cardinality(I) \in Nat
    BY <2>1, <2>2, FS_Subset, FS_CardinalityType
  <2> QED BY <2>3 DEF Copies
<1> DEFINE n == Copies(members, self, s)
<1> HIDE DEF n
<1>2. [k \in 1..n |-> frame] \in Seq(Frames)
  BY <1>1 DEF n
<1>3. box[s] \o [k \in 1..n |-> frame] \in Seq(Frames)
  BY <1>2, ConcatProperties
<1> QED BY <1>3 DEF n

\* So does a single send.
LEMMA SendType ==
    ASSUME NEW box \in [Sessions -> Seq(Frames)], NEW s \in Sessions,
           NEW frame \in Frames
    PROVE  Send(box, s, frame) \in [Sessions -> Seq(Frames)]
BY AppendProperties DEF Send

-----------------------------------------------------------------------------
\* The task the runner takes is a task, of a session of the server.
LEMMA HeadTask ==
    ASSUME ServerTypeOK, runner # << >>
    PROVE  /\ Head(runner) \in Tasks
           /\ Head(runner).s \in Sessions
           /\ Tail(runner) \in Seq(Tasks)
BY HeadTailProperties DEF ServerTypeOK, Tasks

\* Every container callback and every task of the runner keeps the types.
LEMMA TypeStep == ServerTypeOK /\ [ServerNext]_serverVars => ServerTypeOK'
<1> SUFFICES ASSUME ServerTypeOK, [ServerNext]_serverVars
             PROVE  ServerTypeOK'
  OBVIOUS
<1> USE ServerAssumption DEF ServerTypeOK
<1>1. ASSUME NEW s \in Sessions, NEW u \in Users, OnOpen(s, u)
      PROVE  ServerTypeOK'
  <2>1. OpenTask(s, u) \in Tasks
    BY DEF OpenTask, Tasks
  <2> QED BY <1>1, <2>1, AppendProperties DEF OnOpen, mapVars
<1>2. ASSUME NEW s \in Sessions, OnClose(s)
      PROVE  ServerTypeOK'
  <2>1. CloseTask(s) \in Tasks
    BY DEF CloseTask, Tasks
  <2> QED BY <1>2, <2>1, AppendProperties DEF OnClose, mapVars
<1>3. ASSUME NEW s \in Sessions, NEW r \in Rooms \cup {NoRoom},
             OnJoinMessage(s, r)
      PROVE  ServerTypeOK'
  <2>1. JoinTask(s, r) \in Tasks
    BY DEF JoinTask, Tasks
  <2>2. joins[s] + 1 \in 0..MaxJoins
    BY <1>3 DEF OnJoinMessage
  <2>3. joins' \in [Sessions -> 0..MaxJoins]
    BY <1>3, <2>2 DEF OnJoinMessage
  <2>4. runner' \in Seq(Tasks)
    BY <1>3, <2>1, AppendProperties DEF OnJoinMessage
  <2> QED BY <1>3, <2>3, <2>4 DEF OnJoinMessage, mapVars
<1>4. ASSUME NEW s \in Sessions, NEW kind \in RelayKinds,
             NEW to \in Sessions \cup {NoSession}, OnRelayMessage(s, kind, to)
      PROVE  ServerTypeOK'
  <2>1. RelayTask(s, kind, to) \in Tasks
    BY DEF RelayTask, Tasks
  <2>2. relays[s] + 1 \in 0..MaxRelays
    BY <1>4 DEF OnRelayMessage
  <2>3. relays' \in [Sessions -> 0..MaxRelays]
    BY <1>4, <2>2 DEF OnRelayMessage
  <2>4. runner' \in Seq(Tasks)
    BY <1>4, <2>1, AppendProperties DEF OnRelayMessage
  <2> QED BY <1>4, <2>3, <2>4 DEF OnRelayMessage, mapVars
<1>5. CASE AddSocket
  <2>1. Head(runner).user \in Users
    BY <1>5, HeadTask DEF AddSocket, Take, Tasks
  <2> QED BY <1>5, <2>1, HeadTask DEF AddSocket, Take
<1>6. CASE CloseNeverJoined
  BY <1>6, HeadTask DEF CloseNeverJoined, Take
<1>7. CASE CloseJoined
  <2> DEFINE s == Head(runner).s
             room == roomList[s]
  <2>1. s \in Sessions /\ room \in Rooms /\ runner' \in Seq(Tasks)
    BY <1>7, HeadTask DEF CloseJoined, Take
  <2>2. RemovePeerFrame(s) \in Frames
    BY <2>1 DEF RemovePeerFrame, Frames
  <2>3. inbox' \in [Sessions -> Seq(Frames)]
    BY <1>7, <2>1, <2>2, BroadcastType DEF CloseJoined
  <2>4. RemoveFirst(rooms[room], s) \in Seq(Sessions)
    BY <2>1, RemoveFirstMembers
  <2>5. CASE BroadcastThrows(rooms[room], s)
    BY <1>7, <2>1, <2>3, <2>5 DEF CloseJoined
  <2>6. CASE ~BroadcastThrows(rooms[room], s)
    <3>1. RemoveSocket(s, room) /\ failed' = failed
      BY <1>7, <2>6 DEF CloseJoined
    <3> QED BY <1>7, <2>1, <2>3, <2>4, <3>1 DEF CloseJoined, RemoveSocket
  <2> QED BY <2>5, <2>6
<1>8. CASE Join
  <2> DEFINE s == Head(runner).s
             room == RoomNumber(Head(runner).room)
             ids == ToSet(rooms[room]) \ {s}
             announced == Broadcast(inbox, rooms[room], s, NewPeerFrame(s))
  <2>1. s \in Sessions /\ room \in Rooms /\ runner' \in Seq(Tasks)
    BY <1>8, HeadTask DEF Join, Take, Tasks, RoomNumber
  <2>2. NewPeerFrame(s) \in Frames
    BY <2>1 DEF NewPeerFrame, Frames
  <2>3. announced \in [Sessions -> Seq(Frames)]
    BY <2>1, <2>2, BroadcastType
  <2>4. CASE BroadcastThrows(rooms[room], s)
    BY <1>8, <2>1, <2>3, <2>4 DEF Join
  <2>5. CASE ~BroadcastThrows(rooms[room], s)
    <3>1. PeersFrame(s, ids) \in Frames
      BY <2>1, LenProperties DEF PeersFrame, Frames, ToSet
    <3> HIDE DEF announced, ids
    <3>2. Send(announced, s, PeersFrame(s, ids)) \in [Sessions -> Seq(Frames)]
      BY <2>1, <2>3, <3>1, SendType
    <3>3. Append(rooms[room], s) \in Seq(Sessions)
      BY <2>1, AppendProperties
    <3>4. /\ Enter(s, room)
          /\ inbox' = Send(announced, s, PeersFrame(s, ids))
          /\ failed' = IF CanSend(s) THEN failed
                       ELSE failed \cup {<<"join", s>>}
      BY <1>8, <2>5 DEF Join, announced, ids
    <3>5. inbox' \in [Sessions -> Seq(Frames)]
      BY <3>2, <3>4, Zenon
    <3>6. /\ rooms' \in [Rooms -> Seq(Sessions)]
          /\ roomList' \in [Sessions -> Rooms \cup {NoRoom}]
      BY <2>1, <3>3, <3>4 DEF Enter
    <3>7. failed' \in SUBSET ({"join", "close"} \X Sessions)
      BY <2>1, <3>4
    <3> QED BY <1>8, <2>1, <3>5, <3>6, <3>7 DEF Join
  <2> QED BY <2>4, <2>5
<1>9. CASE Relay
  <2> DEFINE task == Head(runner)
  <2>1. task.s \in Sessions /\ runner' \in Seq(Tasks)
    BY <1>9, HeadTask DEF Relay, Take
  <2>2. RelayFrame(task.kind, task.s) \in Frames
    BY <1>9, <2>1, HeadTask DEF Relay, Take, Tasks, RelayFrame, Frames
  <2>3. inbox' \in [Sessions -> Seq(Frames)]
    BY <1>9, <2>1, <2>2, SendType DEF Relay
  <2> QED BY <1>9, <2>1, <2>3 DEF Relay, mapVars
<1>10. CASE UNCHANGED serverVars
  BY <1>10 DEF serverVars
<1> QED BY <1>1, <1>2, <1>3, <1>4, <1>5, <1>6, <1>7, <1>8, <1>9, <1>10
        DEF ServerNext, Container, Runner

\* Type correctness of the signalling server: whatever clients connect, join,
\* relay and close, for any numbers of sessions, rooms and users, onOpen,
\* onMessage, onClose and the tasks they submit keep the maps, the inboxes and
\* the runner's queue well formed; in particular every frame names its sender.
THEOREM ServerTypeCorrect == ServerSpec => []ServerTypeOK
<1>1. ServerInit => ServerTypeOK
  BY ServerAssumption, EmptySeq DEF ServerInit, ServerTypeOK
<1> QED BY <1>1, TypeStep, PTL DEF ServerSpec

-----------------------------------------------------------------------------
\* removeSocket takes nobody but the leaver out of a room.
LEMMA ToSetRemoveFirst ==
    ASSUME NEW S, NEW q \in Seq(S), NEW e, NEW x \in ToSet(q), x # e
    PROVE  x \in ToSet(RemoveFirst(q, e))
<1>1. PICK j \in DOMAIN q : q[j] = x
  BY DEF ToSet
<1>2. \E i \in DOMAIN RemoveFirst(q, e) : RemoveFirst(q, e)[i] = q[j]
  BY <1>1, RemoveFirstMembers
<1> QED BY <1>1, <1>2 DEF ToSet

\* join puts exactly the newcomer into a room.
LEMMA ToSetAppend ==
    ASSUME NEW S, NEW q \in Seq(S), NEW e \in S
    PROVE  ToSet(Append(q, e)) = ToSet(q) \cup {e}
<1> DEFINE r == Append(q, e)
           n == Len(q)
<1>1. /\ n \in Nat
      /\ DOMAIN q = 1..n
      /\ DOMAIN r = 1..(n + 1)
      /\ r[n + 1] = e
      /\ \A i \in 1..n : r[i] = q[i]
  BY AppendShape
<1> HIDE DEF r, n
<1>2. ToSet(r) = ToSet(q) \cup {e}
  BY <1>1 DEF ToSet
<1> QED BY <1>2 DEF r

\* RoomListBacked is inductive: join writes rooms and roomList for the same
\* room, and removeSocket clears what it removes.
LEMMA BackedStep ==
    ServerTypeOK /\ RoomListBacked /\ [ServerNext]_serverVars => RoomListBacked'
<1> SUFFICES ASSUME ServerTypeOK, RoomListBacked, [ServerNext]_serverVars,
                    NEW t \in Sessions, roomList'[t] # NoRoom
             PROVE  t \in ToSet(rooms'[roomList'[t]])
  BY DEF RoomListBacked
<1> USE ServerAssumption
<1>0. /\ rooms \in [Rooms -> Seq(Sessions)]
      /\ roomList \in [Sessions -> Rooms \cup {NoRoom}]
  BY DEF ServerTypeOK
<1>1. CASE UNCHANGED <<rooms, roomList>>
  BY <1>1 DEF RoomListBacked
<1>2. CASE CloseJoined
  <2> DEFINE s == Head(runner).s
             room == roomList[s]
  <2>1. s \in Sessions /\ room \in Rooms
    BY <1>0, <1>2, HeadTask DEF CloseJoined, Take
  <2>2. UNCHANGED <<rooms, roomList>> \/ RemoveSocket(s, room)
    BY <1>2 DEF CloseJoined
  <2> HIDE DEF s, room
  <2>3. CASE RemoveSocket(s, room)
    <3>1. t # s /\ roomList'[t] = roomList[t]
      BY <1>0, <2>1, <2>3 DEF RemoveSocket
    <3>2. t \in ToSet(rooms[roomList[t]])
      BY <3>1 DEF RoomListBacked
    <3>3. CASE roomList[t] = room
      <4>1. rooms'[room] = RemoveFirst(rooms[room], s)
        BY <1>0, <2>1, <2>3 DEF RemoveSocket
      <4>2. rooms[room] \in Seq(Sessions)
        BY <1>0, <2>1
      <4> QED BY <3>1, <3>2, <3>3, <4>1, <4>2, ToSetRemoveFirst
    <3>4. CASE roomList[t] # room
      BY <1>0, <2>1, <2>3, <3>1, <3>2, <3>4 DEF RemoveSocket
    <3> QED BY <3>3, <3>4
  <2> QED BY <1>1, <2>2, <2>3
<1>3. CASE Join
  <2> DEFINE s == Head(runner).s
             room == RoomNumber(Head(runner).room)
  <2>1. s \in Sessions /\ room \in Rooms
    BY <1>3, HeadTask DEF Join, Take, Tasks, RoomNumber
  <2>2. UNCHANGED <<rooms, roomList>> \/ Enter(s, room)
    BY <1>3 DEF Join
  <2> HIDE DEF s, room
  <2>3. CASE Enter(s, room)
    <3>1. rooms[room] \in Seq(Sessions) /\ rooms'[room] = Append(rooms[room], s)
      BY <1>0, <2>1, <2>3 DEF Enter
    <3>2. ToSet(rooms'[room]) = ToSet(rooms[room]) \cup {s}
      BY <2>1, <3>1, ToSetAppend
    <3>3. \A r \in Rooms \ {room} : rooms'[r] = rooms[r]
      BY <1>0, <2>3 DEF Enter
    <3>4. roomList' = [roomList EXCEPT ![s] = room]
      BY <2>3 DEF Enter
    <3> QED BY <1>0, <2>1, <3>2, <3>3, <3>4 DEF RoomListBacked
  <2> QED BY <1>1, <2>2, <2>3
<1> QED
  BY <1>1, <1>2, <1>3
     DEF ServerNext, Container, Runner, OnOpen, OnClose, OnJoinMessage,
         OnRelayMessage, AddSocket, CloseNeverJoined, Relay, mapVars, serverVars

\* The room roomList gives for a session always lists it, however often and
\* where sessions join: rooms.get(room) in onClose (line 84) and in removeSocket
\* (line 175) never meets a missing room for a session that has joined.
THEOREM RoomListAlwaysBacked == ServerSpec => []RoomListBacked
<1>1. ServerInit => ServerTypeOK
  BY ServerAssumption, EmptySeq DEF ServerInit, ServerTypeOK
<1>2. ServerInit => RoomListBacked
  BY DEF ServerInit, RoomListBacked
<1> QED BY <1>1, <1>2, TypeStep, BackedStep, PTL DEF ServerSpec

-----------------------------------------------------------------------------
\* No element occurs twice.
Distinct(q) == \A i, j \in DOMAIN q : q[i] = q[j] => i = j

\* Appending an element that is not there keeps a sequence free of repetitions.
LEMMA DistinctAppend ==
    ASSUME NEW S, NEW q \in Seq(S), NEW e \in S, Distinct(q), e \notin ToSet(q)
    PROVE  Distinct(Append(q, e))
<1> DEFINE r == Append(q, e)
           n == Len(q)
<1>1. /\ n \in Nat
      /\ DOMAIN q = 1..n
      /\ DOMAIN r = 1..(n + 1)
      /\ r[n + 1] = e
      /\ \A i \in 1..n : r[i] = q[i]
  BY AppendShape
<1> HIDE DEF r, n
<1>2. \A i \in 1..n : r[i] # e
  BY <1>1 DEF ToSet
<1>3. ASSUME NEW i \in DOMAIN r, NEW j \in DOMAIN r, r[i] = r[j]
      PROVE  i = j
  <2>1. i \in 1..n \/ i = n + 1
    BY <1>1
  <2>2. j \in 1..n \/ j = n + 1
    BY <1>1
  <2> QED BY <1>1, <1>2, <1>3, <2>1, <2>2 DEF Distinct
<1> QED BY <1>3 DEF Distinct, r

\* So does removing one, and it is gone.
LEMMA DistinctRemoveFirst ==
    ASSUME NEW S, NEW q \in Seq(S), NEW e, Distinct(q)
    PROVE  /\ Distinct(RemoveFirst(q, e))
           /\ e \notin ToSet(RemoveFirst(q, e))
BY RemoveFirstDistinct DEF Distinct, ToSet

\* RemoveFirst only shrinks the set of members.
LEMMA RemoveFirstSubset ==
    ASSUME NEW S, NEW q \in Seq(S), NEW e
    PROVE  ToSet(RemoveFirst(q, e)) \subseteq ToSet(q)
<1> DEFINE r == RemoveFirst(q, e)
<1>1. \A i \in DOMAIN r : \E j \in DOMAIN q : r[i] = q[j]
  BY RemoveFirstMembers
<1> HIDE DEF r
<1>2. ToSet(r) \subseteq ToSet(q)
  BY <1>1 DEF ToSet
<1> QED BY <1>2 DEF r

-----------------------------------------------------------------------------
\* No room lists s.
InNoRoom(s) == \A r \in Rooms : s \notin ToSet(rooms[r])

\* A task op of s is waiting for the runner.
Queued(op, s) == \E i \in DOMAIN runner : runner[i].op = op /\ runner[i].s = s

\* The parts of the inductive invariant.  Nobody is in a room twice.
MembersOnce == \A r \in Rooms : Distinct(rooms[r])

\* A member's room is the one roomList gives, it can be routed to, and it has
\* asked to join.
MembersKnown ==
    \A r \in Rooms : \A s \in ToSet(rooms[r]) :
        roomList[s] = r /\ s \in sockets /\ joins[s] > 0

\* The container closes a session once, and submits nothing for it afterwards.
CloseIsLast ==
    \A i \in DOMAIN runner :
        runner[i].op = "close" =>
            /\ conn[runner[i].s] = "closed"
            /\ \A j \in DOMAIN runner : i < j => runner[j].s # runner[i].s

\* A join is never run before the open of its session: either the session is in
\* `sockets' or its open task is ahead in the queue.
OpenIsFirst ==
    \A i \in DOMAIN runner :
        runner[i].op = "join" =>
            \/ runner[i].s \in sockets
            \/ \E j \in DOMAIN runner :
                   j < i /\ runner[j].op = "open" /\ runner[j].s = runner[i].s

\* The same before the join has been submitted.
OpenIsKnown ==
    \A s \in Sessions :
        conn[s] = "open" => s \in sockets \/ Queued("open", s)

\* A join that waits is the only one of its session, which is in no room yet.
JoinIsOnce ==
    \A i \in DOMAIN runner :
        runner[i].op = "join" =>
            /\ joins[runner[i].s] > 0
            /\ InNoRoom(runner[i].s)
            /\ \A j \in DOMAIN runner :
                  runner[j].op = "join" /\ runner[j].s = runner[i].s => i = j

\* A closed session has its close task ahead of it, or nothing ahead of it: then
\* it is in no room, or its close task failed.
GhostsExplained ==
    \A s \in Sessions :
        conn[s] = "closed" =>
            \/ Queued("close", s)
            \/ /\ \A i \in DOMAIN runner : runner[i].s # s
               /\ InNoRoom(s) \/ <<"close", s>> \in failed

QueueInv ==
    CloseIsLast /\ OpenIsFirst /\ OpenIsKnown /\ JoinIsOnce /\ GhostsExplained

MembershipInv == ServerTypeOK /\ MembersOnce /\ MembersKnown /\ QueueInv

\* The queue after runner.submit: the old tasks in place and a last one.
LEMMA AppendQueue ==
    ASSUME ServerTypeOK, NEW task \in Tasks, runner' = Append(runner, task)
    PROVE  \E n \in Nat :
             /\ n \in DOMAIN runner' /\ runner'[n] = task
             /\ \A i \in DOMAIN runner :
                   i \in DOMAIN runner' /\ runner'[i] = runner[i] /\ i < n
             /\ \A i \in DOMAIN runner' :
                   i = n \/ (i \in DOMAIN runner /\ i < n)
             /\ \A i \in DOMAIN runner' : i \in Nat
<1> DEFINE r == Append(runner, task)
           n == Len(runner) + 1
<1>1. runner \in Seq(Tasks)
  BY DEF ServerTypeOK
<1>2. /\ Len(runner) \in Nat
      /\ DOMAIN runner = 1..Len(runner)
      /\ DOMAIN r = 1..(Len(runner) + 1)
      /\ r[Len(runner) + 1] = task
      /\ \A i \in DOMAIN runner : r[i] = runner[i]
  BY <1>1, AppendShape
<1>3. runner' = r
  OBVIOUS
<1> HIDE DEF r
<1> WITNESS n \in Nat
<1> QED BY <1>2, <1>3

\* The queue after the runner took a task: every task one place further on.
LEMMA TakeQueue ==
    ASSUME ServerTypeOK, Take
    PROVE  /\ 1 \in DOMAIN runner /\ runner[1] = Head(runner)
           /\ \A i \in DOMAIN runner' :
                 /\ i \in Nat /\ i >= 1
                 /\ i + 1 \in DOMAIN runner
                 /\ runner'[i] = runner[i + 1]
           /\ \A i \in DOMAIN runner :
                 \/ i = 1
                 \/ /\ i \in Nat
                    /\ i - 1 \in DOMAIN runner'
                    /\ runner'[i - 1] = runner[i]
                    /\ 1 < i
<1>1. runner \in Seq(Tasks) /\ runner # << >> /\ runner' = Tail(runner)
  BY DEF ServerTypeOK, Take
<1>2. /\ Tail(runner) \in Seq(Tasks)
      /\ Len(Tail(runner)) = Len(runner) - 1
      /\ \A i \in 1..Len(Tail(runner)) : Tail(runner)[i] = runner[i + 1]
  BY <1>1, HeadTailProperties
<1>3. /\ Len(runner) \in Nat \ {0}
      /\ DOMAIN runner = 1..Len(runner)
      /\ DOMAIN Tail(runner) = 1..Len(Tail(runner))
  BY <1>1, <1>2, LenProperties, EmptySeq
<1>4. Head(runner) = runner[1]
  BY <1>1
<1>5. /\ DOMAIN runner' = 1..(Len(runner) - 1)
      /\ \A i \in 1..(Len(runner) - 1) : runner'[i] = runner[i + 1]
  BY <1>1, <1>2, <1>3
<1>6. \A i \in DOMAIN runner :
         i # 1 => /\ i \in Nat /\ 1 < i
                  /\ i - 1 \in DOMAIN runner'
                  /\ (i - 1) + 1 = i
  BY <1>3, <1>5
<1>7. \A i \in DOMAIN runner : i # 1 => runner'[i - 1] = runner[i]
  BY <1>5, <1>6
<1> QED BY <1>3, <1>4, <1>5, <1>6, <1>7

\* What onOpen, onClose and onMessage have in common: they submit one task and
\* leave the maps alone, so they keep the membership invariant.
LEMMA ContainerStep ==
    ASSUME MembershipInv, MaxJoins <= 1,
           NEW s \in Sessions, NEW task \in Tasks,
           task.s = s,
           runner' = Append(runner, task),
           conn' \in [Sessions -> {"idle", "open", "closed"}],
           \A x \in Sessions : x # s => conn'[x] = conn[x],
           conn[s] # "closed",
           task.op = "close" <=> conn'[s] = "closed",
           task.op # "open" => conn[s] = "open",
           joins' \in [Sessions -> 0..MaxJoins],
           \A x \in Sessions : joins'[x] >= joins[x],
           task.op = "join" => joins[s] = 0 /\ joins'[s] > 0,
           UNCHANGED <<sockets, rooms, roomList, failed>>
    PROVE  MembersOnce' /\ MembersKnown' /\ QueueInv'
<1>1. PICK n \in Nat :
         /\ n \in DOMAIN runner' /\ runner'[n] = task
         /\ \A i \in DOMAIN runner :
               i \in DOMAIN runner' /\ runner'[i] = runner[i] /\ i < n
         /\ \A i \in DOMAIN runner' :
               i = n \/ (i \in DOMAIN runner /\ i < n)
         /\ \A i \in DOMAIN runner' : i \in Nat
  BY AppendQueue DEF MembershipInv
<1>2. \A i \in DOMAIN runner : runner[i].s \in Sessions
  <2>1. \A i \in DOMAIN runner : runner[i] \in Tasks
    BY LenProperties, ElementOfSeq DEF MembershipInv, ServerTypeOK
  <2> QED BY <2>1 DEF Tasks
<1>3. /\ joins \in [Sessions -> 0..MaxJoins]
      /\ conn \in [Sessions -> {"idle", "open", "closed"}]
      /\ MaxJoins \in Nat
      /\ rooms \in [Rooms -> Seq(Sessions)]
  BY ServerAssumption DEF MembershipInv, ServerTypeOK
<1>4. \A x \in Sessions : InNoRoom(x)' = InNoRoom(x)
  BY DEF InNoRoom
<1>5. MembersOnce'
  BY DEF MembershipInv, MembersOnce
<1>6. MembersKnown'
  <2> SUFFICES ASSUME NEW r \in Rooms, NEW x \in ToSet(rooms[r])
               PROVE  roomList[x] = r /\ x \in sockets /\ joins'[x] > 0
    BY DEF MembersKnown
  <2>1. x \in Sessions
    BY <1>3, LenProperties, ElementOfSeq DEF ToSet
  <2>2. roomList[x] = r /\ x \in sockets /\ joins[x] > 0
    BY DEF MembershipInv, MembersKnown
  <2> QED BY <1>3, <2>1, <2>2
<1>7. CloseIsLast'
  <2> SUFFICES ASSUME NEW i \in DOMAIN runner', runner'[i].op = "close"
               PROVE  /\ conn'[runner'[i].s] = "closed"
                      /\ \A j \in DOMAIN runner' :
                            i < j => runner'[j].s # runner'[i].s
    BY DEF CloseIsLast
  <2>1. CASE i = n
    BY <1>1, <2>1
  <2>2. CASE i \in DOMAIN runner /\ i < n
    <3>1. /\ runner'[i] = runner[i]
          /\ conn[runner[i].s] = "closed"
          /\ \A j \in DOMAIN runner : i < j => runner[j].s # runner[i].s
      BY <1>1, <2>2 DEF MembershipInv, QueueInv, CloseIsLast
    <3>2. runner[i].s # s /\ conn'[runner[i].s] = conn[runner[i].s]
      BY <1>2, <2>2, <3>1
    <3> QED BY <1>1, <3>1, <3>2
  <2> QED BY <1>1, <2>1, <2>2
<1>8. OpenIsFirst'
  <2> SUFFICES ASSUME NEW i \in DOMAIN runner', runner'[i].op = "join"
               PROVE  \/ runner'[i].s \in sockets
                      \/ \E j \in DOMAIN runner' :
                             /\ j < i
                             /\ runner'[j].op = "open"
                             /\ runner'[j].s = runner'[i].s
    BY DEF OpenIsFirst
  <2>1. CASE i = n
    <3>1. s \in sockets \/ Queued("open", s)
      BY <1>1, <2>1 DEF MembershipInv, QueueInv, OpenIsKnown
    <3> QED BY <1>1, <2>1, <3>1 DEF Queued
  <2>2. CASE i \in DOMAIN runner /\ i < n
    <3>1. \/ runner[i].s \in sockets
          \/ \E j \in DOMAIN runner :
                j < i /\ runner[j].op = "open" /\ runner[j].s = runner[i].s
      BY <1>1, <2>2 DEF MembershipInv, QueueInv, OpenIsFirst
    <3> QED BY <1>1, <2>2, <3>1
  <2> QED BY <1>1, <2>1, <2>2
<1>9. OpenIsKnown'
  <2> SUFFICES ASSUME NEW x \in Sessions, conn'[x] = "open"
               PROVE  x \in sockets \/ Queued("open", x)'
    BY DEF OpenIsKnown
  <2>1. CASE conn[x] = "open"
    <3>1. x \in sockets \/ Queued("open", x)
      BY <2>1 DEF MembershipInv, QueueInv, OpenIsKnown
    <3> QED BY <1>1, <3>1 DEF Queued
  <2>2. CASE conn[x] # "open"
    <3>1. x = s /\ task.op = "open"
      BY <2>2
    <3> QED BY <1>1, <3>1 DEF Queued
  <2> QED BY <2>1, <2>2
<1>10. JoinIsOnce'
  <2> SUFFICES ASSUME NEW i \in DOMAIN runner', runner'[i].op = "join"
               PROVE  /\ joins'[runner'[i].s] > 0
                      /\ \A r \in Rooms : runner'[i].s \notin ToSet(rooms'[r])
                      /\ \A j \in DOMAIN runner' :
                            /\ runner'[j].op = "join"
                            /\ runner'[j].s = runner'[i].s
                            => i = j
    BY DEF JoinIsOnce, InNoRoom
  <2>0. task.op = "join" =>
           \A k \in DOMAIN runner : runner[k].op = "join" => runner[k].s # s
    BY <1>3 DEF MembershipInv, QueueInv, JoinIsOnce
  <2>1. CASE i = n
    <3>1. InNoRoom(s)
      BY <1>1, <1>3, <2>1 DEF MembershipInv, MembersKnown, InNoRoom
    <3> QED BY <1>1, <2>0, <2>1, <3>1 DEF InNoRoom
  <2>2. CASE i \in DOMAIN runner /\ i < n
    <3> DEFINE x == runner[i].s
    <3>1. /\ runner'[i] = runner[i]
          /\ x \in Sessions
          /\ joins[x] > 0
          /\ InNoRoom(x)
          /\ \A j \in DOMAIN runner :
                runner[j].op = "join" /\ runner[j].s = x => i = j
      BY <1>1, <1>2, <2>2 DEF MembershipInv, QueueInv, JoinIsOnce
    <3> HIDE DEF x
    <3>2. joins'[x] > 0
      BY <1>3, <3>1
    <3>3. task.op = "join" => s # x
      BY <2>0, <2>2, <1>1 DEF x
    <3> QED BY <1>1, <3>1, <3>2, <3>3 DEF x, InNoRoom
  <2> QED BY <1>1, <2>1, <2>2
<1>11. GhostsExplained'
  <2> SUFFICES ASSUME NEW x \in Sessions, conn'[x] = "closed"
               PROVE  \/ Queued("close", x)'
                      \/ /\ \A i \in DOMAIN runner' : runner'[i].s # x
                         /\ InNoRoom(x)' \/ <<"close", x>> \in failed
    BY DEF GhostsExplained
  <2>1. CASE x = s
    BY <1>1, <2>1 DEF Queued
  <2>2. CASE x # s
    <3>1. \/ Queued("close", x)
          \/ /\ \A i \in DOMAIN runner : runner[i].s # x
             /\ InNoRoom(x) \/ <<"close", x>> \in failed
      BY <2>2 DEF MembershipInv, QueueInv, GhostsExplained
    <3> QED BY <1>1, <1>4, <2>2, <3>1 DEF Queued
  <2> QED BY <2>1, <2>2
<1> QED BY <1>5, <1>6, <1>7, <1>8, <1>9, <1>10, <1>11 DEF QueueInv

\* What every task of the runner has to respect for the queue part of the
\* membership invariant: it forgets only the session it closes, it puts only the
\* session that joins into a room, and a close either empties the rooms of its
\* session or is recorded as failed.
LEMMA RunnerQueueStep ==
    ASSUME MembershipInv, Take,
           NEW s, NEW op, s = Head(runner).s, op = Head(runner).op,
           UNCHANGED <<conn, joins>>,
           \A x \in sockets : (x = s /\ op = "close") \/ x \in sockets',
           op = "open" => s \in sockets',
           \A x \in Sessions :
              InNoRoom(x) /\ (x # s \/ op # "join") => InNoRoom(x)',
           failed \subseteq failed',
           op = "close" => InNoRoom(s)' \/ <<"close", s>> \in failed'
    PROVE  QueueInv'
<1>1. /\ 1 \in DOMAIN runner /\ runner[1].s = s /\ runner[1].op = op
      /\ \A i \in DOMAIN runner' :
            /\ i \in Nat /\ i >= 1
            /\ i + 1 \in DOMAIN runner
            /\ runner'[i] = runner[i + 1]
      /\ \A i \in DOMAIN runner :
            \/ i = 1
            \/ /\ i \in Nat
               /\ i - 1 \in DOMAIN runner'
               /\ runner'[i - 1] = runner[i]
               /\ 1 < i
  BY TakeQueue DEF MembershipInv
<1>2. \A i \in DOMAIN runner : runner[i].s \in Sessions
  <2>1. \A i \in DOMAIN runner : runner[i] \in Tasks
    BY LenProperties, ElementOfSeq DEF MembershipInv, ServerTypeOK
  <2> QED BY <2>1 DEF Tasks
<1>3. op = "close" => /\ conn[s] = "closed"
                      /\ \A i \in DOMAIN runner' : runner'[i].s # s
  <2>1. \A i \in DOMAIN runner' : 1 < i + 1
    BY <1>1
  <2> QED BY <1>1, <2>1 DEF MembershipInv, QueueInv, CloseIsLast
<1>4. CloseIsLast'
  <2> SUFFICES ASSUME NEW i \in DOMAIN runner', runner'[i].op = "close"
               PROVE  /\ conn[runner'[i].s] = "closed"
                      /\ \A j \in DOMAIN runner' :
                            i < j => runner'[j].s # runner'[i].s
    BY DEF CloseIsLast
  <2>1. /\ conn[runner[i + 1].s] = "closed"
        /\ \A j \in DOMAIN runner : i + 1 < j => runner[j].s # runner[i + 1].s
    BY <1>1 DEF MembershipInv, QueueInv, CloseIsLast
  <2>2. \A j \in DOMAIN runner' : i < j => i + 1 < j + 1
    BY <1>1
  <2> QED BY <1>1, <2>1, <2>2
<1>5. OpenIsFirst'
  <2> SUFFICES ASSUME NEW i \in DOMAIN runner', runner'[i].op = "join"
               PROVE  \/ runner'[i].s \in sockets'
                      \/ \E j \in DOMAIN runner' :
                             /\ j < i
                             /\ runner'[j].op = "open"
                             /\ runner'[j].s = runner'[i].s
    BY DEF OpenIsFirst
  <2>1. \/ runner[i + 1].s \in sockets
        \/ \E j \in DOMAIN runner :
               /\ j < i + 1
               /\ runner[j].op = "open"
               /\ runner[j].s = runner[i + 1].s
    BY <1>1 DEF MembershipInv, QueueInv, OpenIsFirst
  <2>2. CASE runner[i + 1].s \in sockets
    BY <1>1, <1>3, <2>2
  <2>3. ASSUME NEW j \in DOMAIN runner, j < i + 1, runner[j].op = "open",
               runner[j].s = runner[i + 1].s
        PROVE  \/ runner'[i].s \in sockets'
               \/ \E k \in DOMAIN runner' :
                      /\ k < i
                      /\ runner'[k].op = "open"
                      /\ runner'[k].s = runner'[i].s
    <3>1. CASE j = 1
      BY <1>1, <2>3, <3>1
    <3>2. CASE j # 1
      <4>1. j \in Nat /\ j - 1 \in DOMAIN runner' /\ runner'[j - 1] = runner[j]
        BY <1>1, <3>2
      <4>2. j - 1 < i
        BY <1>1, <2>3, <4>1
      <4> QED BY <1>1, <2>3, <4>1, <4>2
    <3> QED BY <3>1, <3>2
  <2> QED BY <2>1, <2>2, <2>3
<1>6. OpenIsKnown'
  <2> SUFFICES ASSUME NEW x \in Sessions, conn[x] = "open"
               PROVE  x \in sockets' \/ Queued("open", x)'
    BY DEF OpenIsKnown
  <2>1. x \in sockets \/ Queued("open", x)
    BY DEF MembershipInv, QueueInv, OpenIsKnown
  <2>2. CASE x \in sockets
    BY <1>3, <2>2
  <2>3. CASE Queued("open", x)
    <3>1. PICK j \in DOMAIN runner : runner[j].op = "open" /\ runner[j].s = x
      BY <2>3 DEF Queued
    <3> QED BY <1>1, <3>1 DEF Queued
  <2> QED BY <2>1, <2>2, <2>3
<1>7. JoinIsOnce'
  <2> SUFFICES ASSUME NEW i \in DOMAIN runner', runner'[i].op = "join"
               PROVE  /\ joins[runner'[i].s] > 0
                      /\ \A r \in Rooms : runner'[i].s \notin ToSet(rooms'[r])
                      /\ \A j \in DOMAIN runner' :
                            /\ runner'[j].op = "join"
                            /\ runner'[j].s = runner'[i].s
                            => i = j
    BY DEF JoinIsOnce, InNoRoom
  <2> DEFINE x == runner[i + 1].s
  <2>1. /\ runner'[i] = runner[i + 1]
        /\ x \in Sessions
        /\ joins[x] > 0
        /\ InNoRoom(x)
        /\ \A j \in DOMAIN runner :
              runner[j].op = "join" /\ runner[j].s = x => i + 1 = j
    BY <1>1, <1>2 DEF MembershipInv, QueueInv, JoinIsOnce
  <2> HIDE DEF x
  <2>2. x # s \/ op # "join"
    <3>1. i + 1 # 1
      BY <1>1
    <3> QED BY <1>1, <2>1, <3>1
  <2>3. \A r \in Rooms : x \notin ToSet(rooms'[r])
    BY <2>1, <2>2 DEF InNoRoom
  <2>4. \A j \in DOMAIN runner' : i + 1 = j + 1 => i = j
    BY <1>1
  <2> QED BY <1>1, <2>1, <2>3, <2>4 DEF x
<1>8. GhostsExplained'
  <2> SUFFICES ASSUME NEW x \in Sessions, conn[x] = "closed"
               PROVE  \/ Queued("close", x)'
                      \/ /\ \A i \in DOMAIN runner' : runner'[i].s # x
                         /\ InNoRoom(x)' \/ <<"close", x>> \in failed'
    BY DEF GhostsExplained
  <2>1. \/ Queued("close", x)
        \/ /\ \A i \in DOMAIN runner : runner[i].s # x
           /\ InNoRoom(x) \/ <<"close", x>> \in failed
    BY DEF MembershipInv, QueueInv, GhostsExplained
  <2>2. CASE Queued("close", x)
    <3>1. PICK j \in DOMAIN runner : runner[j].op = "close" /\ runner[j].s = x
      BY <2>2 DEF Queued
    <3>2. CASE j = 1
      BY <1>1, <1>3, <3>1, <3>2
    <3>3. CASE j # 1
      BY <1>1, <3>1, <3>3 DEF Queued
    <3> QED BY <3>2, <3>3
  <2>3. CASE /\ \A i \in DOMAIN runner : runner[i].s # x
             /\ InNoRoom(x) \/ <<"close", x>> \in failed
    BY <1>1, <2>3
  <2> QED BY <2>1, <2>2, <2>3
<1> QED BY <1>4, <1>5, <1>6, <1>7, <1>8 DEF QueueInv

\* A task that leaves rooms and roomList alone keeps the membership part.
LEMMA RoomUnchanged ==
    ASSUME MembershipInv, UNCHANGED <<rooms, roomList, joins>>,
           \A x \in sockets : InNoRoom(x) \/ x \in sockets'
    PROVE  /\ MembersOnce' /\ MembersKnown'
           /\ \A x \in Sessions : InNoRoom(x) => InNoRoom(x)'
BY DEF MembershipInv, MembersOnce, MembersKnown, InNoRoom

\* So does entering a room, for a session that is in none.
LEMMA RoomEntered ==
    ASSUME MembershipInv, NEW s \in Sessions, NEW room \in Rooms,
           Enter(s, room), InNoRoom(s), s \in sockets, joins[s] > 0,
           UNCHANGED <<sockets, joins>>
    PROVE  /\ MembersOnce' /\ MembersKnown'
           /\ \A x \in Sessions : InNoRoom(x) /\ x # s => InNoRoom(x)'
<1>1. /\ rooms \in [Rooms -> Seq(Sessions)]
      /\ roomList \in [Sessions -> Rooms \cup {NoRoom}]
  BY DEF MembershipInv, ServerTypeOK
<1>2. /\ rooms[room] \in Seq(Sessions)
      /\ rooms'[room] = Append(rooms[room], s)
      /\ \A r \in Rooms : r # room => rooms'[r] = rooms[r]
  BY <1>1 DEF Enter
<1>3. s \notin ToSet(rooms[room]) /\ Distinct(rooms[room])
  BY DEF InNoRoom, MembershipInv, MembersOnce
<1>4. Distinct(rooms'[room])
  BY <1>2, <1>3, DistinctAppend
<1>5. ToSet(rooms'[room]) = ToSet(rooms[room]) \cup {s}
  BY <1>2, ToSetAppend
<1>6. MembersOnce'
  BY <1>2, <1>4 DEF MembershipInv, MembersOnce
<1>7. MembersKnown'
  <2> SUFFICES ASSUME NEW r \in Rooms, NEW x \in ToSet(rooms'[r])
               PROVE  roomList'[x] = r /\ x \in sockets /\ joins[x] > 0
    BY DEF MembersKnown
  <2>1. roomList' = [roomList EXCEPT ![s] = room]
    BY DEF Enter
  <2>2. CASE x = s
    <3>1. r = room
      BY <1>2, <2>2 DEF InNoRoom
    <3> QED BY <1>1, <2>1, <2>2, <3>1
  <2>3. CASE x # s
    <3>1. x \in ToSet(rooms[r])
      BY <1>2, <1>5, <2>3
    <3>2. roomList[x] = r /\ x \in sockets /\ joins[x] > 0
      BY <3>1 DEF MembershipInv, MembersKnown
    <3>3. x \in Sessions
      BY <3>2 DEF MembershipInv, ServerTypeOK
    <3> QED BY <1>1, <2>1, <2>3, <3>2, <3>3
  <2> QED BY <2>2, <2>3
<1>8. \A x \in Sessions : InNoRoom(x) /\ x # s => InNoRoom(x)'
  BY <1>2, <1>5 DEF InNoRoom
<1> QED BY <1>6, <1>7, <1>8

\* And so does removeSocket, after which the session is in no room.
LEMMA RoomLeft ==
    ASSUME MembershipInv, NEW s \in Sessions, NEW room \in Rooms,
           room = roomList[s], RemoveSocket(s, room), UNCHANGED joins
    PROVE  /\ MembersOnce' /\ MembersKnown' /\ InNoRoom(s)'
           /\ \A x \in Sessions : InNoRoom(x) => InNoRoom(x)'
<1>1. /\ rooms \in [Rooms -> Seq(Sessions)]
      /\ roomList \in [Sessions -> Rooms \cup {NoRoom}]
  BY DEF MembershipInv, ServerTypeOK
<1>2. /\ rooms[room] \in Seq(Sessions)
      /\ rooms'[room] = RemoveFirst(rooms[room], s)
      /\ \A r \in Rooms : r # room => rooms'[r] = rooms[r]
      /\ sockets' = sockets \ {s}
  BY <1>1 DEF RemoveSocket
<1>3. Distinct(rooms[room])
  BY DEF MembershipInv, MembersOnce
<1>4. Distinct(rooms'[room]) /\ s \notin ToSet(rooms'[room])
  BY <1>2, <1>3, DistinctRemoveFirst
<1>5. ToSet(rooms'[room]) \subseteq ToSet(rooms[room])
  BY <1>2, RemoveFirstSubset
<1>6. \A r \in Rooms : r # room => s \notin ToSet(rooms[r])
  BY DEF MembershipInv, MembersKnown
<1>7. InNoRoom(s)'
  BY <1>2, <1>4, <1>6 DEF InNoRoom
<1>8. MembersOnce'
  BY <1>2, <1>4 DEF MembershipInv, MembersOnce
<1>9. MembersKnown'
  <2> SUFFICES ASSUME NEW r \in Rooms, NEW x \in ToSet(rooms'[r])
               PROVE  roomList'[x] = r /\ x \in sockets' /\ joins[x] > 0
    BY DEF MembersKnown
  <2>1. x \in ToSet(rooms[r])
    BY <1>2, <1>5
  <2>2. x # s
    BY <1>7 DEF InNoRoom
  <2>3. roomList[x] = r /\ x \in sockets /\ joins[x] > 0
    BY <2>1 DEF MembershipInv, MembersKnown
  <2> QED BY <1>1, <1>2, <2>2, <2>3 DEF RemoveSocket
<1>10. \A x \in Sessions : InNoRoom(x) => InNoRoom(x)'
  BY <1>2, <1>5 DEF InNoRoom
<1> QED BY <1>7, <1>8, <1>9, <1>10

\* The membership invariant is inductive when no session joins twice.
LEMMA MembershipStep ==
    ASSUME MaxJoins <= 1, MembershipInv, [ServerNext]_serverVars
    PROVE  MembershipInv'
<1>1. ServerTypeOK /\ ServerTypeOK'
  BY TypeStep DEF MembershipInv
<1> SUFFICES MembersOnce' /\ MembersKnown' /\ QueueInv'
  BY <1>1 DEF MembershipInv
<1>2. /\ conn \in [Sessions -> {"idle", "open", "closed"}]
      /\ conn' \in [Sessions -> {"idle", "open", "closed"}]
      /\ joins \in [Sessions -> 0..MaxJoins]
      /\ joins' \in [Sessions -> 0..MaxJoins]
      /\ MaxJoins \in Nat
      /\ NoRoom \notin Rooms
      /\ roomList \in [Sessions -> Rooms \cup {NoRoom}]
  BY <1>1, ServerAssumption DEF ServerTypeOK
<1>3. ASSUME NEW s \in Sessions, NEW u \in Users, OnOpen(s, u)
      PROVE  MembersOnce' /\ MembersKnown' /\ QueueInv'
  <2> DEFINE task == OpenTask(s, u)
  <2>1. task \in Tasks /\ task.s = s /\ task.op = "open"
    BY DEF OpenTask, Tasks
  <2> HIDE DEF task
  <2> QED BY <1>2, <1>3, <2>1, ContainerStep DEF OnOpen, mapVars, task
<1>4. ASSUME NEW s \in Sessions, OnClose(s)
      PROVE  MembersOnce' /\ MembersKnown' /\ QueueInv'
  <2> DEFINE task == CloseTask(s)
  <2>1. task \in Tasks /\ task.s = s /\ task.op = "close"
    BY DEF CloseTask, Tasks
  <2> HIDE DEF task
  <2> QED BY <1>2, <1>4, <2>1, ContainerStep DEF OnClose, mapVars, task
<1>5. ASSUME NEW s \in Sessions, NEW r \in Rooms \cup {NoRoom},
             OnJoinMessage(s, r)
      PROVE  MembersOnce' /\ MembersKnown' /\ QueueInv'
  <2> DEFINE task == JoinTask(s, r)
  <2>1. task \in Tasks /\ task.s = s /\ task.op = "join"
    BY DEF JoinTask, Tasks
  <2> HIDE DEF task
  <2>2. joins[s] = 0 /\ joins'[s] > 0 /\ \A x \in Sessions : joins'[x] >= joins[x]
    BY <1>2, <1>5 DEF OnJoinMessage
  <2> QED BY <1>2, <1>5, <2>1, <2>2, ContainerStep DEF OnJoinMessage, mapVars, task
<1>6. ASSUME NEW s \in Sessions, NEW kind \in RelayKinds,
             NEW to \in Sessions \cup {NoSession}, OnRelayMessage(s, kind, to)
      PROVE  MembersOnce' /\ MembersKnown' /\ QueueInv'
  <2> DEFINE task == RelayTask(s, kind, to)
  <2>1. task \in Tasks /\ task.s = s /\ task.op = "relay"
    BY DEF RelayTask, Tasks
  <2> HIDE DEF task
  <2> QED BY <1>2, <1>6, <2>1, ContainerStep DEF OnRelayMessage, mapVars, task
<1>7. ASSUME Runner
      PROVE  MembersOnce' /\ MembersKnown' /\ QueueInv'
  <2>1. Take /\ UNCHANGED <<conn, joins>>
    BY <1>7 DEF Runner, AddSocket, CloseNeverJoined, CloseJoined, Join, Relay,
                mapVars
  <2>2. PICK s \in Sessions : s = Head(runner).s
    BY <1>1, <2>1, HeadTask DEF Take
  <2>3. PICK op : op = Head(runner).op
    OBVIOUS
  <2>4. CASE AddSocket
    <3>1. op = "open" /\ sockets' = sockets \cup {s}
      BY <2>2, <2>3, <2>4 DEF AddSocket
    <3>2. UNCHANGED <<rooms, roomList, failed>>
      BY <2>4 DEF AddSocket
    <3> QED BY <2>1, <2>2, <2>3, <3>1, <3>2, RoomUnchanged, RunnerQueueStep
  <2>5. CASE CloseNeverJoined
    <3>1. /\ op = "close" /\ sockets' = sockets \ {s} /\ roomList[s] = NoRoom
          /\ failed' = failed \cup {<<"close", s>>}
      BY <2>2, <2>3, <2>5 DEF CloseNeverJoined
    <3>2. UNCHANGED <<rooms, roomList>>
      BY <2>5 DEF CloseNeverJoined
    <3>3. InNoRoom(s)
      BY <1>2, <3>1 DEF MembershipInv, MembersKnown, InNoRoom
    <3> QED BY <2>1, <2>2, <2>3, <3>1, <3>2, <3>3, RoomUnchanged, RunnerQueueStep
  <2>6. CASE CloseJoined
    <3>1. PICK room \in Rooms : room = roomList[s]
      BY <1>2, <2>2, <2>6 DEF CloseJoined
    <3>2. op = "close"
      BY <2>3, <2>6 DEF CloseJoined
    <3>3. \/ /\ failed' = failed \cup {<<"close", s>>}
             /\ UNCHANGED <<sockets, rooms, roomList>>
          \/ RemoveSocket(s, room) /\ UNCHANGED failed
      BY <2>2, <2>6, <3>1 DEF CloseJoined
    <3>4. CASE /\ failed' = failed \cup {<<"close", s>>}
               /\ UNCHANGED <<sockets, rooms, roomList>>
      BY <2>1, <2>2, <2>3, <3>2, <3>4, RoomUnchanged, RunnerQueueStep
    <3>5. CASE RemoveSocket(s, room) /\ UNCHANGED failed
      <4>1. sockets' = sockets \ {s}
        BY <3>5 DEF RemoveSocket
      <4> QED BY <2>1, <2>2, <2>3, <3>1, <3>2, <3>5, <4>1, RoomLeft,
                 RunnerQueueStep
    <3> QED BY <3>3, <3>4, <3>5
  <2>7. CASE Join
    <3>1. op = "join" /\ UNCHANGED sockets
      BY <2>3, <2>7 DEF Join
    <3>2. 1 \in DOMAIN runner /\ runner[1].s = s /\ runner[1].op = "join"
      BY <1>1, <2>1, <2>2, <2>3, <3>1, TakeQueue
    <3>3. joins[s] > 0 /\ InNoRoom(s)
      BY <3>2 DEF MembershipInv, QueueInv, JoinIsOnce
    <3>4. s \in sockets
      <4>1. DOMAIN runner \subseteq Nat \ {0}
        BY <1>1, LenProperties DEF ServerTypeOK
      <4>2. ~\E j \in DOMAIN runner : j < 1
        BY <4>1
      <4> QED BY <3>2, <4>2 DEF MembershipInv, QueueInv, OpenIsFirst
    <3>5. PICK room \in Rooms : room = RoomNumber(Head(runner).room)
      BY <1>1, <2>1, <2>7, HeadTask, ServerAssumption
         DEF Join, Take, Tasks, RoomNumber
    <3>6. /\ failed \subseteq failed'
          /\ UNCHANGED <<rooms, roomList>> \/ Enter(s, room)
      BY <2>2, <2>7, <3>5 DEF Join
    <3>7. CASE UNCHANGED <<rooms, roomList>>
      BY <2>1, <2>2, <2>3, <3>1, <3>6, <3>7, RoomUnchanged, RunnerQueueStep
    <3>8. CASE Enter(s, room)
      <4>1. /\ MembersOnce' /\ MembersKnown'
            /\ \A x \in Sessions : InNoRoom(x) /\ x # s => InNoRoom(x)'
        BY <2>1, <3>1, <3>3, <3>4, <3>8, RoomEntered
      <4>2. /\ \A x \in sockets : (x = s /\ op = "close") \/ x \in sockets'
            /\ op # "open" /\ op # "close"
        BY <3>1
      <4>3. \A x \in Sessions :
               InNoRoom(x) /\ (x # s \/ op # "join") => InNoRoom(x)'
        BY <3>1, <4>1
      <4>4. QueueInv'
        BY <2>1, <2>2, <2>3, <3>6, <4>2, <4>3, RunnerQueueStep
      <4> QED BY <4>1, <4>4
    <3> QED BY <3>6, <3>7, <3>8
  <2>8. CASE Relay
    <3>1. op = "relay" /\ UNCHANGED <<sockets, rooms, roomList, failed>>
      BY <2>3, <2>8 DEF Relay, mapVars
    <3> QED BY <2>1, <2>2, <2>3, <3>1, RoomUnchanged, RunnerQueueStep
  <2> QED BY <1>7, <2>4, <2>5, <2>6, <2>7, <2>8 DEF Runner
<1>8. CASE UNCHANGED serverVars
  BY <1>8 DEF serverVars, MembershipInv, MembersOnce, MembersKnown, QueueInv,
              CloseIsLast, OpenIsFirst, OpenIsKnown, JoinIsOnce,
              GhostsExplained, InNoRoom, Queued
<1> QED BY <1>3, <1>4, <1>5, <1>6, <1>7, <1>8 DEF ServerNext, Container

\* It holds when the server starts.
LEMMA MembershipStart == ServerInit => MembershipInv
<1> SUFFICES ASSUME ServerInit PROVE MembershipInv
  OBVIOUS
<1>1. ServerTypeOK
  BY ServerAssumption, EmptySeq DEF ServerInit, ServerTypeOK
<1>2. /\ \A r \in Rooms : rooms[r] = << >>
      /\ runner = << >>
      /\ \A s \in Sessions : conn[s] = "idle"
  BY DEF ServerInit
<1>3. MembersOnce /\ MembersKnown
  BY <1>2 DEF MembersOnce, MembersKnown, Distinct, ToSet
<1>4. QueueInv
  BY <1>2 DEF QueueInv, CloseIsLast, OpenIsFirst, OpenIsKnown, JoinIsOnce,
              GhostsExplained
<1> QED BY <1>1, <1>3, <1>4 DEF MembershipInv

\* So it always holds.
LEMMA MembershipAlways ==
    ASSUME MaxJoins <= 1
    PROVE  ServerSpec => []MembershipInv
<1>1. MembershipInv /\ [ServerNext]_serverVars => MembershipInv'
  BY MembershipStep
<1> QED BY <1>1, MembershipStart, PTL DEF ServerSpec

\* When every client joins once, as this client does, the three structures of
\* the server agree for any number of sessions and rooms: a member of a room
\* is in it once, roomList gives that room and getSocket finds the member.
THEOREM OneMembershipHolds ==
    ASSUME MaxJoins <= 1
    PROVE  ServerSpec => []OneMembership
<1>1. MembershipInv => OneMembership
  <2> SUFFICES ASSUME MembershipInv, NEW r \in Rooms, NEW i \in DOMAIN rooms[r]
               PROVE  /\ roomList[rooms[r][i]] = r
                      /\ rooms[r][i] \in sockets
                      /\ \A j \in DOMAIN rooms[r] :
                            rooms[r][j] = rooms[r][i] => i = j
    BY DEF OneMembership
  <2>1. rooms[r][i] \in ToSet(rooms[r])
    BY DEF ToSet
  <2> QED BY <2>1 DEF MembershipInv, MembersKnown, MembersOnce, Distinct
<1> QED BY <1>1, MembershipAlways, PTL

\* The only way to leave a ghost in a room: a session that has closed and for
\* which the runner has nothing left is listed only if its own close task threw
\* on the way to removeSocket.
THEOREM GhostsAlwaysHaveFailedClose ==
    ASSUME MaxJoins <= 1
    PROVE  ServerSpec => []GhostsHaveFailedClose
<1>1. MembershipInv => GhostsHaveFailedClose
  <2> SUFFICES ASSUME MembershipInv, NEW r \in Rooms,
                      NEW s \in ToSet(rooms[r]), Settled(s)
               PROVE  <<"close", s>> \in failed
    BY DEF GhostsHaveFailedClose
  <2>1. s \in Sessions
    BY DEF MembershipInv, MembersKnown, ServerTypeOK
  <2>2. conn[s] = "closed" /\ ~Queued("close", s) /\ ~InNoRoom(s)
    BY DEF Settled, Pending, Queued, InNoRoom
  <2> QED BY <2>1, <2>2 DEF MembershipInv, QueueInv, GhostsExplained
<1> QED BY <1>1, MembershipAlways, PTL

-----------------------------------------------------------------------------
(* What the sessions have been told.  The loops of join and onClose send a  *)
(* frame to every other member once, so each step of the server appends at  *)
(* most one frame to an inbox.                                              *)

\* What a loop over members does to the inbox of x: nothing, or one frame, and
\* certainly the frame if no send throws and x is another member.
Spread(before, after, x, members, self, frame) ==
    /\ \/ after = before
       \/ /\ after = Append(before, frame)
          /\ x # self
          /\ x \in ToSet(members)
    /\ ~BroadcastThrows(members, self) /\ x # self /\ x \in ToSet(members)
          => after = Append(before, frame)

\* One pass of the loop over a room without repetitions: nobody but another
\* member gets the frame, nobody gets it twice, and if no send throws every
\* other member gets it.
LEMMA BroadcastOnce ==
    ASSUME NEW box \in [Sessions -> Seq(Frames)], NEW members \in Seq(Sessions),
           Distinct(members), NEW self, NEW frame \in Frames
    PROVE  \A x \in Sessions :
               Spread(box[x], Broadcast(box, members, self, frame)[x],
                      x, members, self, frame)
<1> SUFFICES ASSUME NEW x \in Sessions
             PROVE  Spread(box[x], Broadcast(box, members, self, frame)[x],
                           x, members, self, frame)
  OBVIOUS
<1> DEFINE I == {i \in Reached(members, self) : members[i] = x}
           n == Copies(members, self, x)
           tail == [k \in 1..n |-> frame]
<1>1. Broadcast(box, members, self, frame)[x] = box[x] \o tail
  BY DEF Broadcast
<1>2. n = 0 \/ (n = 1 /\ x # self /\ x \in ToSet(members))
  <2>1. CASE x = self
    BY <2>1 DEF Copies
  <2>2. CASE x # self /\ I = {}
    BY <2>2, FS_EmptySet DEF Copies
  <2>3. CASE x # self /\ I # {}
    <3>1. PICK i \in I : TRUE
      BY <2>3
    <3>2. I = {i} /\ x \in ToSet(members)
      BY <3>1 DEF Distinct, Reached, ToSet
    <3>3. Cardinality({i}) = 1
      BY FS_Singleton
    <3>4. n = Cardinality(I)
      BY <2>3 DEF Copies
    <3> QED BY <2>3, <3>2, <3>3, <3>4
  <2> QED BY <2>1, <2>2, <2>3
<1>3. ASSUME ~BroadcastThrows(members, self), x # self, x \in ToSet(members)
      PROVE  n = 1
  <2>1. PICK i \in DOMAIN members : members[i] = x
    BY <1>3 DEF ToSet
  <2>2. \A j \in DOMAIN members : members[j] = self \/ CanSend(members[j])
    BY <1>3 DEF BroadcastThrows
  <2>3. \A j \in 1..i : j \in DOMAIN members
    BY LenProperties
  <2>4. i \in I
    BY <2>1, <2>2, <2>3 DEF Reached
  <2>5. n # 0
    <3>1. IsFiniteSet(I)
      <4>1. IsFiniteSet(1..Len(members)) /\ DOMAIN members = 1..Len(members)
        BY LenProperties, FS_Interval
      <4>2. I \in SUBSET (1..Len(members))
        BY <4>1 DEF Reached
      <4> QED BY <4>1, <4>2, FS_Subset
    <3>2. Cardinality(I) # 0
      BY <2>4, <3>1, FS_EmptySet
    <3> QED BY <1>3, <3>2 DEF Copies
  <2> QED BY <1>2, <2>5
<1>4. n = 0 => box[x] \o tail = box[x]
  <2> HIDE DEF n
  <2>1. ASSUME n = 0 PROVE tail = << >>
    BY <2>1
  <2>2. box[x] \o << >> = box[x]
    BY ConcatEmptySeq
  <2> QED BY <2>1, <2>2
<1>5. n = 1 => box[x] \o tail = Append(box[x], frame)
  <2> HIDE DEF n
  <2>1. ASSUME n = 1 PROVE tail = <<frame>>
    BY <2>1
  <2>2. box[x] \o <<frame>> = Append(box[x], frame)
    BY AppendIsConcat
  <2> QED BY <2>1, <2>2
<1> HIDE DEF n, tail
<1> QED BY <1>1, <1>2, <1>3, <1>4, <1>5 DEF Spread

\* Session x is sent one frame, or none.
Told(x, frame) == inbox'[x] = Append(inbox[x], frame)

NotTold(x) == inbox'[x] = inbox[x]

\* What has been heard after a frame: the frame, and what was heard before.
LEMMA HeardAfter ==
    ASSUME ServerTypeOK, NEW x \in Sessions, NEW frame \in Frames,
           Told(x, frame)
    PROVE  /\ \A f : Received(x, f)' <=> Received(x, f) \/ f = frame
           /\ \A y : ListedTo(x, y)' <=>
                        \/ ListedTo(x, y)
                        \/ frame.event = "_peers" /\ y \in frame.connections
<1> DEFINE q == inbox[x]
           r == Append(q, frame)
           n == Len(q)
<1>1. /\ n \in Nat
      /\ DOMAIN q = 1..n
      /\ DOMAIN r = 1..(n + 1)
      /\ r[n + 1] = frame
      /\ \A i \in DOMAIN q : r[i] = q[i]
  BY AppendShape DEF ServerTypeOK
<1>2. inbox'[x] = r
  BY DEF Told
<1> HIDE DEF r, n
<1>3. \A i \in DOMAIN r : i \in DOMAIN q \/ i = n + 1
  BY <1>1
<1>4. n + 1 \in DOMAIN r /\ \A i \in DOMAIN q : i \in DOMAIN r
  BY <1>1
<1>5. \A f : Received(x, f)' <=> Received(x, f) \/ f = frame
  BY <1>1, <1>2, <1>3, <1>4 DEF Received
<1>6. \A y : ListedTo(x, y)' <=>
                \/ ListedTo(x, y)
                \/ frame.event = "_peers" /\ y \in frame.connections
  BY <1>1, <1>2, <1>3, <1>4 DEF ListedTo
<1> QED BY <1>5, <1>6

\* And without one: what was heard before.
LEMMA HeardSame ==
    ASSUME NEW x, NotTold(x)
    PROVE  /\ \A f : Received(x, f)' <=> Received(x, f)
           /\ \A y : ListedTo(x, y)' <=> ListedTo(x, y)
BY DEF NotTold, Received, ListedTo

\* The frames are told apart by their event and by the session they name.
LEMMA FrameKinds ==
    ASSUME NEW x \in Sessions, NEW y \in Sessions, NEW ids \in SUBSET Sessions
    PROVE  /\ NewPeerFrame(x) \in Frames /\ NewPeerFrame(x).event # "_peers"
           /\ RemovePeerFrame(x) \in Frames /\ RemovePeerFrame(x).event # "_peers"
           /\ PeersFrame(x, ids) \in Frames /\ PeersFrame(x, ids).event = "_peers"
           /\ PeersFrame(x, ids).connections = ids
           /\ NewPeerFrame(x) # RemovePeerFrame(y)
           /\ NewPeerFrame(x) # PeersFrame(y, ids)
           /\ RemovePeerFrame(x) # PeersFrame(y, ids)
           /\ NewPeerFrame(x) = NewPeerFrame(y) => x = y
           /\ RemovePeerFrame(x) = RemovePeerFrame(y) => x = y
<1>1. /\ NewPeerFrame(x).event = "_new_peer" /\ NewPeerFrame(x).socketId = x
      /\ NewPeerFrame(y).socketId = y
      /\ RemovePeerFrame(x).event = "_remove_peer"
      /\ RemovePeerFrame(y).event = "_remove_peer"
      /\ RemovePeerFrame(x).socketId = x /\ RemovePeerFrame(y).socketId = y
      /\ PeersFrame(x, ids).event = "_peers" /\ PeersFrame(y, ids).event = "_peers"
      /\ PeersFrame(x, ids).connections = ids
  BY DEF NewPeerFrame, RemovePeerFrame, PeersFrame
<1>2. /\ NewPeerFrame(x) \in Frames
      /\ RemovePeerFrame(x) \in Frames
      /\ PeersFrame(x, ids) \in Frames
  BY DEF NewPeerFrame, RemovePeerFrame, PeersFrame, Frames
<1> QED BY <1>1, <1>2, Zenon

\* A relayed frame is none of them.
LEMMA RelayKind ==
    ASSUME NEW kind \in RelayKinds, NEW x \in Sessions, NEW y \in Sessions
    PROVE  /\ RelayFrame(kind, x) \in Frames
           /\ RelayFrame(kind, x).event # "_peers"
           /\ RelayFrame(kind, x).socketId = x
           /\ RelayFrame(kind, x) # NewPeerFrame(y)
           /\ RelayFrame(kind, x) # RemovePeerFrame(y)
<1>1. /\ RelayFrame(kind, x).event = kind
      /\ RelayFrame(kind, x).socketId = x
      /\ NewPeerFrame(y).event = "_new_peer"
      /\ RemovePeerFrame(y).event = "_remove_peer"
      /\ kind # "_new_peer" /\ kind # "_remove_peer" /\ kind # "_peers"
  BY DEF RelayFrame, NewPeerFrame, RemovePeerFrame, RelayKinds
<1>2. RelayFrame(kind, x) \in Frames
  BY DEF RelayFrame, Frames
<1> QED BY <1>1, <1>2, Zenon

\* The tasks of s are no longer waiting because its task ran: the queue of the
\* other operations and of the other sessions is as before.
LEMMA QueuedAfter ==
    ASSUME ServerTypeOK, Take
    PROVE  /\ \A op, x : Queued(op, x)' => Queued(op, x)
           /\ \A op, x : /\ Queued(op, x)
                         /\ op # Head(runner).op \/ x # Head(runner).s
                         => Queued(op, x)'
           /\ \A x : (\A i \in DOMAIN runner : runner[i].s # x) =>
                        \A i \in DOMAIN runner' : runner'[i].s # x
BY TakeQueue DEF Queued

\* A join that did not throw: every member hears of the newcomer, which enters
\* and, if it is still connected, is answered with the members.
Entered(s, room) ==
    /\ Enter(s, room)
    /\ \A x \in ToSet(rooms[room]) : x # s /\ Told(x, NewPeerFrame(s))
    /\ \A x \in Sessions \ {s} : x \notin ToSet(rooms[room]) => NotTold(x)
    /\ \/ conn[s] = "open" /\ Told(s, PeersFrame(s, ToSet(rooms[room])))
       \/ conn[s] # "open" /\ NotTold(s) /\ <<"join", s>> \in failed'

\* A join that threw: some members have heard of a newcomer that is not there.
NotEntered(s, room) ==
    /\ UNCHANGED <<rooms, roomList>>
    /\ \A x \in Sessions :
          \/ NotTold(x)
          \/ /\ Told(x, NewPeerFrame(s))
             /\ x # s
             /\ x \in ToSet(rooms[room])
    /\ <<"join", s>> \in failed'

JoinEffect(s, room) ==
    /\ Take /\ Head(runner).op = "join" /\ Head(runner).s = s
    /\ InNoRoom(s) /\ joins[s] > 0 /\ ~Queued("join", s)'
    /\ UNCHANGED <<conn, joins>> /\ failed \subseteq failed'
    /\ Entered(s, room) \/ NotEntered(s, room)

LEMMA JoinEffects ==
    ASSUME MembershipInv, Join
    PROVE  \E s \in Sessions, room \in Rooms : JoinEffect(s, room)
<1>1. /\ ServerTypeOK /\ Take
      /\ inbox \in [Sessions -> Seq(Frames)]
      /\ rooms \in [Rooms -> Seq(Sessions)]
  BY DEF MembershipInv, ServerTypeOK, Join
<1>2. PICK s \in Sessions : s = Head(runner).s
  BY <1>1, HeadTask DEF Take
<1>3. PICK room \in Rooms : room = RoomNumber(Head(runner).room)
  BY <1>1, HeadTask, ServerAssumption DEF Join, Take, Tasks, RoomNumber
<1>4. 1 \in DOMAIN runner /\ runner[1].s = s /\ runner[1].op = "join"
  BY <1>1, <1>2, TakeQueue DEF Join
<1>5. joins[s] > 0 /\ InNoRoom(s)
  BY <1>4 DEF MembershipInv, QueueInv, JoinIsOnce
<1>6. ~Queued("join", s)'
  <2>1. \A j \in DOMAIN runner :
            runner[j].op = "join" /\ runner[j].s = s => 1 = j
    BY <1>4 DEF MembershipInv, QueueInv, JoinIsOnce
  <2>2. \A i \in DOMAIN runner' :
            i + 1 \in DOMAIN runner /\ runner'[i] = runner[i + 1] /\ 1 # i + 1
    BY <1>1, TakeQueue
  <2> QED BY <2>1, <2>2 DEF Queued
<1> DEFINE members == rooms[room]
           announced == Broadcast(inbox, members, s, NewPeerFrame(s))
<1>7. members \in Seq(Sessions) /\ Distinct(members) /\ s \notin ToSet(members)
  BY <1>1, <1>5 DEF MembershipInv, MembersOnce, InNoRoom
<1>8. /\ NewPeerFrame(s) \in Frames
      /\ announced \in [Sessions -> Seq(Frames)]
  BY <1>1, <1>7, BroadcastType DEF NewPeerFrame, Frames
<1>9. \A x \in Sessions :
         /\ \/ announced[x] = inbox[x]
            \/ /\ announced[x] = Append(inbox[x], NewPeerFrame(s))
               /\ x # s /\ x \in ToSet(members)
         /\ ~BroadcastThrows(members, s) /\ x # s /\ x \in ToSet(members)
               => announced[x] = Append(inbox[x], NewPeerFrame(s))
  <2>1. \A x \in Sessions :
           Spread(inbox[x], announced[x], x, members, s, NewPeerFrame(s))
    BY <1>1, <1>7, <1>8, BroadcastOnce
  <2> QED BY <2>1 DEF Spread
<1>10. UNCHANGED <<conn, joins>> /\ failed \subseteq failed'
  BY DEF Join
<1>11. \A x \in ToSet(members) : x \in Sessions /\ x # s
  BY <1>7, LenProperties, ElementOfSeq DEF ToSet
<1>12. CASE BroadcastThrows(members, s)
  <2>1. /\ inbox' = announced
        /\ <<"join", s>> \in failed'
        /\ UNCHANGED <<rooms, roomList>>
    BY <1>2, <1>3, <1>12 DEF Join
  <2> HIDE DEF announced
  <2>2. NotEntered(s, room)
    BY <1>9, <2>1 DEF NotEntered, Told, NotTold
  <2> QED BY <1>1, <1>2, <1>5, <1>6, <1>10, <2>2 DEF JoinEffect, Join
<1>13. CASE ~BroadcastThrows(members, s)
  <2>0. ToSet(members) \ {s} = ToSet(members)
    BY <1>7
  <2>1. /\ Enter(s, room)
        /\ inbox' = Send(announced, s, PeersFrame(s, ToSet(members)))
        /\ ~CanSend(s) => <<"join", s>> \in failed'
    BY <1>2, <1>3, <1>13, <2>0 DEF Join
  <2> HIDE DEF announced
  <2>2. \A x \in Sessions \ {s} : inbox'[x] = announced[x]
    BY <1>8, <2>1 DEF Send
  <2>3. \A x \in ToSet(members) : x # s /\ Told(x, NewPeerFrame(s))
    BY <1>9, <1>11, <1>13, <2>2 DEF Told
  <2>4. \A x \in Sessions \ {s} : x \notin ToSet(members) => NotTold(x)
    BY <1>9, <2>2 DEF NotTold
  <2>5. announced[s] = inbox[s]
    BY <1>9
  <2>6. \/ conn[s] = "open" /\ Told(s, PeersFrame(s, ToSet(members)))
        \/ conn[s] # "open" /\ NotTold(s) /\ <<"join", s>> \in failed'
    BY <1>8, <2>1, <2>5 DEF Send, CanSend, Told, NotTold
  <2>7. Entered(s, room)
    BY <2>1, <2>3, <2>4, <2>6 DEF Entered
  <2> QED BY <1>1, <1>2, <1>5, <1>6, <1>10, <2>7 DEF JoinEffect, Join
<1> QED BY <1>12, <1>13

\* A close of a session in a room: without a throw every other member hears of
\* it and it leaves; with one some have heard and it stays.
Left(s, room) ==
    /\ RemoveSocket(s, room)
    /\ \A x \in ToSet(rooms[room]) \ {s} : Told(x, RemovePeerFrame(s))

NotLeft == UNCHANGED <<rooms, roomList>>

CloseEffect(s, room) ==
    /\ Take /\ Head(runner).op = "close" /\ Head(runner).s = s
    /\ conn[s] = "closed" /\ roomList[s] = room
    /\ \A i \in DOMAIN runner' : runner'[i].s # s
    /\ UNCHANGED <<conn, joins>> /\ failed \subseteq failed'
    /\ \A x \in Sessions :
          \/ NotTold(x)
          \/ /\ Told(x, RemovePeerFrame(s))
             /\ x # s
             /\ x \in ToSet(rooms[room])
    /\ Left(s, room) \/ NotLeft

LEMMA CloseEffects ==
    ASSUME MembershipInv, CloseJoined
    PROVE  \E s \in Sessions, room \in Rooms : CloseEffect(s, room)
<1>1. /\ ServerTypeOK /\ Take
      /\ inbox \in [Sessions -> Seq(Frames)]
      /\ rooms \in [Rooms -> Seq(Sessions)]
      /\ roomList \in [Sessions -> Rooms \cup {NoRoom}]
  BY DEF MembershipInv, ServerTypeOK, CloseJoined
<1>2. PICK s \in Sessions : s = Head(runner).s
  BY <1>1, HeadTask DEF Take
<1>3. PICK room \in Rooms : room = roomList[s]
  BY <1>1, <1>2 DEF CloseJoined
<1>4. 1 \in DOMAIN runner /\ runner[1].s = s /\ runner[1].op = "close"
  BY <1>1, <1>2, TakeQueue DEF CloseJoined
<1>5. /\ conn[s] = "closed"
      /\ \A j \in DOMAIN runner : 1 < j => runner[j].s # s
  BY <1>4 DEF MembershipInv, QueueInv, CloseIsLast
<1>6. \A i \in DOMAIN runner' : runner'[i].s # s
  <2>1. \A i \in DOMAIN runner' :
            i + 1 \in DOMAIN runner /\ runner'[i] = runner[i + 1] /\ 1 < i + 1
    BY <1>1, TakeQueue
  <2> QED BY <1>5, <2>1
<1> DEFINE members == rooms[room]
<1>7. members \in Seq(Sessions) /\ Distinct(members)
  BY <1>1 DEF MembershipInv, MembersOnce
<1>8. RemovePeerFrame(s) \in Frames
  BY DEF RemovePeerFrame, Frames
<1>9. inbox' = Broadcast(inbox, members, s, RemovePeerFrame(s))
  BY <1>2, <1>3 DEF CloseJoined
<1>10. \A x \in Sessions :
          /\ \/ NotTold(x)
             \/ /\ Told(x, RemovePeerFrame(s))
                /\ x # s /\ x \in ToSet(members)
          /\ ~BroadcastThrows(members, s) /\ x # s /\ x \in ToSet(members)
                => Told(x, RemovePeerFrame(s))
  <2>1. \A x \in Sessions :
           Spread(inbox[x], inbox'[x], x, members, s, RemovePeerFrame(s))
    BY <1>1, <1>7, <1>8, <1>9, BroadcastOnce
  <2> QED BY <2>1 DEF Spread, Told, NotTold
<1>11. UNCHANGED <<conn, joins>> /\ failed \subseteq failed'
  BY DEF CloseJoined
<1>12. \A x \in ToSet(members) : x \in Sessions
  BY <1>7, LenProperties, ElementOfSeq DEF ToSet
<1>13. Left(s, room) \/ NotLeft
  <2>1. CASE BroadcastThrows(members, s)
    BY <1>2, <1>3, <2>1 DEF CloseJoined, NotLeft
  <2>2. CASE ~BroadcastThrows(members, s)
    BY <1>2, <1>3, <1>10, <1>12, <2>2 DEF CloseJoined, Left
  <2> QED BY <2>1, <2>2
<1>14. CloseEffect(s, room)
  BY <1>1, <1>2, <1>3, <1>5, <1>6, <1>10, <1>11, <1>13
     DEF CloseEffect, CloseJoined
<1> QED BY <1>14

\* A relay: at most one session is told, in the sender's name.
RelayEffect(s) ==
    /\ Take /\ Head(runner).s = s /\ Head(runner).op = "relay"
    /\ UNCHANGED <<conn, joins, rooms, roomList, failed>>
    /\ \A x \in Sessions :
          NotTold(x) \/ \E kind \in RelayKinds : Told(x, RelayFrame(kind, s))

LEMMA RelayEffects ==
    ASSUME MembershipInv, Relay
    PROVE  \E s \in Sessions : RelayEffect(s)
<1>1. /\ ServerTypeOK /\ Take
      /\ inbox \in [Sessions -> Seq(Frames)]
  BY DEF MembershipInv, ServerTypeOK, Relay
<1>2. PICK s \in Sessions : s = Head(runner).s
  BY <1>1, HeadTask DEF Take
<1>3. PICK kind \in RelayKinds : kind = Head(runner).kind
  BY <1>1, HeadTask DEF Relay, Take, Tasks
<1>4. \A x \in Sessions : NotTold(x) \/ Told(x, RelayFrame(kind, s))
  BY <1>1, <1>2, <1>3 DEF Relay, Send, Told, NotTold
<1> QED BY <1>1, <1>2, <1>4 DEF RelayEffect, Relay, mapVars

-----------------------------------------------------------------------------
\* The join of x has run.
HasJoined(x) == joins[x] > 0 /\ ~Queued("join", x)

\* x has closed and nothing of it is waiting.
Gone(x) == conn[x] = "closed" /\ \A i \in DOMAIN runner : runner[i].s # x

\* Nobody joins before it has connected.
JoinersConnected == \A x \in Sessions : joins[x] > 0 => conn[x] # "idle"

\* Introductions are between sessions whose join has run, and _remove_peer goes
\* to such a session: so a join never finds news about its session, or a goodbye
\* to it, from before.
JoinBeforeNews ==
    \A x, y \in Sessions :
        /\ Introduced(x, y) => HasJoined(x) /\ HasJoined(y)
        /\ Received(x, RemovePeerFrame(y)) => HasJoined(x)

\* After _remove_peer of y the server has nothing left to do for y.
GoneIsQuiet ==
    \A x, y \in Sessions : Received(x, RemovePeerFrame(y)) => Gone(y)

\* Whoever is connected and in a room has every peer it was introduced to in its
\* room until it is told that the peer left.
KnownUntilTold ==
    \A x, y \in Sessions :
        /\ conn[x] = "open"
        /\ roomList[x] # NoRoom
        /\ Introduced(x, y)
        /\ <<"join", y>> \notin failed
        => \/ Received(x, RemovePeerFrame(y))
           \/ y \in ToSet(rooms[roomList[x]])

\* The inductive invariant about the frames.
NewsInv ==
    /\ MembershipInv /\ RoomListBacked
    /\ JoinersConnected /\ JoinBeforeNews /\ GoneIsQuiet
    /\ RemovePeerIsLast /\ PairIntroduced /\ KnownUntilTold

\* A step that tells nobody anything and leaves the rooms alone.
Silent == UNCHANGED <<rooms, roomList, inbox>> /\ failed \subseteq failed'

\* What a step of the server does to rooms and inboxes.
LEMMA StepKinds ==
    ASSUME MembershipInv, [ServerNext]_serverVars
    PROVE  \/ Silent
           \/ \E s \in Sessions, room \in Rooms : JoinEffect(s, room)
           \/ \E s \in Sessions, room \in Rooms : CloseEffect(s, room)
           \/ \E s \in Sessions : RelayEffect(s)
<1>1. CASE Container
  BY <1>1 DEF Container, OnOpen, OnClose, OnJoinMessage, OnRelayMessage,
              mapVars, Silent
<1>2. CASE AddSocket
  BY <1>2 DEF AddSocket, Silent
<1>3. CASE CloseNeverJoined
  BY <1>3 DEF CloseNeverJoined, Silent
<1>4. CASE UNCHANGED serverVars
  BY <1>4 DEF serverVars, Silent
<1> QED BY <1>1, <1>2, <1>3, <1>4, JoinEffects, CloseEffects, RelayEffects
        DEF ServerNext, Runner

\* What no step undoes, when no session joins twice.
LEMMA StepKeeps ==
    ASSUME MaxJoins <= 1, MembershipInv, JoinersConnected,
           [ServerNext]_serverVars, NEW x \in Sessions
    PROVE  /\ HasJoined(x) => HasJoined(x)'
           /\ Gone(x) => Gone(x)'
           /\ conn'[x] = "open" /\ joins[x] > 0 => conn[x] = "open"
           /\ joins'[x] > 0 => conn'[x] # "idle"
<1>1. /\ ServerTypeOK
      /\ conn \in [Sessions -> {"idle", "open", "closed"}]
      /\ joins \in [Sessions -> 0..MaxJoins]
      /\ MaxJoins \in Nat
      /\ joins[x] \in Nat
  BY ServerAssumption DEF MembershipInv, ServerTypeOK
<1>2. joins[x] > 0 => conn[x] # "idle"
  BY DEF JoinersConnected
<1>3. ASSUME NEW s \in Sessions, NEW task \in Tasks, task.s = s,
             runner' = Append(runner, task), conn[s] # "closed",
             task.op = "join" => joins[s] = 0,
             joins'[x] > 0 => joins[x] > 0 \/ (x = s /\ conn'[s] = "open"),
             joins[x] > 0 => joins'[x] > 0,
             conn'[x] = conn[x] \/ (x = s /\ conn'[s] # "idle"),
             x = s /\ conn'[s] = "open" => conn[s] = "open" \/ conn[s] = "idle"
      PROVE  /\ HasJoined(x) => HasJoined(x)'
             /\ Gone(x) => Gone(x)'
             /\ conn'[x] = "open" /\ joins[x] > 0 => conn[x] = "open"
             /\ joins'[x] > 0 => conn'[x] # "idle"
  <2>1. PICK n \in Nat :
         /\ n \in DOMAIN runner' /\ runner'[n] = task
         /\ \A i \in DOMAIN runner :
               i \in DOMAIN runner' /\ runner'[i] = runner[i] /\ i < n
         /\ \A i \in DOMAIN runner' :
               i = n \/ (i \in DOMAIN runner /\ i < n)
         /\ \A i \in DOMAIN runner' : i \in Nat
    BY <1>1, <1>3, AppendQueue
  <2>2. Queued("join", x)' => Queued("join", x) \/ (x = s /\ task.op = "join")
    BY <1>3, <2>1 DEF Queued
  <2>3. HasJoined(x) => HasJoined(x)'
    BY <1>3, <2>2 DEF HasJoined
  <2>4. Gone(x) => Gone(x)'
    BY <1>3, <2>1 DEF Gone
  <2> QED BY <1>2, <1>3, <2>3, <2>4
<1>4. ASSUME NEW s \in Sessions, NEW u \in Users, OnOpen(s, u)
      PROVE  /\ HasJoined(x) => HasJoined(x)'
             /\ Gone(x) => Gone(x)'
             /\ conn'[x] = "open" /\ joins[x] > 0 => conn[x] = "open"
             /\ joins'[x] > 0 => conn'[x] # "idle"
  <2> DEFINE task == OpenTask(s, u)
  <2>1. task \in Tasks /\ task.s = s /\ task.op = "open"
    BY DEF OpenTask, Tasks
  <2> HIDE DEF task
  <2>2. /\ runner' = Append(runner, task) /\ conn[s] = "idle"
        /\ joins' = joins /\ conn' = [conn EXCEPT ![s] = "open"]
    BY <1>4 DEF OnOpen, task
  <2> QED BY <1>1, <1>3, <2>1, <2>2
<1>5. ASSUME NEW s \in Sessions, OnClose(s)
      PROVE  /\ HasJoined(x) => HasJoined(x)'
             /\ Gone(x) => Gone(x)'
             /\ conn'[x] = "open" /\ joins[x] > 0 => conn[x] = "open"
             /\ joins'[x] > 0 => conn'[x] # "idle"
  <2> DEFINE task == CloseTask(s)
  <2>1. task \in Tasks /\ task.s = s /\ task.op = "close"
    BY DEF CloseTask, Tasks
  <2> HIDE DEF task
  <2>2. /\ runner' = Append(runner, task) /\ conn[s] = "open"
        /\ joins' = joins /\ conn' = [conn EXCEPT ![s] = "closed"]
    BY <1>5 DEF OnClose, task
  <2> QED BY <1>1, <1>3, <2>1, <2>2
<1>6. ASSUME NEW s \in Sessions, NEW r \in Rooms \cup {NoRoom},
             OnJoinMessage(s, r)
      PROVE  /\ HasJoined(x) => HasJoined(x)'
             /\ Gone(x) => Gone(x)'
             /\ conn'[x] = "open" /\ joins[x] > 0 => conn[x] = "open"
             /\ joins'[x] > 0 => conn'[x] # "idle"
  <2> DEFINE task == JoinTask(s, r)
  <2>1. task \in Tasks /\ task.s = s /\ task.op = "join"
    BY DEF JoinTask, Tasks
  <2> HIDE DEF task
  <2>2. /\ runner' = Append(runner, task) /\ conn[s] = "open" /\ conn' = conn
        /\ joins[s] < MaxJoins /\ joins' = [joins EXCEPT ![s] = joins[s] + 1]
    BY <1>6 DEF OnJoinMessage, task
  <2>3. joins[s] = 0
    BY <1>1, <2>2
  <2> QED BY <1>1, <1>3, <2>1, <2>2, <2>3
<1>7. ASSUME NEW s \in Sessions, NEW kind \in RelayKinds,
             NEW to \in Sessions \cup {NoSession}, OnRelayMessage(s, kind, to)
      PROVE  /\ HasJoined(x) => HasJoined(x)'
             /\ Gone(x) => Gone(x)'
             /\ conn'[x] = "open" /\ joins[x] > 0 => conn[x] = "open"
             /\ joins'[x] > 0 => conn'[x] # "idle"
  <2> DEFINE task == RelayTask(s, kind, to)
  <2>1. task \in Tasks /\ task.s = s /\ task.op = "relay"
    BY DEF RelayTask, Tasks
  <2> HIDE DEF task
  <2>2. /\ runner' = Append(runner, task) /\ conn[s] = "open" /\ conn' = conn
        /\ joins' = joins
    BY <1>7 DEF OnRelayMessage, task
  <2> QED BY <1>1, <1>3, <2>1, <2>2
<1>8. CASE Runner
  <2>1. Take /\ UNCHANGED <<conn, joins>>
    BY <1>8 DEF Runner, AddSocket, CloseNeverJoined, CloseJoined, Join, Relay,
                mapVars
  <2> QED BY <1>1, <1>2, <2>1, QueuedAfter DEF HasJoined, Gone
<1>9. CASE UNCHANGED serverVars
  BY <1>2, <1>9 DEF serverVars, HasJoined, Gone, Queued
<1> QED BY <1>4, <1>5, <1>6, <1>7, <1>8, <1>9 DEF ServerNext, Container

\* A member of a room has joined.
LEMMA MemberJoined ==
    ASSUME MembershipInv, NEW r \in Rooms, NEW x \in ToSet(rooms[r])
    PROVE  x \in Sessions /\ HasJoined(x) /\ ~InNoRoom(x) /\ roomList[x] = r
<1>1. joins[x] > 0 /\ x \in Sessions /\ roomList[x] = r
  BY DEF MembershipInv, MembersKnown, ServerTypeOK
<1>2. ~InNoRoom(x)
  BY DEF InNoRoom
<1>3. ~Queued("join", x)
  BY <1>2 DEF MembershipInv, QueueInv, JoinIsOnce, Queued
<1> QED BY <1>1, <1>2, <1>3 DEF HasJoined

\* The session whose task is taken is not quiet, and if the task is its join it
\* had not joined.
LEMMA TakenTask ==
    ASSUME ServerTypeOK, Take
    PROVE  /\ ~Gone(Head(runner).s)
           /\ Head(runner).op = "join" => ~HasJoined(Head(runner).s)
BY TakeQueue DEF Gone, HasJoined, Queued

-----------------------------------------------------------------------------
\* Joins have run before there is news of their sessions.
LEMMA NewsStep ==
    ASSUME MaxJoins <= 1, NewsInv, [ServerNext]_serverVars
    PROVE  JoinersConnected' /\ JoinBeforeNews' /\ GoneIsQuiet'
<1>1. ServerTypeOK /\ MembershipInv /\ JoinersConnected
  BY DEF NewsInv, MembershipInv
<1>2. \A x \in Sessions :
         /\ HasJoined(x) => HasJoined(x)'
         /\ Gone(x) => Gone(x)'
         /\ joins'[x] > 0 => conn'[x] # "idle"
  BY <1>1, StepKeeps
<1>3. JoinersConnected'
  BY <1>2 DEF JoinersConnected
<1>4. \A x, y \in Sessions :
         /\ Introduced(x, y) => HasJoined(x)' /\ HasJoined(y)'
         /\ Received(x, RemovePeerFrame(y)) => HasJoined(x)' /\ Gone(y)'
  BY <1>2 DEF NewsInv, JoinBeforeNews, GoneIsQuiet
<1> SUFFICES ASSUME NEW x \in Sessions, NEW y \in Sessions
             PROVE  /\ Introduced(x, y)' => HasJoined(x)' /\ HasJoined(y)'
                    /\ Received(x, RemovePeerFrame(y))' =>
                          HasJoined(x)' /\ Gone(y)'
  BY <1>3 DEF JoinBeforeNews, GoneIsQuiet
<1>5. CASE NotTold(x)
  BY <1>4, <1>5, HeardSame DEF Introduced
<1>6. ASSUME NEW s \in Sessions, NEW room \in Rooms, JoinEffect(s, room)
      PROVE  /\ Introduced(x, y)' => HasJoined(x)' /\ HasJoined(y)'
             /\ Received(x, RemovePeerFrame(y))' => HasJoined(x)' /\ Gone(y)'
  <2>1. HasJoined(s)'
    BY <1>6 DEF JoinEffect, HasJoined
  <2> DEFINE ids == ToSet(rooms[room])
  <2>2. \A z \in ids : z \in Sessions /\ HasJoined(z)'
    BY <1>1, <1>2, MemberJoined
  <2>3. \/ NotTold(x)
        \/ Told(x, NewPeerFrame(s)) /\ x \in ids
        \/ Told(x, PeersFrame(s, ids)) /\ x = s
    BY <1>6 DEF JoinEffect, Entered, NotEntered
  <2> HIDE DEF ids
  <2>4. CASE Told(x, NewPeerFrame(s)) /\ x \in ids
    <3>1. /\ NewPeerFrame(s) \in Frames /\ NewPeerFrame(s).event # "_peers"
          /\ NewPeerFrame(s) # RemovePeerFrame(y)
          /\ NewPeerFrame(s) = NewPeerFrame(y) => s = y
      BY FrameKinds
    <3>2. /\ Introduced(x, y)' => Introduced(x, y) \/ y = s
          /\ Received(x, RemovePeerFrame(y))' => Received(x, RemovePeerFrame(y))
      BY <1>1, <2>4, <3>1, HeardAfter DEF Introduced
    <3> QED BY <1>4, <2>1, <2>2, <2>4, <3>2
  <2>5. CASE Told(x, PeersFrame(s, ids)) /\ x = s
    <3>0. ids \in SUBSET Sessions
      BY <2>2
    <3>1. /\ PeersFrame(s, ids) \in Frames
          /\ PeersFrame(s, ids).connections = ids
          /\ PeersFrame(s, ids) # RemovePeerFrame(y)
          /\ PeersFrame(s, ids) # NewPeerFrame(y)
      BY <3>0, FrameKinds
    <3>2. /\ Introduced(x, y)' => Introduced(x, y) \/ y \in ids
          /\ Received(x, RemovePeerFrame(y))' => Received(x, RemovePeerFrame(y))
      BY <1>1, <2>5, <3>1, HeardAfter DEF Introduced
    <3> QED BY <1>4, <2>1, <2>2, <2>5, <3>2
  <2> QED BY <1>5, <2>3, <2>4, <2>5
<1>7. ASSUME NEW s \in Sessions, NEW room \in Rooms, CloseEffect(s, room)
      PROVE  /\ Introduced(x, y)' => HasJoined(x)' /\ HasJoined(y)'
             /\ Received(x, RemovePeerFrame(y))' => HasJoined(x)' /\ Gone(y)'
  <2>1. Gone(s)'
    BY <1>7 DEF CloseEffect, Gone
  <2>2. NotTold(x) \/ (Told(x, RemovePeerFrame(s)) /\ x \in ToSet(rooms[room]))
    BY <1>7 DEF CloseEffect
  <2>3. CASE Told(x, RemovePeerFrame(s)) /\ x \in ToSet(rooms[room])
    <3>1. /\ RemovePeerFrame(s) \in Frames
          /\ RemovePeerFrame(s).event # "_peers"
          /\ RemovePeerFrame(s) # NewPeerFrame(y)
          /\ RemovePeerFrame(s) = RemovePeerFrame(y) => s = y
      BY FrameKinds
    <3>2. /\ Introduced(x, y)' => Introduced(x, y)
          /\ Received(x, RemovePeerFrame(y))' =>
                Received(x, RemovePeerFrame(y)) \/ y = s
      BY <1>1, <2>3, <3>1, HeardAfter DEF Introduced
    <3>3. HasJoined(x)'
      BY <1>1, <1>2, <2>3, MemberJoined
    <3> QED BY <1>4, <2>1, <3>2, <3>3
  <2> QED BY <1>5, <2>2, <2>3
<1>8. ASSUME NEW s \in Sessions, RelayEffect(s)
      PROVE  /\ Introduced(x, y)' => HasJoined(x)' /\ HasJoined(y)'
             /\ Received(x, RemovePeerFrame(y))' => HasJoined(x)' /\ Gone(y)'
  <2>1. NotTold(x) \/ \E kind \in RelayKinds : Told(x, RelayFrame(kind, s))
    BY <1>8 DEF RelayEffect
  <2>2. ASSUME NEW kind \in RelayKinds, Told(x, RelayFrame(kind, s))
        PROVE  /\ Introduced(x, y)' => Introduced(x, y)
               /\ Received(x, RemovePeerFrame(y))' =>
                     Received(x, RemovePeerFrame(y))
    <3>1. /\ RelayFrame(kind, s) \in Frames
          /\ RelayFrame(kind, s).event # "_peers"
          /\ RelayFrame(kind, s) # NewPeerFrame(y)
          /\ RelayFrame(kind, s) # RemovePeerFrame(y)
      BY RelayKind
    <3> QED BY <1>1, <2>2, <3>1, HeardAfter DEF Introduced
  <2> QED BY <1>4, <1>5, <2>1, <2>2
<1>9. CASE Silent
  BY <1>5, <1>9 DEF Silent, NotTold
<1> QED BY <1>1, <1>6, <1>7, <1>8, <1>9, StepKinds

-----------------------------------------------------------------------------
\* A frame is about y.
FrameAbout(frame, y) ==
    IF frame.event = "_peers" THEN y \in frame.connections
    ELSE frame.socketId = y

\* A new frame leaves _remove_peer the last thing heard if it is about nobody
\* who is gone.
LEMMA LastAfter ==
    ASSUME ServerTypeOK, RemovePeerIsLast, NEW x \in Sessions,
           NEW frame \in Frames, Told(x, frame),
           \A y \in Sessions :
              Received(x, RemovePeerFrame(y)) => ~FrameAbout(frame, y)
    PROVE  \A y \in Sessions : \A i, j \in DOMAIN inbox'[x] :
              i < j /\ inbox'[x][i] = RemovePeerFrame(y) => ~About(x, j, y)'
<1> DEFINE q == inbox[x]
           r == Append(q, frame)
           n == Len(q)
<1>1. /\ n \in Nat
      /\ DOMAIN q = 1..n
      /\ DOMAIN r = 1..(n + 1)
      /\ r[n + 1] = frame
      /\ \A i \in DOMAIN q : r[i] = q[i]
  BY AppendShape DEF ServerTypeOK
<1>2. inbox'[x] = r
  BY DEF Told
<1> HIDE DEF r, n
<1> SUFFICES ASSUME NEW y \in Sessions, NEW i \in DOMAIN r, NEW j \in DOMAIN r,
                    i < j, r[i] = RemovePeerFrame(y)
             PROVE  ~FrameAbout(r[j], y)
  BY <1>2 DEF About, FrameAbout
<1>3. i \in DOMAIN q /\ q[i] = RemovePeerFrame(y)
  BY <1>1
<1>4. CASE j = n + 1
  BY <1>1, <1>3, <1>4 DEF Received
<1>5. CASE j # n + 1
  <2>1. j \in DOMAIN q /\ r[j] = q[j]
    BY <1>1, <1>5
  <2> QED BY <1>3, <2>1 DEF RemovePeerIsLast, About, FrameAbout
<1> QED BY <1>4, <1>5

\* _remove_peer stays the last thing heard of a session.
LEMMA LastStep ==
    ASSUME NewsInv, [ServerNext]_serverVars
    PROVE  RemovePeerIsLast'
<1>1. ServerTypeOK /\ MembershipInv /\ RemovePeerIsLast
  BY DEF NewsInv, MembershipInv
<1>2. \A x, y \in Sessions :
         Received(x, RemovePeerFrame(y)) => HasJoined(x) /\ Gone(y)
  BY DEF NewsInv, JoinBeforeNews, GoneIsQuiet
<1> SUFFICES ASSUME NEW x \in Sessions
             PROVE  \A y \in Sessions : \A i, j \in DOMAIN inbox'[x] :
                       i < j /\ inbox'[x][i] = RemovePeerFrame(y)
                          => ~About(x, j, y)'
  BY DEF RemovePeerIsLast
<1>3. CASE NotTold(x)
  BY <1>1, <1>3 DEF NotTold, RemovePeerIsLast, About
<1>4. ASSUME NEW frame \in Frames, Told(x, frame), Take,
             frame.event # "_peers" => frame.socketId = Head(runner).s,
             frame.event = "_peers" =>
                Head(runner).op = "join" /\ x = Head(runner).s
      PROVE  \A y \in Sessions :
                Received(x, RemovePeerFrame(y)) => ~FrameAbout(frame, y)
  BY <1>1, <1>2, <1>4, TakenTask DEF FrameAbout
<1>5. ASSUME NEW s \in Sessions, NEW room \in Rooms, JoinEffect(s, room),
             ~NotTold(x)
      PROVE  \E frame \in Frames :
                /\ Told(x, frame) /\ Take
                /\ frame.event # "_peers" => frame.socketId = Head(runner).s
                /\ frame.event = "_peers" =>
                      Head(runner).op = "join" /\ x = Head(runner).s
  <2> DEFINE ids == ToSet(rooms[room])
  <2>1. \A z \in ids : z \in Sessions
    BY <1>1, MemberJoined
  <2>2. \/ Told(x, NewPeerFrame(s))
        \/ Told(x, PeersFrame(s, ids)) /\ x = s
    BY <1>5 DEF JoinEffect, Entered, NotEntered
  <2>3. Take /\ Head(runner).op = "join" /\ Head(runner).s = s
    BY <1>5 DEF JoinEffect
  <2> HIDE DEF ids
  <2>4. NewPeerFrame(s) \in Frames /\ NewPeerFrame(s).event # "_peers"
    BY FrameKinds
  <2>5. NewPeerFrame(s).socketId = s
    BY DEF NewPeerFrame
  <2>6. PeersFrame(s, ids) \in Frames /\ PeersFrame(s, ids).event = "_peers"
    BY <2>1, FrameKinds
  <2> QED BY <2>2, <2>3, <2>4, <2>5, <2>6
<1>6. ASSUME NEW s \in Sessions, NEW room \in Rooms, CloseEffect(s, room),
             ~NotTold(x)
      PROVE  \E frame \in Frames :
                /\ Told(x, frame) /\ Take
                /\ frame.event # "_peers" => frame.socketId = Head(runner).s
                /\ frame.event = "_peers" =>
                      Head(runner).op = "join" /\ x = Head(runner).s
  <2>1. /\ Told(x, RemovePeerFrame(s)) /\ Take /\ Head(runner).s = s
    BY <1>6 DEF CloseEffect
  <2>2. /\ RemovePeerFrame(s) \in Frames
        /\ RemovePeerFrame(s).event # "_peers"
    BY FrameKinds
  <2>3. RemovePeerFrame(s).socketId = s
    BY DEF RemovePeerFrame
  <2> QED BY <2>1, <2>2, <2>3
<1>7. ASSUME NEW s \in Sessions, RelayEffect(s), ~NotTold(x)
      PROVE  \E frame \in Frames :
                /\ Told(x, frame) /\ Take
                /\ frame.event # "_peers" => frame.socketId = Head(runner).s
                /\ frame.event = "_peers" =>
                      Head(runner).op = "join" /\ x = Head(runner).s
  <2>1. PICK kind \in RelayKinds : Told(x, RelayFrame(kind, s))
    BY <1>7 DEF RelayEffect
  <2>2. Take /\ Head(runner).s = s
    BY <1>7 DEF RelayEffect
  <2>3. /\ RelayFrame(kind, s) \in Frames
        /\ RelayFrame(kind, s).event # "_peers"
        /\ RelayFrame(kind, s).socketId = s
    BY RelayKind
  <2> QED BY <2>1, <2>2, <2>3
<1>8. Silent => NotTold(x)
  BY DEF Silent, NotTold
<1>9. CASE ~NotTold(x)
  <2>1. PICK frame \in Frames :
                /\ Told(x, frame) /\ Take
                /\ frame.event # "_peers" => frame.socketId = Head(runner).s
                /\ frame.event = "_peers" =>
                      Head(runner).op = "join" /\ x = Head(runner).s
    BY <1>1, <1>5, <1>6, <1>7, <1>8, <1>9, StepKinds
  <2>2. \A y \in Sessions :
           Received(x, RemovePeerFrame(y)) => ~FrameAbout(frame, y)
    BY <1>4, <2>1
  <2> QED BY <1>1, <2>1, <2>2, LastAfter
<1> QED BY <1>3, <1>9

-----------------------------------------------------------------------------
\* What PairIntroduced says of an earlier and a later member.
PairOK(early, late) ==
    /\ Received(early, NewPeerFrame(late))
    /\ ~Received(late, NewPeerFrame(early))
    /\ ~ListedTo(early, late)
    /\ conn[late] = "open" => ListedTo(late, early)

\* Nobody introduces two members a second time.
LEMMA PairKept ==
    ASSUME MaxJoins <= 1, NewsInv, [ServerNext]_serverVars, NEW r \in Rooms,
           NEW e \in ToSet(rooms[r]), NEW l \in ToSet(rooms[r]), PairOK(e, l)
    PROVE  PairOK(e, l)'
<1>1. ServerTypeOK /\ MembershipInv /\ JoinersConnected
  BY DEF NewsInv, MembershipInv
<1>2. /\ e \in Sessions /\ HasJoined(e) /\ ~InNoRoom(e)
      /\ l \in Sessions /\ HasJoined(l) /\ ~InNoRoom(l)
  BY <1>1, MemberJoined
<1>3. conn'[l] = "open" => conn[l] = "open"
  BY <1>1, <1>2, StepKeeps DEF HasJoined
<1>4. ASSUME NEW x \in {e, l}, NEW y \in {e, l}
      PROVE  /\ Received(x, NewPeerFrame(y))' <=> Received(x, NewPeerFrame(y))
             /\ ListedTo(x, y)' <=> ListedTo(x, y)
  <2>0. x \in Sessions /\ y \in Sessions
    BY <1>2
  <2>1. CASE NotTold(x)
    BY <2>1, HeardSame
  <2>2. ASSUME NEW s \in Sessions, NEW room \in Rooms, JoinEffect(s, room)
        PROVE  NotTold(x) \/ (Told(x, NewPeerFrame(s)) /\ s # y)
    <3>1. s # e /\ s # l
      BY <1>2, <2>2 DEF JoinEffect
    <3> QED BY <1>2, <2>2, <3>1 DEF JoinEffect, Entered, NotEntered
  <2>3. ASSUME NEW s \in Sessions, Told(x, NewPeerFrame(s)), s # y
        PROVE  /\ Received(x, NewPeerFrame(y))' <=> Received(x, NewPeerFrame(y))
               /\ ListedTo(x, y)' <=> ListedTo(x, y)
    <3>1. /\ NewPeerFrame(s) \in Frames /\ NewPeerFrame(s).event # "_peers"
          /\ NewPeerFrame(y) # NewPeerFrame(s)
      BY <2>0, <2>3, FrameKinds
    <3> QED BY <1>1, <2>0, <2>3, <3>1, HeardAfter
  <2>4. ASSUME NEW s \in Sessions, NEW room \in Rooms, CloseEffect(s, room),
               ~NotTold(x)
        PROVE  /\ Received(x, NewPeerFrame(y))' <=> Received(x, NewPeerFrame(y))
               /\ ListedTo(x, y)' <=> ListedTo(x, y)
    <3>1. Told(x, RemovePeerFrame(s))
      BY <2>0, <2>4 DEF CloseEffect
    <3>2. /\ RemovePeerFrame(s) \in Frames
          /\ RemovePeerFrame(s).event # "_peers"
          /\ NewPeerFrame(y) # RemovePeerFrame(s)
      BY <2>0, FrameKinds
    <3> QED BY <1>1, <2>0, <3>1, <3>2, HeardAfter
  <2>5. ASSUME NEW s \in Sessions, RelayEffect(s), ~NotTold(x)
        PROVE  /\ Received(x, NewPeerFrame(y))' <=> Received(x, NewPeerFrame(y))
               /\ ListedTo(x, y)' <=> ListedTo(x, y)
    <3>1. PICK kind \in RelayKinds : Told(x, RelayFrame(kind, s))
      BY <2>0, <2>5 DEF RelayEffect
    <3>2. /\ RelayFrame(kind, s) \in Frames
          /\ RelayFrame(kind, s).event # "_peers"
          /\ NewPeerFrame(y) # RelayFrame(kind, s)
      BY <2>0, RelayKind
    <3> QED BY <1>1, <2>0, <3>1, <3>2, HeardAfter
  <2>6. Silent => NotTold(x)
    BY DEF Silent, NotTold
  <2> QED BY <1>1, <2>1, <2>2, <2>3, <2>4, <2>5, <2>6, StepKinds
<1> QED BY <1>3, <1>4 DEF PairOK

\* The newcomer and each of those it finds make a pair.
LEMMA PairMade ==
    ASSUME NewsInv, NEW s \in Sessions, NEW room \in Rooms,
           JoinEffect(s, room), Entered(s, room), NEW e \in ToSet(rooms[room])
    PROVE  PairOK(e, s)'
<1>1. ServerTypeOK /\ MembershipInv
  BY DEF NewsInv, MembershipInv
<1> DEFINE ids == ToSet(rooms[room])
<1>2. \A z \in ids : z \in Sessions
  BY <1>1, MemberJoined
<1>3. e \in Sessions /\ e # s /\ Told(e, NewPeerFrame(s))
  BY <1>2 DEF Entered
<1>4. ~HasJoined(s)
  BY <1>1, TakenTask DEF JoinEffect
<1>5. ~Received(s, NewPeerFrame(e)) /\ ~ListedTo(e, s)
  BY <1>3, <1>4 DEF NewsInv, JoinBeforeNews, Introduced
<1>6. \/ conn[s] = "open" /\ Told(s, PeersFrame(s, ids))
      \/ conn[s] # "open" /\ NotTold(s)
  BY DEF Entered
<1>7. conn' = conn
  BY DEF JoinEffect
<1> HIDE DEF ids
<1>8. /\ NewPeerFrame(s) \in Frames /\ NewPeerFrame(s).event # "_peers"
      /\ PeersFrame(s, ids) \in Frames /\ PeersFrame(s, ids).event = "_peers"
      /\ PeersFrame(s, ids).connections = ids
      /\ NewPeerFrame(e) # PeersFrame(s, ids)
  BY <1>2, <1>3, FrameKinds
<1>9. Received(e, NewPeerFrame(s))' /\ ~ListedTo(e, s)'
  BY <1>1, <1>3, <1>5, <1>8, HeardAfter
<1>10. CASE conn[s] = "open" /\ Told(s, PeersFrame(s, ids))
  <2>1. ~Received(s, NewPeerFrame(e))' /\ ListedTo(s, e)'
    BY <1>1, <1>5, <1>8, <1>10, HeardAfter DEF ids
  <2> QED BY <1>9, <2>1 DEF PairOK
<1>11. CASE conn[s] # "open" /\ NotTold(s)
  <2>1. ~Received(s, NewPeerFrame(e))'
    BY <1>5, <1>11, HeardSame
  <2> QED BY <1>7, <1>9, <1>11, <2>1 DEF PairOK
<1> QED BY <1>6, <1>10, <1>11

\* removeSocket keeps the order of those who stay.
LEMMA RemoveFirstOrder ==
    ASSUME NEW S, NEW q \in Seq(S), NEW e,
           NEW i \in DOMAIN RemoveFirst(q, e), NEW j \in DOMAIN RemoveFirst(q, e),
           i < j
    PROVE  \E m, n \in DOMAIN q :
              /\ m < n
              /\ RemoveFirst(q, e)[i] = q[m]
              /\ RemoveFirst(q, e)[j] = q[n]
<1>0. Len(q) \in Nat /\ DOMAIN q = 1..Len(q)
  BY LenProperties
<1>1. CASE \E k \in 1..Len(q) : q[k] = e
  <2>1. PICK k \in 1..Len(q) :
            /\ q[k] = e
            /\ RemoveFirst(q, e) \in Seq(S)
            /\ Len(RemoveFirst(q, e)) = Len(q) - 1
            /\ \A h \in 1..(Len(q) - 1) :
                  RemoveFirst(q, e)[h] = IF h < k THEN q[h] ELSE q[h + 1]
    BY <1>1, RemoveFirstShape
  <2> DEFINE r == RemoveFirst(q, e)
             old(h) == IF h < k THEN h ELSE h + 1
  <2> HIDE DEF r
  <2>2. DOMAIN r = 1..(Len(q) - 1)
    BY <2>1, LenProperties DEF r
  <2>3. \A h \in DOMAIN r : r[h] = q[old(h)] /\ old(h) \in DOMAIN q
    BY <1>0, <2>1, <2>2 DEF r
  <2>4. i \in DOMAIN r /\ j \in DOMAIN r
    BY DEF r
  <2>5. old(i) < old(j)
    BY <1>0, <2>1, <2>2, <2>4
  <2> HIDE DEF old
  <2> QED BY <2>3, <2>4, <2>5 DEF r
<1>2. CASE ~\E k \in 1..Len(q) : q[k] = e
  <2>1. RemoveFirst(q, e) = q
    BY <1>2 DEF RemoveFirst
  <2> QED BY <2>1
<1> QED BY <1>1, <1>2

\* Of two members the earlier one stays introduced to the later.
LEMMA PairStep ==
    ASSUME MaxJoins <= 1, NewsInv, [ServerNext]_serverVars
    PROVE  PairIntroduced'
<1>1. /\ ServerTypeOK /\ MembershipInv
      /\ rooms \in [Rooms -> Seq(Sessions)]
  BY DEF NewsInv, MembershipInv, ServerTypeOK
<1> SUFFICES ASSUME NEW r \in Rooms, NEW i \in DOMAIN rooms'[r],
                    NEW j \in DOMAIN rooms'[r], i < j,
                    NEW e, e = rooms'[r][i], NEW l, l = rooms'[r][j]
             PROVE  PairOK(e, l)'
  BY DEF PairIntroduced, PairOK
<1>2. ASSUME NEW m \in DOMAIN rooms[r], NEW n \in DOMAIN rooms[r], m < n,
             e = rooms[r][m], l = rooms[r][n]
      PROVE  PairOK(e, l)'
  <2>1. e \in ToSet(rooms[r]) /\ l \in ToSet(rooms[r])
    BY <1>2 DEF ToSet
  <2>2. PairOK(e, l)
    BY <1>2 DEF NewsInv, PairIntroduced, PairOK
  <2> QED BY <2>1, <2>2, PairKept
<1>3. CASE rooms' = rooms
  BY <1>2, <1>3
<1>4. ASSUME NEW s \in Sessions, NEW room \in Rooms, JoinEffect(s, room)
      PROVE  PairOK(e, l)'
  <2>1. CASE NotEntered(s, room)
    BY <1>3, <2>1 DEF NotEntered
  <2>2. CASE Entered(s, room) /\ r # room
    <3>1. rooms'[r] = rooms[r]
      BY <1>1, <2>2 DEF Entered, Enter
    <3> QED BY <1>2, <3>1
  <2>3. CASE Entered(s, room) /\ r = room
    <3> DEFINE q == rooms[r]
               n == Len(q)
    <3>1. rooms'[r] = Append(q, s) /\ q \in Seq(Sessions)
      BY <1>1, <2>3 DEF Entered, Enter
    <3>2. /\ n \in Nat
          /\ DOMAIN q = 1..n
          /\ DOMAIN rooms'[r] = 1..(n + 1)
          /\ rooms'[r][n + 1] = s
          /\ \A k \in DOMAIN q : rooms'[r][k] = q[k]
      BY <3>1, AppendShape
    <3>3. i \in DOMAIN q /\ (j \in DOMAIN q \/ j = n + 1)
      BY <3>2
    <3>4. CASE j \in DOMAIN q
      BY <1>2, <3>2, <3>3, <3>4
    <3>5. CASE j = n + 1
      <4>1. e \in ToSet(rooms[room]) /\ l = s
        BY <2>3, <3>2, <3>3, <3>5 DEF ToSet
      <4>2. PairOK(e, s)'
        BY <1>4, <2>3, <4>1, PairMade
      <4> QED BY <4>1, <4>2
    <3> QED BY <3>3, <3>4, <3>5
  <2> QED BY <1>4, <2>1, <2>2, <2>3 DEF JoinEffect
<1>5. ASSUME NEW s \in Sessions, NEW room \in Rooms, CloseEffect(s, room)
      PROVE  PairOK(e, l)'
  <2>1. CASE NotLeft
    BY <1>3, <2>1 DEF NotLeft
  <2>2. CASE RemoveSocket(s, room)
    <3>1. CASE r # room
      BY <1>1, <1>2, <2>2, <3>1 DEF RemoveSocket
    <3>2. CASE r = room
      <4>1. rooms'[r] = RemoveFirst(rooms[r], s) /\ rooms[r] \in Seq(Sessions)
        BY <1>1, <2>2, <3>2 DEF RemoveSocket
      <4>2. PICK m, n \in DOMAIN rooms[r] :
               /\ m < n
               /\ rooms'[r][i] = rooms[r][m]
               /\ rooms'[r][j] = rooms[r][n]
        BY <4>1, RemoveFirstOrder
      <4> QED BY <1>2, <4>2
    <3> QED BY <3>1, <3>2
  <2> QED BY <1>5, <2>1, <2>2 DEF CloseEffect, Left
<1> QED BY <1>1, <1>3, <1>4, <1>5, StepKinds DEF Silent, RelayEffect

-----------------------------------------------------------------------------
\* A peer stays in the room of those who know it until they are told.
LEMMA KnownStep ==
    ASSUME MaxJoins <= 1, NewsInv, [ServerNext]_serverVars
    PROVE  KnownUntilTold'
<1>1. /\ ServerTypeOK /\ MembershipInv /\ JoinersConnected /\ RoomListBacked
      /\ rooms \in [Rooms -> Seq(Sessions)]
      /\ roomList \in [Sessions -> Rooms \cup {NoRoom}]
      /\ KnownUntilTold
  BY DEF NewsInv, MembershipInv, ServerTypeOK
<1> SUFFICES ASSUME NEW x \in Sessions, NEW y \in Sessions,
                    conn'[x] = "open", roomList'[x] # NoRoom,
                    Introduced(x, y)', <<"join", y>> \notin failed'
             PROVE  \/ Received(x, RemovePeerFrame(y))'
                    \/ y \in ToSet(rooms'[roomList'[x]])
  BY DEF KnownUntilTold
<1>2. ASSUME roomList[x] # NoRoom, Introduced(x, y), failed \subseteq failed'
      PROVE  /\ roomList[x] \in Rooms
             /\ x \in ToSet(rooms[roomList[x]])
             /\ \/ Received(x, RemovePeerFrame(y))
                \/ y \in ToSet(rooms[roomList[x]])
  <2>1. roomList[x] \in Rooms /\ x \in ToSet(rooms[roomList[x]])
    BY <1>1, <1>2 DEF RoomListBacked
  <2>2. joins[x] > 0
    BY <1>1, <2>1, MemberJoined DEF HasJoined
  <2>3. conn[x] = "open"
    BY <1>1, <2>2, StepKeeps
  <2> QED BY <1>1, <1>2, <2>1, <2>3 DEF KnownUntilTold
<1>3. ASSUME UNCHANGED <<rooms, roomList>>, failed \subseteq failed',
             Introduced(x, y),
             Received(x, RemovePeerFrame(y)) => Received(x, RemovePeerFrame(y))'
      PROVE  \/ Received(x, RemovePeerFrame(y))'
             \/ y \in ToSet(rooms'[roomList'[x]])
  BY <1>2, <1>3
<1>4. CASE Silent
  <2>1. NotTold(x) /\ UNCHANGED <<rooms, roomList>> /\ failed \subseteq failed'
    BY <1>4 DEF Silent, NotTold
  <2>2. /\ Introduced(x, y)
        /\ Received(x, RemovePeerFrame(y)) => Received(x, RemovePeerFrame(y))'
    BY <2>1, HeardSame DEF Introduced
  <2> QED BY <1>3, <2>1, <2>2
<1>5. ASSUME NEW s \in Sessions, RelayEffect(s)
      PROVE  \/ Received(x, RemovePeerFrame(y))'
             \/ y \in ToSet(rooms'[roomList'[x]])
  <2>1. /\ UNCHANGED <<rooms, roomList>> /\ failed \subseteq failed'
        /\ NotTold(x) \/ \E kind \in RelayKinds : Told(x, RelayFrame(kind, s))
    BY <1>5 DEF RelayEffect
  <2>2. CASE NotTold(x)
    <3>1. /\ Introduced(x, y)
          /\ Received(x, RemovePeerFrame(y)) => Received(x, RemovePeerFrame(y))'
      BY <2>2, HeardSame DEF Introduced
    <3> QED BY <1>3, <2>1, <3>1
  <2>3. ASSUME NEW kind \in RelayKinds, Told(x, RelayFrame(kind, s))
        PROVE  /\ Introduced(x, y)
               /\ Received(x, RemovePeerFrame(y)) =>
                     Received(x, RemovePeerFrame(y))'
    <3>1. /\ RelayFrame(kind, s) \in Frames
          /\ RelayFrame(kind, s).event # "_peers"
          /\ RelayFrame(kind, s) # NewPeerFrame(y)
      BY RelayKind
    <3> QED BY <1>1, <2>3, <3>1, HeardAfter DEF Introduced
  <2> QED BY <1>3, <2>1, <2>2, <2>3
<1>6. ASSUME NEW s \in Sessions, NEW room \in Rooms, JoinEffect(s, room)
      PROVE  \/ Received(x, RemovePeerFrame(y))'
             \/ y \in ToSet(rooms'[roomList'[x]])
  <2> DEFINE ids == ToSet(rooms[room])
  <2>0. /\ failed \subseteq failed' /\ conn' = conn
        /\ Entered(s, room) \/ NotEntered(s, room)
    BY <1>6 DEF JoinEffect
  <2>1. \A z \in ids : z \in Sessions /\ roomList[z] = room
    BY <1>1, MemberJoined
  <2>2. /\ NewPeerFrame(s) \in Frames /\ NewPeerFrame(s).event # "_peers"
        /\ NewPeerFrame(s) = NewPeerFrame(y) => s = y
        /\ PeersFrame(s, ids) \in Frames
        /\ PeersFrame(s, ids).connections = ids
        /\ NewPeerFrame(y) # PeersFrame(s, ids)
    BY <2>1, FrameKinds
  <2>3. CASE x = s /\ Entered(s, room)
    <3>1. Told(s, PeersFrame(s, ids))
      BY <2>0, <2>3 DEF Entered
    <3>2. ~Introduced(s, y)
      <4>1. ~HasJoined(s)
        BY <1>1, <1>6, TakenTask DEF JoinEffect
      <4> QED BY <4>1 DEF NewsInv, JoinBeforeNews
    <3> HIDE DEF ids
    <3>3. y \in ids
      BY <1>1, <2>2, <2>3, <3>1, <3>2, HeardAfter DEF Introduced
    <3>4. /\ roomList'[x] = room
          /\ rooms'[room] = Append(rooms[room], s)
          /\ rooms[room] \in Seq(Sessions)
      BY <1>1, <2>3 DEF Entered, Enter
    <3>5. ToSet(rooms'[room]) = ToSet(rooms[room]) \cup {s}
      BY <3>4, ToSetAppend
    <3> QED BY <3>3, <3>4, <3>5 DEF ids
  <2>4. CASE x # s /\ Entered(s, room)
    <3>1. /\ roomList'[x] = roomList[x]
          /\ rooms'[room] = Append(rooms[room], s)
          /\ rooms[room] \in Seq(Sessions)
          /\ \A r \in Rooms : r # room => rooms'[r] = rooms[r]
      BY <1>1, <2>4 DEF Entered, Enter
    <3>2. ToSet(rooms'[room]) = ToSet(rooms[room]) \cup {s}
      BY <3>1, ToSetAppend
    <3>3. NotTold(x) \/ (Told(x, NewPeerFrame(s)) /\ x \in ids)
      BY <2>4 DEF Entered
    <3> HIDE DEF ids
    <3>4. /\ Introduced(x, y) \/ (y = s /\ x \in ids)
          /\ Received(x, RemovePeerFrame(y)) => Received(x, RemovePeerFrame(y))'
      <4>1. CASE NotTold(x)
        BY <4>1, HeardSame DEF Introduced
      <4>2. CASE Told(x, NewPeerFrame(s)) /\ x \in ids
        BY <1>1, <2>2, <4>2, HeardAfter DEF Introduced
      <4> QED BY <3>3, <4>1, <4>2
    <3>5. CASE y = s /\ x \in ids
      BY <2>1, <3>1, <3>2, <3>5 DEF ids
    <3>6. CASE Introduced(x, y)
      <4>1. /\ roomList[x] \in Rooms
            /\ \/ Received(x, RemovePeerFrame(y))
               \/ y \in ToSet(rooms[roomList[x]])
        BY <1>2, <2>0, <3>1, <3>6
      <4> QED BY <3>1, <3>2, <3>4, <4>1
    <3> QED BY <3>4, <3>5, <3>6
  <2>5. CASE NotEntered(s, room)
    <3>1. /\ NotTold(x) \/ Told(x, NewPeerFrame(s))
          /\ UNCHANGED <<rooms, roomList>>
          /\ y # s
      BY <2>5 DEF NotEntered
    <3> HIDE DEF ids
    <3>2. /\ Introduced(x, y)
          /\ Received(x, RemovePeerFrame(y)) => Received(x, RemovePeerFrame(y))'
      <4>1. CASE NotTold(x)
        BY <4>1, HeardSame DEF Introduced
      <4>2. CASE Told(x, NewPeerFrame(s))
        BY <1>1, <2>2, <3>1, <4>2, HeardAfter DEF Introduced
      <4> QED BY <3>1, <4>1, <4>2
    <3> QED BY <1>3, <2>0, <3>1, <3>2
  <2> QED BY <2>0, <2>3, <2>4, <2>5
<1>7. ASSUME NEW s \in Sessions, NEW room \in Rooms, CloseEffect(s, room)
      PROVE  \/ Received(x, RemovePeerFrame(y))'
             \/ y \in ToSet(rooms'[roomList'[x]])
  <2>1. /\ failed \subseteq failed' /\ conn' = conn /\ conn[s] = "closed"
        /\ NotTold(x) \/ Told(x, RemovePeerFrame(s))
        /\ Left(s, room) \/ NotLeft
        /\ x # s
    BY <1>7 DEF CloseEffect
  <2>2. /\ Introduced(x, y)
        /\ Received(x, RemovePeerFrame(y)) => Received(x, RemovePeerFrame(y))'
        /\ Told(x, RemovePeerFrame(s)) => Received(x, RemovePeerFrame(s))'
    <3>1. /\ RemovePeerFrame(s) \in Frames
          /\ RemovePeerFrame(s).event # "_peers"
          /\ NewPeerFrame(y) # RemovePeerFrame(s)
      BY FrameKinds
    <3>2. CASE NotTold(x) /\ ~Told(x, RemovePeerFrame(s))
      BY <3>2, HeardSame DEF Introduced
    <3>3. CASE Told(x, RemovePeerFrame(s))
      BY <1>1, <3>1, <3>3, HeardAfter DEF Introduced
    <3> QED BY <2>1, <3>2, <3>3
  <2>3. CASE NotLeft
    BY <1>3, <2>1, <2>2, <2>3 DEF NotLeft
  <2>4. CASE Left(s, room)
    <3>1. /\ roomList'[x] = roomList[x]
          /\ rooms'[room] = RemoveFirst(rooms[room], s)
          /\ rooms[room] \in Seq(Sessions)
          /\ \A r \in Rooms : r # room => rooms'[r] = rooms[r]
      BY <1>1, <2>1, <2>4 DEF Left, RemoveSocket
    <3>2. /\ roomList[x] \in Rooms
          /\ x \in ToSet(rooms[roomList[x]])
          /\ \/ Received(x, RemovePeerFrame(y))
             \/ y \in ToSet(rooms[roomList[x]])
      BY <1>2, <2>1, <2>2, <3>1
    <3>3. CASE y \in ToSet(rooms[roomList[x]]) /\ y = s
      <4>1. roomList[x] = room
        <5>1. roomList[s] = roomList[x]
          BY <1>1, <3>2, <3>3, MemberJoined
        <5> QED BY <1>7, <5>1 DEF CloseEffect
      <4>2. Told(x, RemovePeerFrame(s))
        BY <2>1, <2>4, <3>2, <4>1 DEF Left
      <4> QED BY <2>2, <3>3, <4>2
    <3>4. CASE y \in ToSet(rooms[roomList[x]]) /\ y # s
      <4>1. CASE roomList[x] = room
        BY <3>1, <3>4, <4>1, ToSetRemoveFirst
      <4>2. CASE roomList[x] # room
        BY <3>1, <3>2, <3>4, <4>2
      <4> QED BY <4>1, <4>2
    <3> QED BY <2>2, <3>2, <3>3, <3>4
  <2> QED BY <2>1, <2>3, <2>4
<1> QED BY <1>1, <1>4, <1>5, <1>6, <1>7, StepKinds

\* The frames at the start: there are none.
LEMMA NewsStart == ServerInit => NewsInv
<1> SUFFICES ASSUME ServerInit PROVE NewsInv
  OBVIOUS
<1>1. MembershipInv
  BY MembershipStart
<1>2. /\ \A x \in Sessions : inbox[x] = << >> /\ roomList[x] = NoRoom
      /\ \A x \in Sessions : joins[x] = 0
      /\ \A r \in Rooms : rooms[r] = << >>
  BY DEF ServerInit
<1>3. \A x \in Sessions :
         /\ \A f : ~Received(x, f)
         /\ \A y : ~ListedTo(x, y)
  BY <1>2 DEF Received, ListedTo
<1>4. RoomListBacked /\ JoinersConnected
  BY <1>2 DEF RoomListBacked, JoinersConnected
<1>5. JoinBeforeNews /\ GoneIsQuiet /\ KnownUntilTold
  BY <1>2, <1>3 DEF JoinBeforeNews, GoneIsQuiet, KnownUntilTold, Introduced
<1>6. RemovePeerIsLast /\ PairIntroduced
  BY <1>2 DEF RemovePeerIsLast, PairIntroduced
<1> QED BY <1>1, <1>4, <1>5, <1>6 DEF NewsInv

\* The invariant about the frames is inductive when no session joins twice.
LEMMA NewsAlways ==
    ASSUME MaxJoins <= 1
    PROVE  ServerSpec => []NewsInv
<1>1. NewsInv /\ [ServerNext]_serverVars => NewsInv'
  <2> SUFFICES ASSUME NewsInv, [ServerNext]_serverVars PROVE NewsInv'
    OBVIOUS
  <2>1. MembershipInv' /\ RoomListBacked'
    BY MembershipStep, BackedStep DEF NewsInv, MembershipInv
  <2> QED BY <2>1, NewsStep, LastStep, PairStep, KnownStep DEF NewsInv
<1> QED BY <1>1, NewsStart, PTL DEF ServerSpec

\* join tells exactly one of two members to call: for any number of sessions
\* and rooms, and whatever else is relayed or closed meanwhile, the earlier
\* member of a room has been sent _new_peer of the later, the later has the
\* earlier in its _peers, and never the other way round.
THEOREM PairsAlwaysIntroduced ==
    ASSUME MaxJoins <= 1
    PROVE  ServerSpec => []PairIntroduced
<1>1. NewsInv => PairIntroduced
  BY DEF NewsInv
<1> QED BY <1>1, NewsAlways, PTL

\* onClose's task is the last of its session and its _remove_peer the last frame
\* anyone gets about it: no offer, answer, candidate or introduction that was
\* still in the runner's queue follows it.
THEOREM RemovePeerAlwaysLast ==
    ASSUME MaxJoins <= 1
    PROVE  ServerSpec => []RemovePeerIsLast
<1>1. NewsInv => RemovePeerIsLast
  BY DEF NewsInv
<1> QED BY <1>1, NewsAlways, PTL

\* Nobody keeps waiting for a peer that left: whoever is still connected and was
\* introduced to a session that has closed has been sent _remove_peer, unless an
\* exception cut the leaver's own join or close task short.
THEOREM LeaveAlwaysAnnounced ==
    ASSUME MaxJoins <= 1
    PROVE  ServerSpec => []LeaveAnnounced
<1>1. NewsInv => LeaveAnnounced
  <2> SUFFICES ASSUME NewsInv, NEW s \in Sessions, NEW other \in Sessions,
                      conn[s] = "open", Introduced(s, other),
                      roomList[s] # NoRoom, Settled(other),
                      <<"join", other>> \notin failed,
                      <<"close", other>> \notin failed
               PROVE  Received(s, RemovePeerFrame(other))
    BY DEF LeaveAnnounced
  <2>1. roomList[s] \in Rooms
    BY DEF NewsInv, MembershipInv, ServerTypeOK
  <2>2. conn[other] = "closed" /\ ~Queued("close", other)
    BY DEF Settled, Pending, Queued
  <2>3. InNoRoom(other)
    BY <2>2 DEF NewsInv, MembershipInv, QueueInv, GhostsExplained
  <2>4. other \notin ToSet(rooms[roomList[s]])
    BY <2>1, <2>3 DEF InNoRoom
  <2> QED BY <2>4 DEF NewsInv, KnownUntilTold
<1> QED BY <1>1, NewsAlways, PTL

-----------------------------------------------------------------------------
(***************************************************************************)
(* The call: clients, server and network together (SignalledCall).         *)
(***************************************************************************)

\* The elements of a queue after an Append.
LEMMA AppendedQueue ==
    ASSUME NEW S, NEW q \in Seq(S), NEW x \in S
    PROVE  /\ Append(q, x) \in Seq(S)
           /\ Append(q, x) # << >>
           /\ Len(Append(q, x)) = Len(q) + 1
           /\ Append(q, x)[Len(q) + 1] = x
           /\ \A i \in 1..Len(q) : Append(q, x)[i] = q[i]
BY AppendProperties

\* The elements of a queue after its Head has been taken.
LEMMA TakenQueue ==
    ASSUME NEW S, NEW q \in Seq(S), q # << >>
    PROVE  /\ Head(q) \in S
           /\ Head(q) = q[1]
           /\ Tail(q) \in Seq(S)
           /\ Len(q) \in Nat /\ Len(q) >= 1
           /\ Len(Tail(q)) = Len(q) - 1
           /\ \A i \in 1..(Len(q) - 1) : Tail(q)[i] = q[i + 1]
BY HeadTailProperties

\* What arrives at the server is a callback of the container, and nothing else
\* in the call touches the server's state.
LEMMA CallServerStep ==
    ASSUME CallTypeOK, [Next]_vars
    PROVE  [ServerNext]_serverVars
<1> USE CallAssumption
<1>1. ASSUME NEW c \in Clients, NEW u \in Users, Connect(c, u)
      PROVE  [ServerNext]_serverVars
  BY <1>1 DEF Connect, ServerNext, Container
<1>2. ASSUME NEW c \in Clients, Arrive(c)
      PROVE  [ServerNext]_serverVars
  <2>1. Head(up[c]) \in Messages
    BY <1>2, TakenQueue DEF Arrive, CallTypeOK, ClientTypeOK
  <2>2. CASE Head(up[c]).op = "join"
    <3>1. PICK r \in Rooms : OnJoinMessage(c, r)
      BY <1>2, <2>2 DEF Arrive
    <3> QED BY <3>1 DEF ServerNext, Container
  <2>3. CASE Head(up[c]).op # "join"
    <3>1. OnRelayMessage(c, Head(up[c]).op, Head(up[c]).to)
      BY <1>2, <2>3 DEF Arrive
    <3>2. Head(up[c]).op \in RelayKinds /\ Head(up[c]).to \in Sessions
      BY <2>1, <2>3 DEF Messages, RelayKinds
    <3> QED BY <3>1, <3>2 DEF ServerNext, Container
  <2> QED BY <2>2, <2>3
<1>3. ASSUME NEW c \in Clients, ServerNotices(c)
      PROVE  [ServerNext]_serverVars
  BY <1>3 DEF ServerNotices, ServerNext, Container
<1>4. CASE RunnerStep
  BY <1>4 DEF RunnerStep, ServerNext
<1>5. ASSUME NEW c \in Clients,
             \/ JoinRoom(c) \/ ExitRoom(c) \/ Deliver(c) \/ WsOnClose(c)
             \/ Lose(c) \/ ExecutorStep(c) \/ ObserverStep(c)
      PROVE  [ServerNext]_serverVars
  BY <1>5 DEF JoinRoom, ExitRoom, Deliver, WsOnClose, Lose, ExecutorStep,
              ObserverStep
<1>6. CASE UNCHANGED vars
  BY <1>6 DEF vars
<1> QED BY <1>1, <1>2, <1>3, <1>4, <1>5, <1>6 DEF Next

\* The task a frame becomes is one the executor knows.
LEMMA TaskForType ==
    ASSUME NEW frame \in Frames
    PROVE  /\ TaskFor(frame) \in ExecTasks
           /\ TaskFor(frame).op # "exit"
<1> USE CallAssumption
<1>1. CASE frame.event = "_peers"
  <2>1. frame.connections \in SUBSET Clients
    BY <1>1 DEF Frames, RelayKinds
  <2>2. TaskFor(frame) = [op |-> "peers", connections |-> frame.connections]
    BY <1>1 DEF TaskFor
  <2> QED BY <2>1, <2>2 DEF ExecTasks
<1>2. CASE frame.event # "_peers"
  <2>1. /\ frame.socketId \in Clients
        /\ frame.event \in {"_new_peer", "_remove_peer", "ice_candidate",
                            "offer", "answer"}
    BY <1>2 DEF Frames, RelayKinds
  <2>2. PICK op \in {"new_peer", "remove_peer", "offer", "answer",
                     "ice_candidate"} :
            TaskFor(frame) = [op |-> op, id |-> frame.socketId]
    BY <1>2, <2>1 DEF TaskFor
  <2> QED BY <2>1, <2>2 DEF ExecTasks
<1> QED BY <1>1, <1>2

\* What is known of a connection (PeerConnection).
PeerStates == [sig : SignalingStates, remote : BOOLEAN, candidates : Nat]

\* A connection whose description changes.
LEMMA PeerFields ==
    ASSUME NEW pc \in PeerStates, NEW to \in SignalingStates
    PROVE  /\ [pc EXCEPT !.sig = to] \in PeerStates
           /\ [pc EXCEPT !.sig = to].sig = to
           /\ [pc EXCEPT !.sig = to].remote = pc.remote
           /\ [pc EXCEPT !.sig = to, !.remote = TRUE] \in PeerStates
           /\ [pc EXCEPT !.sig = to, !.remote = TRUE].sig = to
           /\ [pc EXCEPT !.sig = to, !.remote = TRUE].remote = TRUE
<1>1. PICK q \in PeerStates : q = [pc EXCEPT !.sig = to]
  BY DEF PeerStates
<1>2. q.sig = to /\ q.remote = pc.remote
  BY <1>1 DEF PeerStates
<1>3. PICK r \in PeerStates : r = [q EXCEPT !.remote = TRUE]
  BY DEF PeerStates
<1>4. r.sig = to /\ r.remote = TRUE
  BY <1>2, <1>3 DEF PeerStates
<1> QED BY <1>1, <1>2, <1>3, <1>4

\* A connection that has got a candidate.
LEMMA CandidateFields ==
    ASSUME NEW pc \in PeerStates
    PROVE  /\ [pc EXCEPT !.candidates = @ + 1] \in PeerStates
           /\ [pc EXCEPT !.candidates = @ + 1].sig = pc.sig
           /\ [pc EXCEPT !.candidates = @ + 1].remote = pc.remote
<1>0. PICK n \in Nat : n = pc.candidates + 1
  BY DEF PeerStates
<1>1. PICK q \in PeerStates : q = [pc EXCEPT !.candidates = n]
  BY DEF PeerStates
<1>2. q.sig = pc.sig /\ q.remote = pc.remote
  BY <1>1 DEF PeerStates
<1> QED BY <1>0, <1>1, <1>2

\* The connection that is set, and the others.
LEMMA PeerSet ==
    ASSUME peers \in [Clients -> [Clients -> PeerStates]],
           NEW c \in Clients, NEW p \in Clients, NEW pc \in PeerStates,
           SetPeer(c, p, pc)
    PROVE  /\ peers' \in [Clients -> [Clients -> PeerStates]]
           /\ peers'[c][p] = pc
           /\ \A x, y \in Clients : x # c \/ y # p => peers'[x][y] = peers[x][y]
BY DEF SetPeer

\* The same for the observer calls that are pending.
LEMMA PendingSet ==
    ASSUME pending \in [Clients -> [Clients -> Seq(ObserverCalls)]],
           NEW c \in Clients, NEW p \in Clients, NEW q \in Seq(ObserverCalls),
           pending' = [pending EXCEPT ![c][p] = q]
    PROVE  /\ pending' \in [Clients -> [Clients -> Seq(ObserverCalls)]]
           /\ pending'[c][p] = q
           /\ \A x, y \in Clients :
                 x # c \/ y # p => pending'[x][y] = pending[x][y]
OBVIOUS

\* The executor's tasks keep the types of the client.
LEMMA ExecutorTypes ==
    ASSUME ClientTypeOK, NEW c \in Clients, Executor(c)
    PROVE  ClientTypeOK'
<1> USE DEF ClientTypeOK
<1>1. /\ exec[c] # << >> /\ exec' = [exec EXCEPT ![c] = Tail(exec[c])]
      /\ Head(exec[c]) \in ExecTasks /\ Tail(exec[c]) \in Seq(ExecTasks)
  <2>1. exec[c] # << >> /\ exec' = [exec EXCEPT ![c] = Tail(exec[c])]
    BY DEF Executor, ExecPeers, ExecNewPeer, ExecRemovePeer, ExecOffer,
           ExecAnswer, ExecCandidate, ExecExit, TakeTask
  <2> QED BY <2>1, TakenQueue
<1>2. exec' \in [Clients -> Seq(ExecTasks)]
  BY <1>1
<1>3. /\ NewPeer \in PeerStates
      /\ NoPeer \in PeerStates
      /\ peers \in [Clients -> [Clients -> PeerStates]]
  BY DEF NewPeer, NoPeer, SignalingStates, PeerStates
<1>4. "set" \in ObserverCalls /\ "offer_created" \in ObserverCalls
  BY DEF ObserverCalls
<1>5. Head(exec[c]).op \in {"new_peer", "remove_peer", "offer", "answer",
                            "ice_candidate"}
         => Head(exec[c]).id \in Clients
  BY <1>1 DEF ExecTasks
<1>6. CASE ExecPeers(c)
  <2> DEFINE ids == Head(exec[c]).connections \cup {p \in Clients : Has(c, p)}
  <2>1. /\ CallAll(c, ids) /\ CreateLocalStream(c) /\ CreateConnectionFactory(c)
        /\ UNCHANGED <<ws, up, webSocket, crashed>>
    BY <1>6 DEF ExecPeers
  <2> HIDE DEF ids
  <2>2. peers' \in [Clients -> [Clients -> PeerStates]]
    BY <1>3, <2>1 DEF CallAll
  <2>3. pending' \in [Clients -> [Clients -> Seq(ObserverCalls)]]
    <3>1. \A p \in Clients :
             pending[c][p] \o <<"offer_created">> \in Seq(ObserverCalls)
      BY <1>4, ConcatProperties
    <3> QED BY <2>1, <3>1 DEF CallAll
  <2>4. /\ stream' \in [Clients -> BOOLEAN]
        /\ factory' \in [Clients -> BOOLEAN]
        /\ camera' \in [Clients -> BOOLEAN]
        /\ role' \in [Clients -> {"none", "Caller", "Receiver"}]
    BY <2>1 DEF CallAll, CreateLocalStream, CreateConnectionFactory
  <2> QED BY <1>2, <2>1, <2>2, <2>3, <2>4 DEF PeerStates
<1>7. CASE ExecNewPeer(c)
  <2>1. Head(exec[c]).id \in Clients
    BY <1>5, <1>7 DEF ExecNewPeer, TakeTask
  <2>2. CASE ~stream[c] /\ ~factory[c]
    BY <1>2, <1>7, <2>2 DEF ExecNewPeer, Crash, mediaVars
  <2>3. CASE ~(~stream[c] /\ ~factory[c])
    <3>1. /\ SetPeer(c, Head(exec[c]).id, NewPeer)
          /\ CreateConnectionFactory(c) /\ CreateLocalStream(c)
          /\ UNCHANGED <<ws, crashed, up, role, webSocket, pending>>
      BY <1>7, <2>3 DEF ExecNewPeer
    <3>2. peers' \in [Clients -> [Clients -> PeerStates]]
      BY <1>3, <2>1, <3>1, PeerSet
    <3>3. /\ stream' \in [Clients -> BOOLEAN]
          /\ factory' \in [Clients -> BOOLEAN]
          /\ camera' \in [Clients -> BOOLEAN]
      BY <3>1 DEF CreateLocalStream, CreateConnectionFactory
    <3> QED BY <1>2, <3>1, <3>2, <3>3 DEF PeerStates
  <2> QED BY <2>2, <2>3
<1>8. CASE ExecRemovePeer(c)
  BY <1>2, <1>3, <1>5, <1>8, EmptySeq
     DEF ExecRemovePeer, TakeTask, ClosePeerConnection, SetPeer, mediaVars,
         PeerStates
<1>9. ASSUME NEW from, NEW to \in SignalingStates, NEW p \in Clients,
             SetRemote(c, p, from, to)
      PROVE  /\ peers' \in [Clients -> [Clients -> PeerStates]]
             /\ pending' \in [Clients -> [Clients -> Seq(ObserverCalls)]]
  <2>1. CASE peers[c][p].sig = from
    <3>1. [peers[c][p] EXCEPT !.sig = to, !.remote = TRUE] \in PeerStates
      <4> HIDE DEF ClientTypeOK
      <4>1. PICK pc \in PeerStates : pc = peers[c][p]
        BY <1>3
      <4> QED BY <4>1, PeerFields
    <3>2. pending[c][p] \o <<"set">> \in Seq(ObserverCalls)
      BY <1>4, ConcatProperties
    <3> HIDE DEF ClientTypeOK
    <3>3. /\ SetPeer(c, p, [peers[c][p] EXCEPT !.sig = to, !.remote = TRUE])
          /\ pending' = [pending EXCEPT ![c][p] = pending[c][p] \o <<"set">>]
      BY <1>9, <2>1 DEF SetRemote, Notify
    <3>4. pending \in [Clients -> [Clients -> Seq(ObserverCalls)]]
      BY DEF ClientTypeOK
    <3> QED BY <1>3, <3>1, <3>2, <3>3, <3>4, PeerSet, PendingSet
  <2>2. CASE peers[c][p].sig # from
    BY <1>3, <1>9, <2>2 DEF SetRemote
  <2> QED BY <2>1, <2>2
<1>10. CASE ExecOffer(c)
  <2>1. Head(exec[c]).id \in Clients
    BY <1>5, <1>10 DEF ExecOffer, TakeTask
  <2>2. SetRemote(c, Head(exec[c]).id, "stable", "have_remote_offer")
    BY <1>10 DEF ExecOffer
  <2>3. "have_remote_offer" \in SignalingStates
    BY DEF SignalingStates
  <2>4. /\ peers' \in [Clients -> [Clients -> PeerStates]]
        /\ pending' \in [Clients -> [Clients -> Seq(ObserverCalls)]]
    BY <1>9, <2>1, <2>2, <2>3
  <2> QED BY <1>2, <1>10, <2>4 DEF ExecOffer, mediaVars, PeerStates
<1>11. CASE ExecAnswer(c)
  <2>1. Head(exec[c]).id \in Clients
    BY <1>5, <1>11 DEF ExecAnswer, TakeTask
  <2>2. SetRemote(c, Head(exec[c]).id, "have_local_offer", "stable")
    BY <1>11 DEF ExecAnswer
  <2>3. "stable" \in SignalingStates
    BY DEF SignalingStates
  <2>4. /\ peers' \in [Clients -> [Clients -> PeerStates]]
        /\ pending' \in [Clients -> [Clients -> Seq(ObserverCalls)]]
    BY <1>9, <2>1, <2>2, <2>3
  <2> QED BY <1>2, <1>11, <2>4 DEF ExecAnswer, mediaVars, PeerStates
<1>12. CASE ExecCandidate(c)
  <2>1. Head(exec[c]).id \in Clients
    BY <1>5, <1>12 DEF ExecCandidate, TakeTask
  <2>2. PICK p \in Clients : p = Head(exec[c]).id
    BY <2>1
  <2>3. [peers[c][p] EXCEPT !.candidates = @ + 1] \in PeerStates
    <3> HIDE DEF ClientTypeOK
    <3> QED BY <1>3, CandidateFields
  <2>4. peers' \in [Clients -> [Clients -> PeerStates]]
    <3> HIDE DEF ClientTypeOK
    <3> QED BY <1>3, <1>12, <2>2, <2>3, PeerSet DEF ExecCandidate
  <2> QED BY <1>2, <1>12, <2>4 DEF ExecCandidate, mediaVars, PeerStates
<1>13. CASE ExecExit(c)
  BY <1>2, <1>3, <1>13, EmptySeq DEF ExecExit, PeerStates
<1> QED BY <1>6, <1>7, <1>8, <1>10, <1>11, <1>12, <1>13 DEF Executor

\* The calls that follow a local description: one onSetSuccess and then only
\* candidates.
LEMMA Gathering ==
    ASSUME NEW q \in Seq(ObserverCalls)
    PROVE  /\ q \o <<"set">> \o Gathered \in Seq(ObserverCalls)
           /\ q = << >> => \A i \in DOMAIN (q \o <<"set">> \o Gathered) :
                 IF i = 1 THEN (q \o <<"set">> \o Gathered)[i] = "set"
                 ELSE (q \o <<"set">> \o Gathered)[i] = "candidate"
<1> USE ClientAssumption
<1>1. <<"set">> \in Seq(ObserverCalls) /\ Gathered \in Seq(ObserverCalls)
  BY DEF ObserverCalls, Gathered
<1>2. PICK r \in Seq(ObserverCalls) : r = q \o <<"set">>
  BY <1>1, ConcatProperties
<1>3. r \o Gathered \in Seq(ObserverCalls)
  BY <1>1, ConcatProperties
<1>4. ASSUME q = << >>, NEW i \in DOMAIN (r \o Gathered)
      PROVE  IF i = 1 THEN (r \o Gathered)[i] = "set"
             ELSE (r \o Gathered)[i] = "candidate"
  <2>1. r = <<"set">>
    BY <1>2, <1>4
  <2>2. i \in Nat /\ 1 <= i /\ i <= 1 + Candidates
    BY <1>1, <1>4, <2>1 DEF Gathered
  <2> QED BY <1>1, <1>4, <2>1, <2>2 DEF Gathered
<1> QED BY <1>2, <1>3, <1>4

\* webSocket.sendX() keeps the types.
LEMMA TransmitTypes ==
    ASSUME ClientTypeOK, NEW c \in Clients, NEW m \in Messages, Transmit(c, m)
    PROVE  /\ ws' \in [Clients -> {"idle", "open", "cut", "closing", "closed"}]
           /\ up' \in [Clients -> Seq(Messages)]
           /\ crashed' \in [Clients -> BOOLEAN]
<1>1. CASE webSocket[c] /\ ws[c] \in {"open", "cut"}
  <2>1. /\ up' = IF ws[c] = "open" THEN [up EXCEPT ![c] = Append(up[c], m)]
                 ELSE up
        /\ UNCHANGED <<ws, crashed>>
    BY <1>1 DEF Transmit
  <2>2. Append(up[c], m) \in Seq(Messages)
    BY AppendedQueue DEF ClientTypeOK
  <2> QED BY <2>1, <2>2 DEF ClientTypeOK
<1>2. CASE ~(webSocket[c] /\ ws[c] \in {"open", "cut"})
  BY <1>2 DEF Transmit, Crash, ClientTypeOK
<1> QED BY <1>1, <1>2

\* The calls of the library's signalling thread keep the types of the client.
LEMMA ObserverTypes ==
    ASSUME ClientTypeOK, NEW c \in Clients, SignallingThread(c)
    PROVE  ClientTypeOK'
<1>1. PICK p \in Clients :
         \/ OnCreateSuccess(c, p, "offer_created", "stable", "have_local_offer")
         \/ OnCreateSuccess(c, p, "answer_created", "have_remote_offer",
                            "stable")
         \/ OnSetSuccess(c, p)
         \/ OnIceCandidate(c, p)
  BY DEF SignallingThread
<1>2. /\ peers \in [Clients -> [Clients -> PeerStates]]
      /\ pending \in [Clients -> [Clients -> Seq(ObserverCalls)]]
      /\ peers[c][p] \in PeerStates
      /\ pending[c][p] \in Seq(ObserverCalls)
  BY DEF ClientTypeOK, PeerStates
<1>3. pending[c][p] # << >> => Tail(pending[c][p]) \in Seq(ObserverCalls)
  BY <1>2, TakenQueue
<1>4. ASSUME NEW call, NEW from, NEW to \in SignalingStates,
             OnCreateSuccess(c, p, call, from, to)
      PROVE  ClientTypeOK'
  <2>1. Tail(pending[c][p]) \in Seq(ObserverCalls)
    BY <1>3, <1>4 DEF OnCreateSuccess, TakeCall
  <2>2. PICK t \in Seq(ObserverCalls) : t = Tail(pending[c][p])
    BY <2>1
  <2>3. PICK g \in Seq(ObserverCalls) : g = t \o <<"set">> \o Gathered
    BY Gathering
  <2>4. /\ peers' \in [Clients -> [Clients -> PeerStates]]
        /\ pending' \in [Clients -> [Clients -> Seq(ObserverCalls)]]
    <3>1. CASE peers[c][p].sig = from
      <4>1. /\ SetPeer(c, p, [peers[c][p] EXCEPT !.sig = to])
            /\ pending' = [pending EXCEPT ![c][p] = g]
        BY <1>4, <2>2, <2>3, <3>1 DEF OnCreateSuccess
      <4>2. [peers[c][p] EXCEPT !.sig = to] \in PeerStates
        BY <1>2, PeerFields
      <4> QED BY <1>2, <4>1, <4>2, PeerSet, PendingSet
    <3>2. CASE peers[c][p].sig # from
      <4>1. pending' = [pending EXCEPT ![c][p] = t] /\ UNCHANGED peers
        BY <1>4, <2>2, <3>2 DEF OnCreateSuccess
      <4> QED BY <1>2, <4>1, PendingSet
    <3> QED BY <3>1, <3>2
  <2>5. UNCHANGED <<ws, up, exec, role, webSocket, mediaVars, crashed>>
    BY <1>4 DEF OnCreateSuccess
  <2> QED BY <2>4, <2>5 DEF ClientTypeOK, PeerStates, mediaVars
<1>5. CASE OnSetSuccess(c, p)
  <2>1. PICK t \in Seq(ObserverCalls) : t = Tail(pending[c][p])
    BY <1>3, <1>5 DEF OnSetSuccess, TakeCall
  <2>2. UNCHANGED <<exec, role, webSocket, mediaVars, peers>>
    BY <1>5 DEF OnSetSuccess
  <2>3. CASE peers[c][p].sig = "have_remote_offer"
    <3>1. t \o <<"answer_created">> \in Seq(ObserverCalls)
      BY ConcatProperties DEF ObserverCalls
    <3>2. /\ pending' = [pending EXCEPT ![c][p] = t \o <<"answer_created">>]
          /\ UNCHANGED <<ws, up, crashed>>
      BY <1>5, <2>1, <2>3 DEF OnSetSuccess
    <3>3. pending' \in [Clients -> [Clients -> Seq(ObserverCalls)]]
      BY <1>2, <3>1, <3>2, PendingSet
    <3> QED BY <2>2, <3>2, <3>3 DEF ClientTypeOK, mediaVars
  <2>4. CASE peers[c][p].sig # "have_remote_offer"
    <3>1. pending' \in [Clients -> [Clients -> Seq(ObserverCalls)]]
      BY <1>2, <1>5, <2>1, <2>4, PendingSet DEF OnSetSuccess
    <3>2. CASE Reply(c, p) = "nothing"
      BY <1>5, <2>2, <2>4, <3>1, <3>2 DEF OnSetSuccess, ClientTypeOK, mediaVars
    <3>3. CASE Reply(c, p) # "nothing"
      <4>1. Reply(c, p) \in {"offer", "answer"}
        BY <3>3 DEF Reply
      <4>2. /\ [op |-> Reply(c, p), to |-> p] \in Messages
            /\ Transmit(c, [op |-> Reply(c, p), to |-> p])
        BY <1>5, <2>4, <3>3, <4>1 DEF OnSetSuccess, Messages
      <4> QED BY <2>2, <3>1, <4>2, TransmitTypes DEF ClientTypeOK, mediaVars
    <3> QED BY <3>2, <3>3
  <2> QED BY <2>3, <2>4
<1>6. CASE OnIceCandidate(c, p)
  <2>1. Tail(pending[c][p]) \in Seq(ObserverCalls)
    BY <1>3, <1>6 DEF OnIceCandidate, TakeCall
  <2>2. /\ [op |-> "ice_candidate", to |-> p] \in Messages
        /\ Transmit(c, [op |-> "ice_candidate", to |-> p])
        /\ pending' = [pending EXCEPT ![c][p] = Tail(pending[c][p])]
        /\ UNCHANGED <<exec, role, webSocket, mediaVars, peers>>
    BY <1>6 DEF OnIceCandidate, Messages
  <2>3. pending' \in [Clients -> [Clients -> Seq(ObserverCalls)]]
    BY <1>2, <2>1, <2>2, PendingSet
  <2> QED BY <2>2, <2>3, TransmitTypes DEF ClientTypeOK, mediaVars
<1>7. "have_local_offer" \in SignalingStates /\ "stable" \in SignalingStates
  BY DEF SignalingStates
<1> QED BY <1>1, <1>4, <1>5, <1>6, <1>7

\* Every step of the call keeps the types.
LEMMA CallTypeStep ==
    ASSUME CallTypeOK, [Next]_vars
    PROVE  CallTypeOK'
<1> USE CallAssumption
<1>1. ServerTypeOK /\ ServerTypeOK' /\ ClientTypeOK
  BY CallServerStep, TypeStep DEF CallTypeOK
<1>2. ASSUME NEW c \in Clients, NEW u \in Users, Connect(c, u)
      PROVE  CallTypeOK'
  BY <1>1, <1>2 DEF Connect, CallTypeOK, ClientTypeOK, mediaVars, callVars
<1>3. ASSUME NEW c \in Clients, JoinRoom(c)
      PROVE  CallTypeOK'
  <2>1. [op |-> "join"] \in Messages
    BY DEF Messages
  <2>2. up' \in [Clients -> Seq(Messages)]
    BY <1>1, <1>3, <2>1, AppendedQueue DEF JoinRoom, ClientTypeOK
  <2>3. UNCHANGED <<ws, exec, role, webSocket, mediaVars, peers, pending,
                    crashed, seen, left>>
    BY <1>3 DEF JoinRoom
  <2>4. joined' \in [Clients -> BOOLEAN]
    BY <1>3 DEF JoinRoom, CallTypeOK
  <2> QED BY <1>1, <2>2, <2>3, <2>4 DEF CallTypeOK, ClientTypeOK, mediaVars
<1>4. [op |-> "exit"] \in ExecTasks
  BY DEF ExecTasks
<1>5. ASSUME NEW c \in Clients, NEW task \in ExecTasks,
             exec' = [exec EXCEPT ![c] = Append(exec[c], task)],
             ws' \in [Clients -> {"idle", "open", "cut", "closing", "closed"}],
             UNCHANGED <<up, role, webSocket, mediaVars, peers, pending,
                         crashed>>
      PROVE  ClientTypeOK'
  <2>1. exec' \in [Clients -> Seq(ExecTasks)]
    BY <1>1, <1>5, AppendedQueue DEF ClientTypeOK
  <2> QED BY <1>1, <1>5, <2>1 DEF ClientTypeOK, mediaVars
<1>6. ASSUME NEW c \in Clients, ExitRoom(c)
      PROVE  CallTypeOK'
  BY <1>1, <1>4, <1>5, <1>6 DEF ExitRoom, CallTypeOK, ClientTypeOK
<1>7. ASSUME NEW c \in Clients, Deliver(c)
      PROVE  CallTypeOK'
  <2>1. seen[c] \in Nat /\ seen' \in [Clients -> Nat]
    BY <1>7 DEF Deliver, CallTypeOK
  <2>2. inbox[c] \in Seq(Frames)
    BY <1>1 DEF ServerTypeOK
  <2>3. inbox[c][seen[c] + 1] \in Frames
    BY <1>7, <2>1, <2>2, ElementOfSeq DEF Deliver
  <2>4. TaskFor(inbox[c][seen[c] + 1]) \in ExecTasks
    BY <2>3, TaskForType
  <2> QED BY <1>1, <1>5, <1>7, <2>1, <2>4 DEF Deliver, CallTypeOK, ClientTypeOK
<1>8. ASSUME NEW c \in Clients, WsOnClose(c)
      PROVE  CallTypeOK'
  <2>1. ws' \in [Clients -> {"idle", "open", "cut", "closing", "closed"}]
    BY <1>1, <1>8 DEF WsOnClose, ClientTypeOK
  <2> QED BY <1>1, <1>4, <1>5, <1>8, <2>1
          DEF WsOnClose, CallTypeOK, callVars
<1>9. ASSUME NEW c \in Clients, Arrive(c)
      PROVE  CallTypeOK'
  <2>1. up' \in [Clients -> Seq(Messages)]
    BY <1>1, <1>9, TakenQueue DEF Arrive, ClientTypeOK
  <2>2. UNCHANGED <<ws, exec, role, webSocket, mediaVars, peers, pending,
                    crashed, callVars>>
    BY <1>9 DEF Arrive
  <2> QED BY <1>1, <2>1, <2>2 DEF CallTypeOK, ClientTypeOK, mediaVars, callVars
<1>10. ASSUME NEW c \in Clients, Lose(c)
       PROVE  CallTypeOK'
  BY <1>1, <1>10, EmptySeq DEF Lose, CallTypeOK, ClientTypeOK, mediaVars, callVars
<1>11. ASSUME NEW c \in Clients, ServerNotices(c)
       PROVE  CallTypeOK'
  BY <1>1, <1>11 DEF ServerNotices, CallTypeOK, ClientTypeOK, clientVars, callVars
<1>12. CASE RunnerStep
  BY <1>1, <1>12 DEF RunnerStep, CallTypeOK, ClientTypeOK, clientVars, callVars
<1>13. ASSUME NEW c \in Clients, ExecutorStep(c)
       PROVE  CallTypeOK'
  <2>1. ClientTypeOK'
    BY <1>1, <1>13, ExecutorTypes DEF ExecutorStep
  <2> QED BY <1>1, <1>13, <2>1 DEF ExecutorStep, CallTypeOK, callVars
<1>14. ASSUME NEW c \in Clients, ObserverStep(c)
       PROVE  CallTypeOK'
  <2>1. ClientTypeOK'
    BY <1>1, <1>14, ObserverTypes DEF ObserverStep
  <2> QED BY <1>1, <1>14, <2>1 DEF ObserverStep, CallTypeOK, callVars
<1>15. CASE UNCHANGED vars
  BY <1>1, <1>15 DEF vars, clientVars, callVars, CallTypeOK, ClientTypeOK
<1> QED BY <1>2, <1>3, <1>6, <1>7, <1>8, <1>9, <1>10, <1>11, <1>12, <1>13,
           <1>14, <1>15 DEF Next

\* A call starts with the types right.
LEMMA CallTypeStart == Init => CallTypeOK
<1> SUFFICES ASSUME Init PROVE CallTypeOK
  OBVIOUS
<1>1. ServerTypeOK
  BY MembershipStart DEF Init, MembershipInv
<1>2. NoPeer \in PeerStates
  BY DEF NoPeer, PeerStates, SignalingStates
<1>3. ClientTypeOK
  BY <1>2, EmptySeq DEF Init, ClientInit, ClientTypeOK, PeerStates
<1> QED BY <1>1, <1>3 DEF Init, CallTypeOK

\* The queues between clients and server hold only what was sent, and every
\* field has its values, for any number of clients.
THEOREM CallTypeCorrect == Spec => []CallTypeOK
<1>1. CallTypeOK /\ [Next]_vars => CallTypeOK'
  BY CallTypeStep
<1> QED BY <1>1, CallTypeStart, PTL DEF Spec

\* The server in a call does what the server does on its own: what is proved of
\* SignallingServer holds in every call.
THEOREM CallUsesServer == Spec => ServerSpec
<1>1. Init => ServerInit
  BY DEF Init
<1>2. CallTypeOK /\ [Next]_vars => [ServerNext]_serverVars
  BY CallServerStep
<1> QED BY <1>1, <1>2, CallTypeCorrect, PTL DEF Spec, ServerSpec

-----------------------------------------------------------------------------
(* The end of a call.                                                      *)

\* The two ends of a connection begin together; a client whose socket has not
\* been opened has nothing to do; and the field webSocket is cleared no earlier
\* than the socket is closed.
SocketsAgree ==
    \A c \in Clients :
        /\ ws[c] = "idle" <=> conn[c] = "idle"
        /\ ws[c] = "idle" => exec[c] = << >> /\ ~joined[c]
        /\ ws[c] \in {"idle", "open", "cut"} => webSocket[c]

\* Nothing of the call is left.
Released(c) ==
    /\ ~factory[c]
    /\ ~camera[c]
    /\ \A p \in Clients : ~Has(c, p)

\* After onClose the executor ends with exitRoom's task, or has run it.
EndInSight ==
    \A c \in Clients :
        ws[c] = "closed" /\ ~crashed[c] =>
            IF exec[c] = << >> THEN Released(c)
            ELSE exec[c][Len(exec[c])].op = "exit"

EndInv == CallTypeOK /\ SocketsAgree /\ EndInSight

\* A crash and a message leave the socket open or cut it.
LEMMA TransmitSocket ==
    ASSUME ClientTypeOK, NEW c \in Clients, NEW m, Transmit(c, m)
    PROVE  /\ \/ ws' = ws
              \/ ws[c] = "open" /\ ws' = [ws EXCEPT ![c] = "cut"]
           /\ crashed' = crashed \/ crashed' = [crashed EXCEPT ![c] = TRUE]
           /\ crashed'[c] /\ ~crashed[c] =>
                 ~(webSocket[c] /\ ws[c] \in {"open", "cut"})
BY DEF Transmit, Crash, ClientTypeOK

\* Calls of the signalling thread open no connection and do not reopen a socket.
LEMMA ObserverSocket ==
    ASSUME ClientTypeOK, NEW c \in Clients, SignallingThread(c)
    PROVE  /\ UNCHANGED <<exec, webSocket, factory, stream, camera>>
           /\ \/ ws' = ws
              \/ ws[c] = "open" /\ ws' = [ws EXCEPT ![c] = "cut"]
           /\ crashed' = crashed \/ crashed' = [crashed EXCEPT ![c] = TRUE]
           /\ crashed'[c] /\ ~crashed[c] =>
                 ~(webSocket[c] /\ ws[c] \in {"open", "cut"})
           /\ \A x, p \in Clients : Has(x, p)' <=> Has(x, p)
<1>1. PICK p \in Clients :
         \/ OnCreateSuccess(c, p, "offer_created", "stable", "have_local_offer")
         \/ OnCreateSuccess(c, p, "answer_created", "have_remote_offer",
                            "stable")
         \/ OnSetSuccess(c, p)
         \/ OnIceCandidate(c, p)
  BY DEF SignallingThread
<1>2. UNCHANGED <<exec, webSocket, factory, stream, camera>>
  BY <1>1 DEF OnCreateSuccess, OnSetSuccess, OnIceCandidate, mediaVars
<1>3. ASSUME NEW call, NEW from, NEW to \in SignalingStates \ {"none"},
             from # "none", OnCreateSuccess(c, p, call, from, to)
      PROVE  \A x, y \in Clients : Has(x, y)' <=> Has(x, y)
  <2>1. CASE peers[c][p].sig = from
    <3>1. peers \in [Clients -> [Clients -> PeerStates]]
      BY DEF ClientTypeOK, PeerStates
    <3>2. PICK pc \in PeerStates :
             pc = [peers[c][p] EXCEPT !.sig = to] /\ pc.sig = to
      <4>1. PICK q \in PeerStates : q = peers[c][p]
        BY <3>1
      <4>2. [q EXCEPT !.sig = to] \in PeerStates /\ [q EXCEPT !.sig = to].sig = to
        BY <1>3, PeerFields
      <4> QED BY <4>1, <4>2
    <3>3. pc.sig = to
      BY <3>2
    <3>4. SetPeer(c, p, pc)
      BY <1>3, <2>1, <3>2 DEF OnCreateSuccess
    <3>5. /\ peers'[c][p] = pc
          /\ \A x, y \in Clients : x # c \/ y # p => peers'[x][y] = peers[x][y]
      BY <3>1, <3>4, PeerSet
    <3> QED BY <1>3, <2>1, <3>3, <3>5 DEF Has
  <2>2. CASE peers[c][p].sig # from
    BY <1>3, <2>2 DEF OnCreateSuccess, Has
  <2> QED BY <2>1, <2>2
<1>4. CASE OnCreateSuccess(c, p, "offer_created", "stable", "have_local_offer")
  <2>1. \A x, y \in Clients : Has(x, y)' <=> Has(x, y)
    BY <1>3, <1>4 DEF SignalingStates
  <2> QED BY <1>2, <1>4, <2>1 DEF OnCreateSuccess
<1>5. CASE OnCreateSuccess(c, p, "answer_created", "have_remote_offer", "stable")
  <2>1. \A x, y \in Clients : Has(x, y)' <=> Has(x, y)
    BY <1>3, <1>5 DEF SignalingStates
  <2> QED BY <1>2, <1>5, <2>1 DEF OnCreateSuccess
<1>6. CASE OnSetSuccess(c, p)
  <2>1. UNCHANGED peers
    BY <1>6 DEF OnSetSuccess
  <2>2. \/ UNCHANGED <<ws, crashed>>
        \/ \E m : Transmit(c, m)
    BY <1>6 DEF OnSetSuccess
  <2> QED BY <1>2, <2>1, <2>2, TransmitSocket DEF Has
<1>7. CASE OnIceCandidate(c, p)
  <2>1. UNCHANGED peers /\ \E m : Transmit(c, m)
    BY <1>7 DEF OnIceCandidate
  <2> QED BY <1>2, <2>1, TransmitSocket DEF Has
<1> QED BY <1>1, <1>4, <1>5, <1>6, <1>7

\* A task of the executor closes a socket or cuts it, and only for its client;
\* exitRoom's releases everything.
LEMMA ExecutorSocket ==
    ASSUME ClientTypeOK, NEW c \in Clients, Executor(c)
    PROVE  /\ exec[c] # << >> /\ ~crashed[c]
           /\ exec' = [exec EXCEPT ![c] = Tail(exec[c])]
           /\ \A x \in Clients \ {c} :
                 /\ ws'[x] = ws[x] /\ webSocket'[x] = webSocket[x]
                 /\ factory'[x] = factory[x] /\ camera'[x] = camera[x]
                 /\ crashed'[x] = crashed[x] /\ peers'[x] = peers[x]
           /\ IF Head(exec[c]).op = "exit"
              THEN /\ ~webSocket'[c]
                   /\ ws'[c] = IF webSocket[c] /\ ws[c] \in {"open", "cut"}
                               THEN "closing" ELSE ws[c]
                   /\ Released(c)' /\ crashed' = crashed
              ELSE /\ webSocket'[c] = webSocket[c]
                   /\ ws'[c] = ws[c] \/ (ws[c] = "open" /\ ws'[c] = "cut")
<1>1. CASE ExecPeers(c)
  BY <1>1 DEF ExecPeers, TakeTask, CallAll, CreateLocalStream,
              CreateConnectionFactory, ClientTypeOK
<1>2. CASE ExecNewPeer(c)
  BY <1>2 DEF ExecNewPeer, TakeTask, SetPeer, Crash, CreateLocalStream,
              CreateConnectionFactory, ClientTypeOK, mediaVars
<1>3. CASE ExecRemovePeer(c)
  BY <1>3 DEF ExecRemovePeer, TakeTask, SetPeer, ClosePeerConnection,
              ClientTypeOK, mediaVars
<1>4. CASE ExecOffer(c)
  BY <1>4 DEF ExecOffer, TakeTask, SetRemote, SetPeer, ClientTypeOK, mediaVars
<1>5. CASE ExecAnswer(c)
  BY <1>5 DEF ExecAnswer, TakeTask, SetRemote, SetPeer, ClientTypeOK, mediaVars
<1>6. CASE ExecCandidate(c)
  BY <1>6 DEF ExecCandidate, TakeTask, SetPeer, ClientTypeOK, mediaVars
<1>7. CASE ExecExit(c)
  <2>1. \A p \in Clients : peers'[c][p] = NoPeer
    BY <1>7 DEF ExecExit, ClientTypeOK
  <2>2. Released(c)'
    BY <1>7, <2>1 DEF ExecExit, ClientTypeOK, Released, Has, NoPeer
  <2> QED BY <1>7, <2>2 DEF ExecExit, TakeTask, ClientTypeOK
<1> QED BY <1>1, <1>2, <1>3, <1>4, <1>5, <1>6, <1>7 DEF Executor

\* A step that leaves client x alone leaves what is said of it alone.
LEMMA EndKept ==
    ASSUME EndInv, NEW x \in Clients,
           ws'[x] = ws[x], exec'[x] = exec[x], joined'[x] = joined[x],
           webSocket'[x] = webSocket[x], crashed[x] => crashed'[x],
           factory'[x] = factory[x], camera'[x] = camera[x],
           \A p \in Clients : Has(x, p)' <=> Has(x, p),
           conn'[x] = "idle" <=> conn[x] = "idle"
    PROVE  /\ ws'[x] = "idle" <=> conn'[x] = "idle"
           /\ ws'[x] = "idle" => exec'[x] = << >> /\ ~joined'[x]
           /\ ws'[x] \in {"idle", "open", "cut"} => webSocket'[x]
           /\ ws'[x] = "closed" /\ ~crashed'[x] =>
                 IF exec'[x] = << >> THEN Released(x)'
                 ELSE exec'[x][Len(exec'[x])].op = "exit"
BY DEF EndInv, SocketsAgree, EndInSight, Released

\* Every step keeps the end in sight.
LEMMA EndStep ==
    ASSUME EndInv, [Next]_vars
    PROVE  EndInv'
<1> USE CallAssumption
<1>1. CallTypeOK /\ CallTypeOK' /\ ClientTypeOK /\ ServerTypeOK
  BY CallTypeStep DEF EndInv, CallTypeOK
<1> SUFFICES ASSUME NEW x \in Clients
             PROVE  /\ ws'[x] = "idle" <=> conn'[x] = "idle"
                    /\ ws'[x] = "idle" => exec'[x] = << >> /\ ~joined'[x]
                    /\ ws'[x] \in {"idle", "open", "cut"} => webSocket'[x]
                    /\ ws'[x] = "closed" /\ ~crashed'[x] =>
                          IF exec'[x] = << >> THEN Released(x)'
                          ELSE exec'[x][Len(exec'[x])].op = "exit"
  BY <1>1 DEF EndInv, SocketsAgree, EndInSight
<1> DEFINE Good == /\ ws'[x] = "idle" <=> conn'[x] = "idle"
                   /\ ws'[x] = "idle" => exec'[x] = << >> /\ ~joined'[x]
                   /\ ws'[x] \in {"idle", "open", "cut"} => webSocket'[x]
                   /\ ws'[x] = "closed" /\ ~crashed'[x] =>
                         IF exec'[x] = << >> THEN Released(x)'
                         ELSE exec'[x][Len(exec'[x])].op = "exit"
<1>2. /\ ws[x] = "idle" <=> conn[x] = "idle"
      /\ ws[x] = "idle" => exec[x] = << >> /\ ~joined[x]
      /\ ws[x] \in {"idle", "open", "cut"} => webSocket[x]
      /\ ws[x] = "closed" /\ ~crashed[x] =>
            IF exec[x] = << >> THEN Released(x)
            ELSE exec[x][Len(exec[x])].op = "exit"
  BY DEF EndInv, SocketsAgree, EndInSight
<1>3. UNCHANGED peers => \A p \in Clients : Has(x, p)' <=> Has(x, p)
  BY DEF Has
<1>4. ASSUME NEW c \in Clients, NEW u \in Users, Connect(c, u)
      PROVE  Good
  <2>1. /\ conn[c] = "idle" /\ conn' = [conn EXCEPT ![c] = "open"]
        /\ ws' = [ws EXCEPT ![c] = "open"]
        /\ UNCHANGED <<exec, joined, webSocket, crashed, factory, camera, peers>>
    BY <1>4 DEF Connect, OnOpen, mediaVars, callVars
  <2>2. CASE x = c
    BY <1>1, <1>2, <2>1, <2>2 DEF ClientTypeOK, ServerTypeOK
  <2>3. CASE x # c
    <3>1. ws'[x] = ws[x] /\ conn'[x] = conn[x]
      BY <1>1, <2>1, <2>3 DEF ClientTypeOK, ServerTypeOK
    <3> QED BY <1>3, <2>1, <3>1, EndKept
  <2> QED BY <2>2, <2>3
<1>5. ASSUME NEW c \in Clients, JoinRoom(c)
      PROVE  Good
  <2>1. /\ ws[c] = "open"
        /\ joined' = [joined EXCEPT ![c] = TRUE]
        /\ UNCHANGED <<ws, conn, exec, webSocket, crashed, factory, camera, peers>>
    BY <1>5 DEF JoinRoom, mediaVars, serverVars
  <2>2. CASE x = c
    BY <1>2, <1>3, <2>1, <2>2 DEF Released
  <2>3. CASE x # c
    <3>1. joined'[x] = joined[x]
      BY <1>1, <2>1, <2>3 DEF CallTypeOK
    <3> QED BY <1>3, <2>1, <3>1, EndKept
  <2> QED BY <2>2, <2>3
<1>6. ASSUME NEW c \in Clients, NEW task \in ExecTasks,
             exec' = [exec EXCEPT ![c] = Append(exec[c], task)],
             ws' = ws \/ ws' = [ws EXCEPT ![c] = "closed"],
             ws[c] # "idle", ws'[c] = "closed" => task.op = "exit",
             UNCHANGED <<conn, joined, webSocket, crashed, factory, camera,
                         peers>>
      PROVE  Good
  <2>1. CASE x = c
    <3>1. /\ exec'[c] = Append(exec[c], task)
          /\ exec'[c] # << >>
          /\ exec'[c][Len(exec'[c])] = task
      <4>1. exec[c] \in Seq(ExecTasks) /\ exec'[c] = Append(exec[c], task)
        BY <1>1, <1>6 DEF ClientTypeOK
      <4> QED BY <4>1, AppendedQueue
    <3>2. ws'[c] = ws[c] \/ ws'[c] = "closed"
      BY <1>1, <1>6 DEF ClientTypeOK
    <3> QED BY <1>2, <1>6, <2>1, <3>1, <3>2
  <2>2. CASE x # c
    <3>1. ws'[x] = ws[x] /\ exec'[x] = exec[x]
      BY <1>1, <1>6, <2>2 DEF ClientTypeOK
    <3> QED BY <1>3, <1>6, <3>1, EndKept
  <2> QED BY <2>1, <2>2
<1>7. [op |-> "exit"] \in ExecTasks /\ [op |-> "exit"].op = "exit"
  BY DEF ExecTasks
<1>8. ASSUME NEW c \in Clients, ExitRoom(c)
      PROVE  Good
  <2>1. ws[c] # "idle"
    BY <1>8 DEF ExitRoom, EndInv, SocketsAgree
  <2> QED BY <1>6, <1>7, <1>8, <2>1 DEF ExitRoom, serverVars, mediaVars
<1>9. ASSUME NEW c \in Clients, Deliver(c)
      PROVE  Good
  <2>1. seen[c] \in Nat /\ inbox[c] \in Seq(Frames)
    BY <1>1 DEF CallTypeOK, ServerTypeOK
  <2>2. inbox[c][seen[c] + 1] \in Frames
    BY <1>9, <2>1, ElementOfSeq DEF Deliver
  <2>3. TaskFor(inbox[c][seen[c] + 1]) \in ExecTasks
    BY <2>2, TaskForType
  <2> QED BY <1>6, <1>9, <2>3 DEF Deliver, serverVars, mediaVars
<1>10. ASSUME NEW c \in Clients, WsOnClose(c)
       PROVE  Good
  BY <1>6, <1>7, <1>10 DEF WsOnClose, serverVars, mediaVars, callVars
<1>11. ASSUME NEW c \in Clients, Arrive(c)
       PROVE  Good
  <2>1. UNCHANGED <<ws, conn, exec, joined, webSocket, crashed, factory, camera,
                    peers>>
    BY <1>11 DEF Arrive, OnJoinMessage, OnRelayMessage, mediaVars, callVars
  <2> QED BY <1>3, <2>1, EndKept
<1>12. ASSUME NEW c \in Clients, Lose(c)
       PROVE  Good
  <2>1. /\ ws[c] = "open" /\ ws' = [ws EXCEPT ![c] = "cut"]
        /\ UNCHANGED <<conn, exec, joined, webSocket, crashed, factory, camera,
                       peers>>
    BY <1>12 DEF Lose, serverVars, mediaVars, callVars
  <2>2. CASE x = c
    BY <1>1, <1>2, <2>1, <2>2 DEF ClientTypeOK
  <2>3. CASE x # c
    <3>1. ws'[x] = ws[x]
      BY <1>1, <2>1, <2>3 DEF ClientTypeOK
    <3> QED BY <1>3, <2>1, <3>1, EndKept
  <2> QED BY <2>2, <2>3
<1>13. ASSUME NEW c \in Clients, ServerNotices(c)
       PROVE  Good
  <2>1. /\ conn[c] = "open" /\ conn' = [conn EXCEPT ![c] = "closed"]
        /\ UNCHANGED <<ws, exec, joined, webSocket, crashed, factory, camera,
                       peers>>
    BY <1>13 DEF ServerNotices, OnClose, clientVars, callVars
  <2>2. conn'[x] = "idle" <=> conn[x] = "idle"
    BY <1>1, <2>1 DEF ServerTypeOK
  <2> QED BY <1>3, <2>1, <2>2, EndKept
<1>14. CASE RunnerStep
  <2>1. UNCHANGED <<ws, conn, exec, joined, webSocket, crashed, factory, camera,
                    peers>>
    BY <1>14 DEF RunnerStep, Runner, AddSocket, CloseNeverJoined, CloseJoined,
                 Join, Relay, clientVars, callVars
  <2> QED BY <1>3, <2>1, EndKept
<1>15. ASSUME NEW c \in Clients, ExecutorStep(c)
       PROVE  Good
  <2>1. Executor(c) /\ UNCHANGED <<conn, joined>>
    BY <1>15 DEF ExecutorStep, serverVars, callVars
  <2>2. CASE x = c
    <3>1. /\ exec[c] # << >> /\ exec'[c] = Tail(exec[c]) /\ ~crashed[c]
          /\ exec[c] \in Seq(ExecTasks)
      BY <1>1, <2>1, ExecutorSocket DEF ClientTypeOK
    <3>2. ws[c] # "idle"
      BY <1>2, <2>2, <3>1
    <3>3. CASE Head(exec[c]).op = "exit"
      <4>1. /\ Released(c)' /\ crashed' = crashed
            /\ ws'[c] = IF webSocket[c] /\ ws[c] \in {"open", "cut"}
                        THEN "closing" ELSE ws[c]
        BY <1>1, <2>1, <3>3, ExecutorSocket
      <4>2. ws'[c] \notin {"idle", "open", "cut"}
        BY <1>1, <1>2, <2>2, <3>2, <4>1 DEF ClientTypeOK
      <4>3. ws'[c] = "closed" /\ ~crashed'[c] /\ exec'[c] # << >> =>
               exec'[c][Len(exec'[c])].op = "exit"
        <5> SUFFICES ASSUME ws'[c] = "closed", Tail(exec[c]) # << >>
                     PROVE  Tail(exec[c])[Len(Tail(exec[c]))].op = "exit"
          BY <3>1
        <5>1. ws[c] = "closed"
          BY <4>1
        <5>2. exec[c][Len(exec[c])].op = "exit"
          BY <1>2, <2>2, <3>1, <5>1
        <5>3. /\ Len(exec[c]) \in Nat /\ Len(Tail(exec[c])) = Len(exec[c]) - 1
              /\ Tail(exec[c]) \in Seq(ExecTasks)
              /\ \A i \in 1..(Len(exec[c]) - 1) : Tail(exec[c])[i] = exec[c][i + 1]
          BY <3>1, TakenQueue
        <5>4. Len(Tail(exec[c])) \in 1..(Len(exec[c]) - 1)
          BY <5>3, EmptySeq
        <5>5. Len(Tail(exec[c])) + 1 = Len(exec[c])
          BY <5>3
        <5> QED BY <5>2, <5>3, <5>4, <5>5
      <4> QED BY <1>2, <2>1, <2>2, <3>2, <4>1, <4>2, <4>3
    <3>4. CASE Head(exec[c]).op # "exit"
      <4>1. /\ webSocket'[c] = webSocket[c]
            /\ ws'[c] = ws[c] \/ (ws[c] = "open" /\ ws'[c] = "cut")
        BY <1>1, <2>1, <3>4, ExecutorSocket
      <4>2. ws'[c] = "closed" /\ ~crashed'[c] =>
               /\ exec'[c] # << >>
               /\ exec'[c][Len(exec'[c])].op = "exit"
        <5> SUFFICES ASSUME ws'[c] = "closed"
                     PROVE  /\ Tail(exec[c]) # << >>
                            /\ Tail(exec[c])[Len(Tail(exec[c]))].op = "exit"
          BY <3>1
        <5>1. ws[c] = "closed"
          BY <4>1
        <5>2. exec[c][Len(exec[c])].op = "exit"
          BY <1>2, <2>2, <3>1, <5>1
        <5>3. /\ Len(exec[c]) \in Nat /\ Len(Tail(exec[c])) = Len(exec[c]) - 1
              /\ Tail(exec[c]) \in Seq(ExecTasks) /\ Len(exec[c]) >= 1
              /\ Head(exec[c]) = exec[c][1]
              /\ \A i \in 1..(Len(exec[c]) - 1) : Tail(exec[c])[i] = exec[c][i + 1]
          BY <3>1, TakenQueue
        <5>4. Len(exec[c]) # 1
          BY <3>4, <5>2, <5>3
        <5>5. PICK n \in Nat : n = Len(exec[c])
          BY <5>3
        <5>6. n >= 1 /\ n # 1
          BY <5>3, <5>4, <5>5
        <5>7. n - 1 \in 1..(n - 1) /\ (n - 1) + 1 = n /\ n - 1 # 0
          BY <5>6
        <5>8. Len(Tail(exec[c])) = n - 1
          BY <5>3, <5>5
        <5>9. Tail(exec[c]) # << >>
          BY <5>3, <5>7, <5>8, EmptySeq
        <5> QED BY <5>2, <5>3, <5>5, <5>7, <5>8, <5>9
      <4> QED BY <1>2, <2>1, <2>2, <3>2, <4>1, <4>2
    <3> QED BY <3>3, <3>4
  <2>3. CASE x # c
    <3>1. /\ ws'[x] = ws[x] /\ webSocket'[x] = webSocket[x]
          /\ factory'[x] = factory[x] /\ camera'[x] = camera[x]
          /\ crashed'[x] = crashed[x] /\ peers'[x] = peers[x]
          /\ exec' = [exec EXCEPT ![c] = Tail(exec[c])]
      BY <1>1, <2>1, <2>3, ExecutorSocket
    <3>2. /\ exec'[x] = exec[x]
          /\ \A p \in Clients : Has(x, p)' <=> Has(x, p)
      BY <1>1, <2>3, <3>1 DEF ClientTypeOK, Has
    <3> QED BY <2>1, <3>1, <3>2, EndKept
  <2> QED BY <2>2, <2>3
<1>16. ASSUME NEW c \in Clients, ObserverStep(c)
       PROVE  Good
  <2>1. SignallingThread(c) /\ UNCHANGED <<conn, joined>>
    BY <1>16 DEF ObserverStep, serverVars, callVars
  <2>2. /\ UNCHANGED <<exec, webSocket, factory, stream, camera>>
        /\ \/ ws' = ws
           \/ ws[c] = "open" /\ ws' = [ws EXCEPT ![c] = "cut"]
        /\ crashed' = crashed \/ crashed' = [crashed EXCEPT ![c] = TRUE]
        /\ \A p \in Clients : Has(x, p)' <=> Has(x, p)
    BY <1>1, <2>1, ObserverSocket
  <2>3. crashed[x] => crashed'[x]
    BY <1>1, <2>2 DEF ClientTypeOK
  <2>4. CASE ws'[x] = ws[x]
    BY <2>1, <2>2, <2>3, <2>4, EndKept
  <2>5. CASE ws'[x] # ws[x]
    <3>1. ws[x] = "open" /\ ws'[x] = "cut"
      BY <1>1, <2>2, <2>5 DEF ClientTypeOK
    <3> QED BY <1>2, <2>1, <2>2, <3>1
  <2> QED BY <2>4, <2>5
<1>17. CASE UNCHANGED vars
  <2>1. UNCHANGED <<ws, conn, exec, joined, webSocket, crashed, factory, camera,
                    peers>>
    BY <1>17 DEF vars, serverVars, clientVars, callVars
  <2> QED BY <1>3, <2>1, EndKept
<1> QED BY <1>4, <1>5, <1>8, <1>9, <1>10, <1>11, <1>12, <1>13, <1>14, <1>15,
           <1>16, <1>17 DEF Next

\* A call starts with no socket open.
LEMMA EndStart == Init => EndInv
<1> SUFFICES ASSUME Init PROVE EndInv
  OBVIOUS
<1>1. CallTypeOK
  BY CallTypeStart
<1>2. SocketsAgree /\ EndInSight
  BY CallAssumption
     DEF Init, ServerInit, ClientInit, SocketsAgree, EndInSight
<1> QED BY <1>1, <1>2 DEF EndInv

\* For any number of clients, whatever order exitRoom, onClose and the frames
\* that still arrive are queued in: a client whose websocket has closed and whose
\* executor is idle holds no factory, no camera and no connection any more.
THEOREM AlwaysReleasedAtTheEnd == Spec => []ReleasedAtTheEnd
<1>1. EndInv /\ [Next]_vars => EndInv'
  BY EndStep
<1>2. EndInv => ReleasedAtTheEnd
  BY DEF EndInv, EndInSight, ReleasedAtTheEnd, Released
<1> QED BY <1>1, <1>2, EndStart, PTL DEF Spec

-----------------------------------------------------------------------------
(* What a session has been told, in which order.                           *)

\* Session x has been answered with the members of the room it joined.
HasAnswer(x) == \E i \in DOMAIN inbox[x] : inbox[x][i].event = "_peers"

\* Whoever is listed to x has been told of x, and is not told the other way
\* round: one of the two calls and the other waits.
ListsAnnounced ==
    \A x, y \in Sessions :
        ListedTo(x, y) =>
            /\ Received(y, NewPeerFrame(x))
            /\ ~ListedTo(y, x)
            /\ ~Received(x, NewPeerFrame(y))

\* Only a session whose join has run is answered, and a member that can still be
\* reached has been.
MembersAnswered ==
    /\ \A x \in Sessions : HasAnswer(x) => HasJoined(x)
    /\ \A r \in Rooms : \A x \in ToSet(rooms[r]) :
          conn[x] = "open" => HasAnswer(x)

\* The frames of x are in order: one answer, before any newcomer, and each
\* newcomer once.
FramesOrdered(x) ==
    /\ \A i, j \in DOMAIN inbox[x] :
          inbox[x][i].event = "_peers" /\ inbox[x][j].event = "_peers" => i = j
    /\ \A i \in DOMAIN inbox[x] :
          inbox[x][i].event = "_new_peer" =>
              \E j \in DOMAIN inbox[x] : j < i /\ inbox[x][j].event = "_peers"
    /\ \A i, j \in DOMAIN inbox[x] :
          /\ inbox[x][i].event = "_new_peer"
          /\ inbox[x][i] = inbox[x][j]
          => i = j

HistoryInv ==
    /\ NewsInv /\ ListsAnnounced /\ MembersAnswered
    /\ \A x \in Sessions : FramesOrdered(x)

\* Nobody is sent anything after it has closed.
LEMMA BroadcastToOpen ==
    ASSUME NEW box \in [Sessions -> Seq(Frames)], NEW members \in Seq(Sessions),
           NEW self, NEW frame \in Frames, NEW x \in Sessions, conn[x] # "open"
    PROVE  Broadcast(box, members, self, frame)[x] = box[x]
<1> DEFINE n == Copies(members, self, x)
           tail == [k \in 1..n |-> frame]
<1>1. Broadcast(box, members, self, frame)[x] = box[x] \o tail
  BY DEF Broadcast
<1>2. n = 0
  <2>1. CASE x = self
    BY <2>1 DEF Copies
  <2>2. CASE x # self
    <3>1. {i \in Reached(members, self) : members[i] = x} = {}
      <4> SUFFICES ASSUME NEW i \in Reached(members, self), members[i] = x
                   PROVE  FALSE
        OBVIOUS
      <4>1. i \in 1..i
        BY LenProperties DEF Reached
      <4> QED BY <2>2, <4>1 DEF Reached, CanSend
    <3> QED BY <2>2, <3>1, FS_EmptySet DEF Copies
  <2> QED BY <2>1, <2>2
<1> HIDE DEF n
<1>3. tail = << >>
  BY <1>2
<1> HIDE DEF tail
<1> QED BY <1>1, <1>3, ConcatEmptySeq

\* A step of the server sends only to open sessions.
LEMMA ToldIsOpen ==
    ASSUME ServerTypeOK, [ServerNext]_serverVars, NEW x \in Sessions,
           conn[x] # "open"
    PROVE  NotTold(x)
<1>1. /\ inbox \in [Sessions -> Seq(Frames)]
      /\ rooms \in [Rooms -> Seq(Sessions)]
      /\ roomList \in [Sessions -> Rooms \cup {NoRoom}]
  BY DEF ServerTypeOK
<1>2. CASE UNCHANGED inbox
  BY <1>2 DEF NotTold
<1>3. ASSUME Take
      PROVE  /\ Head(runner) \in Tasks
             /\ Head(runner).s \in Sessions
  BY <1>3, HeadTask DEF Take
<1>4. CASE Join
  <2>1. Take
    BY <1>4 DEF Join
  <2>2. PICK s \in Sessions : s = Head(runner).s
    BY <1>3, <2>1
  <2>3. PICK room \in Rooms : room = RoomNumber(Head(runner).room)
    BY <1>3, <1>4, <2>1, ServerAssumption DEF Join, Tasks, RoomNumber
  <2> DEFINE announced == Broadcast(inbox, rooms[room], s, NewPeerFrame(s))
  <2>4. NewPeerFrame(s) \in Frames
    BY DEF NewPeerFrame, Frames
  <2>5. announced[x] = inbox[x] /\ announced \in [Sessions -> Seq(Frames)]
    <3>1. rooms[room] \in Seq(Sessions)
      BY <1>1
    <3>2. announced[x] = inbox[x]
      BY <1>1, <2>4, <3>1, BroadcastToOpen
    <3>3. announced \in [Sessions -> Seq(Frames)]
      BY <1>1, <2>4, <3>1, BroadcastType
    <3> QED BY <3>2, <3>3
  <2>6. inbox' = announced \/ \E frame : inbox' = Send(announced, s, frame)
    BY <1>4, <2>2, <2>3 DEF Join
  <2> HIDE DEF announced
  <2>7. \A frame : Send(announced, s, frame)[x] = announced[x]
    BY <2>5 DEF Send, CanSend
  <2> QED BY <2>5, <2>6, <2>7 DEF NotTold
<1>5. CASE CloseJoined
  <2>1. Take
    BY <1>5 DEF CloseJoined
  <2>2. PICK s \in Sessions : s = Head(runner).s
    BY <1>3, <2>1
  <2>3. PICK room \in Rooms : room = roomList[s]
    BY <1>1, <1>5, <2>2 DEF CloseJoined
  <2>4. RemovePeerFrame(s) \in Frames
    BY DEF RemovePeerFrame, Frames
  <2>5. inbox' = Broadcast(inbox, rooms[room], s, RemovePeerFrame(s))
    BY <1>5, <2>2, <2>3 DEF CloseJoined
  <2>6. rooms[room] \in Seq(Sessions)
    BY <1>1
  <2>7. Broadcast(inbox, rooms[room], s, RemovePeerFrame(s))[x] = inbox[x]
    BY <1>1, <2>4, <2>6, BroadcastToOpen
  <2> QED BY <2>5, <2>7, Zenon DEF NotTold
<1>6. CASE Relay
  <2>1. inbox' = inbox
        \/ \E s, frame : inbox' = Send(inbox, s, frame)
    BY <1>6 DEF Relay
  <2> QED BY <1>1, <2>1 DEF Send, CanSend, NotTold
<1> QED BY <1>2, <1>4, <1>5, <1>6
        DEF ServerNext, Container, OnOpen, OnClose, OnJoinMessage,
            OnRelayMessage, Runner, AddSocket, CloseNeverJoined, serverVars

\* The ways in which a session hears of something, when no session joins twice.
HearsNewcomer(x, s, room) ==
    /\ Told(x, NewPeerFrame(s))
    /\ x \in ToSet(rooms[room]) /\ x # s /\ conn[x] = "open"
    /\ ~HasJoined(s)

HearsAnswer(x, room) ==
    /\ Told(x, PeersFrame(x, ToSet(rooms[room])))
    /\ ToSet(rooms[room]) \in SUBSET Sessions
    /\ x \notin ToSet(rooms[room])
    /\ ~HasJoined(x)
    /\ \A y \in ToSet(rooms[room]) : Told(y, NewPeerFrame(x))

HearsLeaver(x, s) == Told(x, RemovePeerFrame(s)) /\ conn[s] = "closed"

HearsRelay(x, s, kind) ==
    /\ Told(x, RelayFrame(kind, s))
    /\ Take /\ Head(runner) = RelayTask(s, kind, x)

LEMMA OneFrame ==
    ASSUME MembershipInv, [ServerNext]_serverVars, NEW x \in Sessions
    PROVE  \/ NotTold(x)
           \/ \E s \in Sessions, room \in Rooms : HearsNewcomer(x, s, room)
           \/ \E room \in Rooms : HearsAnswer(x, room) /\ HasJoined(x)'
           \/ \E s \in Sessions : HearsLeaver(x, s)
           \/ \E s \in Sessions, kind \in RelayKinds : HearsRelay(x, s, kind)
<1>1. ServerTypeOK
  BY DEF MembershipInv
<1>2. conn[x] # "open" => NotTold(x)
  BY <1>1, ToldIsOpen
<1>3. CASE Silent
  BY <1>3 DEF Silent, NotTold
<1>4. ASSUME NEW s \in Sessions, NEW room \in Rooms, JoinEffect(s, room),
             conn[x] = "open"
      PROVE  \/ NotTold(x)
             \/ HearsNewcomer(x, s, room)
             \/ HearsAnswer(x, room) /\ HasJoined(x)'
  <2>1. /\ ~HasJoined(s) /\ HasJoined(s)'
        /\ ToSet(rooms[room]) \in SUBSET Sessions
        /\ s \notin ToSet(rooms[room])
    <3>1. ~HasJoined(s)
      BY <1>1, <1>4, TakenTask DEF JoinEffect
    <3>2. HasJoined(s)'
      BY <1>4 DEF JoinEffect, HasJoined
    <3> QED BY <1>4, <3>1, <3>2, MemberJoined DEF JoinEffect, InNoRoom
  <2>2. CASE NotEntered(s, room)
    BY <1>4, <2>1, <2>2 DEF NotEntered, HearsNewcomer
  <2>3. CASE Entered(s, room)
    <3>1. CASE x = s
      BY <1>4, <2>1, <2>3, <3>1 DEF Entered, HearsAnswer
    <3>2. CASE x # s
      BY <1>4, <2>1, <2>3, <3>2 DEF Entered, HearsNewcomer
    <3> QED BY <3>1, <3>2
  <2> QED BY <1>4, <2>2, <2>3 DEF JoinEffect
<1>5. ASSUME NEW s \in Sessions, NEW room \in Rooms, CloseEffect(s, room)
      PROVE  NotTold(x) \/ HearsLeaver(x, s)
  BY <1>5 DEF CloseEffect, HearsLeaver
<1>6. ASSUME Relay
      PROVE  \/ NotTold(x)
             \/ \E t \in Sessions, kind \in RelayKinds : HearsRelay(x, t, kind)
  <2>1. Take /\ Head(runner) \in Tasks /\ Head(runner).op = "relay"
    BY <1>1, <1>6, HeadTask DEF Relay, Take
  <2>2. PICK task \in Tasks : task = Head(runner)
    BY <2>1
  <2>3. PICK s \in Sessions : s = task.s
    BY <2>1, <2>2 DEF Tasks
  <2>4. PICK kind \in RelayKinds : kind = task.kind
    BY <2>1, <2>2 DEF Tasks
  <2>5. task = RelayTask(s, kind, task.to)
    <3>1. task \in [op : {"relay"}, s : Sessions, kind : RelayKinds,
                    to : Sessions \cup {NoSession}]
      BY <2>1, <2>2 DEF Tasks
    <3> QED BY <2>3, <2>4, <3>1 DEF RelayTask
  <2>6. NotTold(x) \/ (Told(x, RelayFrame(kind, s)) /\ task.to = x)
    BY <1>1, <1>6, <2>2, <2>3, <2>4
       DEF Relay, Send, Told, NotTold, ServerTypeOK
  <2> QED BY <2>1, <2>2, <2>3, <2>4, <2>5, <2>6 DEF HearsRelay
<1>7. ASSUME NEW s \in Sessions, RelayEffect(s)
      PROVE  \/ NotTold(x)
             \/ \E t \in Sessions, kind \in RelayKinds : HearsRelay(x, t, kind)
  <2>1. Take /\ Head(runner).op = "relay"
    BY <1>7 DEF RelayEffect
  <2>2. CASE Relay
    BY <1>6, <2>2
  <2>3. CASE UNCHANGED inbox
    BY <2>3 DEF NotTold
  <2> QED BY <2>1, <2>2, <2>3
          DEF ServerNext, Container, OnOpen, OnClose, OnJoinMessage,
              OnRelayMessage, Runner, AddSocket, CloseNeverJoined, CloseJoined,
              Join, serverVars
<1> QED BY <1>2, <1>3, <1>4, <1>5, <1>7, StepKinds

\* A frame more keeps the order if it is no second answer, and no newcomer heard
\* of before or before the answer.
LEMMA OrderAfter ==
    ASSUME ServerTypeOK, NEW x \in Sessions, NEW frame \in Frames,
           Told(x, frame), FramesOrdered(x),
           frame.event = "_peers" => ~HasAnswer(x),
           frame.event = "_new_peer" => HasAnswer(x) /\ ~Received(x, frame)
    PROVE  FramesOrdered(x)'
<1> DEFINE q == inbox[x]
           r == Append(q, frame)
           n == Len(q)
<1>1. /\ n \in Nat
      /\ DOMAIN q = 1..n
      /\ DOMAIN r = 1..(n + 1)
      /\ r[n + 1] = frame
      /\ \A i \in DOMAIN q : r[i] = q[i]
  BY AppendShape DEF ServerTypeOK
<1>2. inbox'[x] = r
  BY DEF Told
<1> HIDE DEF r, n
<1>3. \A i \in DOMAIN r : (i \in DOMAIN q /\ i < n + 1) \/ i = n + 1
  BY <1>1
<1>4. \A i \in DOMAIN q : i \in DOMAIN r /\ i < n + 1
  BY <1>1
<1>5. \A i \in DOMAIN q : q[i].event = "_peers" => frame.event # "_peers"
  BY DEF HasAnswer
<1>6. \A i \in DOMAIN q : frame.event = "_new_peer" => q[i] # frame
  BY DEF Received
<1>7. \A i, j \in DOMAIN r : r[i].event = "_peers" /\ r[j].event = "_peers" => i = j
  BY <1>1, <1>3, <1>5 DEF FramesOrdered
<1>8. \A i \in DOMAIN r : r[i].event = "_new_peer" =>
         \E j \in DOMAIN r : j < i /\ r[j].event = "_peers"
  <2> SUFFICES ASSUME NEW i \in DOMAIN r, r[i].event = "_new_peer"
               PROVE  \E j \in DOMAIN r : j < i /\ r[j].event = "_peers"
    OBVIOUS
  <2>1. CASE i \in DOMAIN q
    <3>1. PICK j \in DOMAIN q : j < i /\ q[j].event = "_peers"
      BY <1>1, <2>1 DEF FramesOrdered
    <3> QED BY <1>1, <1>4, <3>1
  <2>2. CASE i = n + 1
    <3>1. PICK j \in DOMAIN q : q[j].event = "_peers"
      BY <1>1, <2>2 DEF HasAnswer
    <3> QED BY <1>1, <1>4, <2>2, <3>1
  <2> QED BY <1>3, <2>1, <2>2
<1>9. \A i, j \in DOMAIN r : r[i].event = "_new_peer" /\ r[i] = r[j] => i = j
  BY <1>1, <1>3, <1>6 DEF FramesOrdered
<1> QED BY <1>2, <1>7, <1>8, <1>9 DEF FramesOrdered

\* Whether there has been an answer.
LEMMA AnswerAfter ==
    ASSUME ServerTypeOK, NEW x \in Sessions, NEW frame \in Frames,
           Told(x, frame)
    PROVE  HasAnswer(x)' <=> HasAnswer(x) \/ frame.event = "_peers"
<1> DEFINE q == inbox[x]
           r == Append(q, frame)
           n == Len(q)
<1>1. /\ n \in Nat
      /\ DOMAIN q = 1..n
      /\ DOMAIN r = 1..(n + 1)
      /\ r[n + 1] = frame
      /\ \A i \in DOMAIN q : r[i] = q[i]
  BY AppendShape DEF ServerTypeOK
<1>2. inbox'[x] = r
  BY DEF Told
<1> HIDE DEF r, n
<1>3. /\ \A i \in DOMAIN r : i \in DOMAIN q \/ i = n + 1
      /\ n + 1 \in DOMAIN r /\ \A i \in DOMAIN q : i \in DOMAIN r
  BY <1>1
<1> QED BY <1>1, <1>2, <1>3 DEF HasAnswer

\* Every step of the server keeps what is said about the frames.
LEMMA HistoryStep ==
    ASSUME MaxJoins <= 1, HistoryInv, [ServerNext]_serverVars
    PROVE  HistoryInv'
<1>1. /\ ServerTypeOK /\ MembershipInv /\ NewsInv /\ JoinersConnected
      /\ JoinBeforeNews
  BY DEF HistoryInv, NewsInv, MembershipInv
<1>2. NewsInv'
  <2>1. MembershipInv' /\ RoomListBacked'
    BY <1>1, MembershipStep, BackedStep DEF NewsInv
  <2> QED BY <1>1, <2>1, NewsStep, LastStep, PairStep, KnownStep DEF NewsInv
<1>3. \A x \in Sessions :
         /\ HasJoined(x) => HasJoined(x)'
         /\ conn'[x] = "open" /\ joins[x] > 0 => conn[x] = "open"
  BY <1>1, StepKeeps
<1>4. \A x \in Sessions :
         \/ NotTold(x)
         \/ \E s \in Sessions, room \in Rooms : HearsNewcomer(x, s, room)
         \/ \E room \in Rooms : HearsAnswer(x, room) /\ HasJoined(x)'
         \/ \E s \in Sessions : HearsLeaver(x, s)
         \/ \E s \in Sessions, kind \in RelayKinds : HearsRelay(x, s, kind)
  BY <1>1, OneFrame
<1>5. \A x, y \in Sessions : Introduced(x, y) => HasJoined(x) /\ HasJoined(y)
  BY <1>1 DEF JoinBeforeNews
<1>6. \A x \in Sessions : HasAnswer(x) => HasJoined(x)
  BY DEF HistoryInv, MembersAnswered
<1>7. \A r \in Rooms : \A x \in ToSet(rooms[r]) :
         x \in Sessions /\ (conn[x] = "open" => HasAnswer(x))
  BY <1>1, MemberJoined DEF HistoryInv, MembersAnswered
<1>8. ASSUME NEW x \in Sessions
      PROVE  /\ FramesOrdered(x)'
             /\ HasAnswer(x) => HasAnswer(x)'
             /\ HasAnswer(x)' => HasJoined(x)'
             /\ \A y \in Sessions :
                   /\ Received(x, NewPeerFrame(y)) => Received(x, NewPeerFrame(y))'
                   /\ Received(x, NewPeerFrame(y))' =>
                         Received(x, NewPeerFrame(y)) \/ ~HasJoined(y)
                   /\ ListedTo(x, y)' =>
                         \/ ListedTo(x, y)
                         \/ \E room \in Rooms :
                               HearsAnswer(x, room) /\ y \in ToSet(rooms[room])
  <2>1. FramesOrdered(x)
    BY DEF HistoryInv
  <2>2. ASSUME NEW frame \in Frames, Told(x, frame), frame.event # "_peers",
               frame.event = "_new_peer" => HasAnswer(x) /\ ~Received(x, frame),
               \A y \in Sessions : frame = NewPeerFrame(y) => ~HasJoined(y)
        PROVE  /\ FramesOrdered(x)'
               /\ HasAnswer(x)' <=> HasAnswer(x)
               /\ \A y \in Sessions :
                     /\ Received(x, NewPeerFrame(y)) =>
                           Received(x, NewPeerFrame(y))'
                     /\ Received(x, NewPeerFrame(y))' =>
                           Received(x, NewPeerFrame(y)) \/ ~HasJoined(y)
                     /\ ListedTo(x, y)' => ListedTo(x, y)
    <3>1. FramesOrdered(x)'
      BY <1>1, <2>1, <2>2, OrderAfter
    <3>2. HasAnswer(x)' <=> HasAnswer(x)
      BY <1>1, <2>2, AnswerAfter
    <3> QED BY <1>1, <2>2, <3>1, <3>2, HeardAfter
  <2>3. CASE NotTold(x)
    <3>1. FramesOrdered(x)' /\ (HasAnswer(x)' <=> HasAnswer(x))
      BY <2>1, <2>3 DEF NotTold, FramesOrdered, HasAnswer
    <3> QED BY <1>3, <1>6, <2>3, <3>1, HeardSame
  <2>4. ASSUME NEW s \in Sessions, NEW room \in Rooms, HearsNewcomer(x, s, room)
        PROVE  /\ FramesOrdered(x)'
               /\ HasAnswer(x)' <=> HasAnswer(x)
               /\ \A y \in Sessions :
                     /\ Received(x, NewPeerFrame(y)) =>
                           Received(x, NewPeerFrame(y))'
                     /\ Received(x, NewPeerFrame(y))' =>
                           Received(x, NewPeerFrame(y)) \/ ~HasJoined(y)
                     /\ ListedTo(x, y)' => ListedTo(x, y)
    <3>1. HasAnswer(x)
      BY <1>7, <2>4 DEF HearsNewcomer
    <3>2. ~Received(x, NewPeerFrame(s))
      BY <1>5, <2>4 DEF HearsNewcomer, Introduced
    <3>3. /\ NewPeerFrame(s) \in Frames /\ NewPeerFrame(s).event # "_peers"
          /\ \A y \in Sessions : NewPeerFrame(s) = NewPeerFrame(y) => s = y
      BY FrameKinds
    <3> QED BY <2>2, <2>4, <3>1, <3>2, <3>3 DEF HearsNewcomer
  <2>5. ASSUME NEW room \in Rooms, HearsAnswer(x, room), HasJoined(x)'
        PROVE  /\ FramesOrdered(x)'
               /\ HasAnswer(x)' /\ HasJoined(x)'
               /\ \A y \in Sessions :
                     /\ Received(x, NewPeerFrame(y))' <=>
                           Received(x, NewPeerFrame(y))
                     /\ ListedTo(x, y)' =>
                           ListedTo(x, y) \/ y \in ToSet(rooms[room])
    <3> DEFINE ids == ToSet(rooms[room])
    <3>1. /\ Told(x, PeersFrame(x, ids)) /\ ids \in SUBSET Sessions
          /\ ~HasJoined(x)
      BY <2>5 DEF HearsAnswer
    <3> HIDE DEF ids
    <3>2. /\ PeersFrame(x, ids) \in Frames
          /\ PeersFrame(x, ids).event = "_peers"
          /\ PeersFrame(x, ids).connections = ids
          /\ \A y \in Sessions : PeersFrame(x, ids) # NewPeerFrame(y)
      BY <3>1, FrameKinds
    <3>3. ~HasAnswer(x)
      BY <1>6, <3>1
    <3>4. FramesOrdered(x)'
      BY <1>1, <2>1, <3>1, <3>2, <3>3, OrderAfter
    <3>5. HasAnswer(x)'
      BY <1>1, <3>1, <3>2, AnswerAfter
    <3>6. \A y \in Sessions :
             /\ Received(x, NewPeerFrame(y))' <=> Received(x, NewPeerFrame(y))
             /\ ListedTo(x, y)' => ListedTo(x, y) \/ y \in ids
      BY <1>1, <3>1, <3>2, HeardAfter
    <3> QED BY <2>5, <3>4, <3>5, <3>6 DEF ids
  <2>6. ASSUME NEW s \in Sessions, HearsLeaver(x, s)
        PROVE  /\ FramesOrdered(x)'
               /\ HasAnswer(x)' <=> HasAnswer(x)
               /\ \A y \in Sessions :
                     /\ Received(x, NewPeerFrame(y)) =>
                           Received(x, NewPeerFrame(y))'
                     /\ Received(x, NewPeerFrame(y))' =>
                           Received(x, NewPeerFrame(y)) \/ ~HasJoined(y)
                     /\ ListedTo(x, y)' => ListedTo(x, y)
    <3>1. /\ RemovePeerFrame(s) \in Frames
          /\ RemovePeerFrame(s).event # "_peers"
          /\ \A y \in Sessions : RemovePeerFrame(s) # NewPeerFrame(y)
      BY FrameKinds
    <3>2. RemovePeerFrame(s).event # "_new_peer"
      BY DEF RemovePeerFrame
    <3> QED BY <2>2, <2>6, <3>1, <3>2 DEF HearsLeaver
  <2>7. ASSUME NEW s \in Sessions, NEW kind \in RelayKinds,
               HearsRelay(x, s, kind)
        PROVE  /\ FramesOrdered(x)'
               /\ HasAnswer(x)' <=> HasAnswer(x)
               /\ \A y \in Sessions :
                     /\ Received(x, NewPeerFrame(y)) =>
                           Received(x, NewPeerFrame(y))'
                     /\ Received(x, NewPeerFrame(y))' =>
                           Received(x, NewPeerFrame(y)) \/ ~HasJoined(y)
                     /\ ListedTo(x, y)' => ListedTo(x, y)
    <3>1. /\ RelayFrame(kind, s) \in Frames
          /\ RelayFrame(kind, s).event # "_peers"
          /\ \A y \in Sessions : RelayFrame(kind, s) # NewPeerFrame(y)
      BY RelayKind
    <3>2. RelayFrame(kind, s).event # "_new_peer"
      BY DEF RelayFrame, RelayKinds
    <3> QED BY <2>2, <2>7, <3>1, <3>2 DEF HearsRelay
  <2> QED BY <1>3, <1>4, <1>6, <2>3, <2>4, <2>5, <2>6, <2>7
<1>9. ListsAnnounced'
  <2> SUFFICES ASSUME NEW x \in Sessions, NEW y \in Sessions, ListedTo(x, y)'
               PROVE  /\ Received(y, NewPeerFrame(x))'
                      /\ ~ListedTo(y, x)'
                      /\ ~Received(x, NewPeerFrame(y))'
    BY DEF ListsAnnounced
  <2>1. CASE ListedTo(x, y)
    <3>1. /\ Received(y, NewPeerFrame(x)) /\ ~ListedTo(y, x)
          /\ ~Received(x, NewPeerFrame(y))
      BY <2>1 DEF HistoryInv, ListsAnnounced
    <3>2. HasJoined(x) /\ HasJoined(y)
      BY <1>5, <2>1 DEF Introduced
    <3>3. \A room \in Rooms : ~HearsAnswer(y, room)
      BY <3>2 DEF HearsAnswer
    <3> QED BY <1>8, <3>1, <3>2, <3>3
  <2>2. CASE ~ListedTo(x, y)
    <3>1. PICK room \in Rooms : HearsAnswer(x, room) /\ y \in ToSet(rooms[room])
      BY <1>8, <2>2
    <3>2. /\ ~HasJoined(x) /\ Told(y, NewPeerFrame(x))
          /\ Told(x, PeersFrame(x, ToSet(rooms[room])))
          /\ ToSet(rooms[room]) \in SUBSET Sessions
          /\ x # y
      BY <3>1 DEF HearsAnswer
    <3>3. /\ ~ListedTo(y, x) /\ ~Received(x, NewPeerFrame(y))
      BY <1>5, <3>2 DEF Introduced
    <3>4. /\ NewPeerFrame(x) \in Frames /\ NewPeerFrame(x).event # "_peers"
      BY FrameKinds
    <3>5. Received(y, NewPeerFrame(x))' /\ ~ListedTo(y, x)'
      BY <1>1, <3>2, <3>3, <3>4, HeardAfter
    <3>6. PICK ids \in SUBSET Sessions : ids = ToSet(rooms[room])
      BY <3>2
    <3>7. /\ PeersFrame(x, ids) \in Frames
          /\ PeersFrame(x, ids) # NewPeerFrame(y)
      BY FrameKinds
    <3>8. ~Received(x, NewPeerFrame(y))'
      BY <1>1, <3>2, <3>3, <3>6, <3>7, HeardAfter
    <3> QED BY <3>5, <3>8
  <2> QED BY <2>1, <2>2
<1>10. MembersAnswered'
  <2>1. \A x \in Sessions : HasAnswer(x)' => HasJoined(x)'
    BY <1>8
  <2> SUFFICES ASSUME NEW r \in Rooms, NEW x \in ToSet(rooms'[r]),
                      conn'[x] = "open"
               PROVE  HasAnswer(x)'
    BY <2>1 DEF MembersAnswered
  <2>2. CASE x \in ToSet(rooms[r])
    <3>1. x \in Sessions /\ joins[x] > 0
      BY <1>1, <2>2, MemberJoined DEF HasJoined
    <3>2. conn[x] = "open"
      BY <1>3, <3>1
    <3> QED BY <1>7, <1>8, <2>2, <3>1, <3>2
  <2>3. CASE x \notin ToSet(rooms[r])
    <3>1. \E s \in Sessions, room \in Rooms :
             JoinEffect(s, room) /\ Entered(s, room) /\ x = s
      <4>1. CASE UNCHANGED rooms
        BY <2>3, <4>1
      <4>2. ASSUME NEW s \in Sessions, NEW room \in Rooms, JoinEffect(s, room)
            PROVE  Entered(s, room) /\ x = s
        <5>1. CASE NotEntered(s, room)
          BY <2>3, <5>1 DEF NotEntered
        <5>2. CASE Entered(s, room)
          <6>1. /\ rooms' = [rooms EXCEPT ![room] = Append(rooms[room], s)]
                /\ rooms \in [Rooms -> Seq(Sessions)]
            BY <1>1, <5>2 DEF Entered, Enter, ServerTypeOK
          <6>2. r = room /\ rooms'[r] = Append(rooms[r], s)
            BY <2>3, <6>1
          <6>3. ToSet(Append(rooms[r], s)) = ToSet(rooms[r]) \cup {s}
            BY <6>1, ToSetAppend
          <6> QED BY <2>3, <5>2, <6>2, <6>3
        <5> QED BY <4>2, <5>1, <5>2 DEF JoinEffect
      <4>3. ASSUME NEW s \in Sessions, NEW room \in Rooms, CloseEffect(s, room)
            PROVE  FALSE
        <5>1. CASE NotLeft
          BY <2>3, <5>1 DEF NotLeft
        <5>2. CASE Left(s, room)
          <6>1. /\ rooms' = [rooms EXCEPT ![room] = RemoveFirst(rooms[room], s)]
                /\ rooms \in [Rooms -> Seq(Sessions)]
            BY <1>1, <5>2 DEF Left, RemoveSocket, ServerTypeOK
          <6>2. r = room /\ rooms'[r] = RemoveFirst(rooms[r], s)
            BY <2>3, <6>1
          <6>3. ToSet(RemoveFirst(rooms[r], s)) \subseteq ToSet(rooms[r])
            BY <6>1, RemoveFirstSubset
          <6> QED BY <2>3, <6>2, <6>3
        <5> QED BY <4>3, <5>1, <5>2 DEF CloseEffect
      <4>4. ASSUME NEW s \in Sessions, RelayEffect(s)
            PROVE  UNCHANGED rooms
        BY <4>4 DEF RelayEffect
      <4> QED BY <1>1, <4>1, <4>2, <4>3, <4>4, StepKinds DEF Silent
    <3>2. PICK room \in Rooms : JoinEffect(x, room) /\ Entered(x, room)
      BY <3>1
    <3>3. x \in Sessions /\ conn[x] = "open"
      BY <3>1, <3>2 DEF JoinEffect
    <3>4. Told(x, PeersFrame(x, ToSet(rooms[room])))
      BY <3>2, <3>3 DEF Entered
    <3>5. ToSet(rooms[room]) \in SUBSET Sessions
      BY <1>7
    <3>6. PICK ids \in SUBSET Sessions : ids = ToSet(rooms[room])
      BY <3>5
    <3>7. /\ PeersFrame(x, ids) \in Frames
          /\ PeersFrame(x, ids).event = "_peers"
      BY <3>3, FrameKinds
    <3> QED BY <1>1, <3>3, <3>4, <3>6, <3>7, AnswerAfter
  <2> QED BY <2>2, <2>3
<1> QED BY <1>2, <1>8, <1>9, <1>10 DEF HistoryInv

-----------------------------------------------------------------------------
(* A message on its way from one client to another.                        *)

In(q, e) == \E i \in DOMAIN q : q[i] = e

Once(q, e) == \A i, j \in DOMAIN q : q[i] = e /\ q[j] = e => i = j

\* Every b in the queue has an a ahead of it.
Precedes(q, a, b) ==
    \A j \in DOMAIN q : q[j] = b => \E i \in DOMAIN q : i < j /\ q[i] = a

\* What a queue holds after an Append.
LEMMA InAppend ==
    ASSUME NEW S, NEW q \in Seq(S), NEW x \in S, NEW e
    PROVE  /\ In(Append(q, x), e) <=> In(q, e) \/ x = e
           /\ Once(q, e) /\ (x = e => ~In(q, e)) => Once(Append(q, x), e)
<1> DEFINE r == Append(q, x)
           n == Len(q)
<1>1. /\ n \in Nat
      /\ DOMAIN q = 1..n
      /\ DOMAIN r = 1..(n + 1)
      /\ r[n + 1] = x
      /\ \A i \in DOMAIN q : r[i] = q[i]
  BY AppendShape
<1> HIDE DEF r, n
<1>2. /\ \A i \in DOMAIN r : i \in DOMAIN q \/ i = n + 1
      /\ n + 1 \in DOMAIN r /\ \A i \in DOMAIN q : i \in DOMAIN r /\ i < n + 1
  BY <1>1
<1>3. In(r, e) <=> In(q, e) \/ x = e
  BY <1>1, <1>2 DEF In
<1>4. Once(q, e) /\ (x = e => ~In(q, e)) => Once(r, e)
  BY <1>1, <1>2 DEF Once, In
<1> QED BY <1>3, <1>4 DEF r

\* What it holds after its head has been taken.
LEMMA InTail ==
    ASSUME NEW S, NEW q \in Seq(S), q # << >>, NEW e
    PROVE  /\ In(q, e) <=> Head(q) = e \/ In(Tail(q), e)
           /\ Once(q, e) => Once(Tail(q), e)
           /\ Once(q, e) /\ Head(q) = e => ~In(Tail(q), e)
<1> DEFINE r == Tail(q)
           n == Len(q)
<1>1. /\ Head(q) = q[1] /\ r \in Seq(S)
      /\ n \in Nat /\ n >= 1
      /\ Len(r) = n - 1
      /\ \A i \in 1..(n - 1) : r[i] = q[i + 1]
  BY TakenQueue
<1>2. DOMAIN q = 1..n /\ DOMAIN r = 1..(n - 1)
  BY <1>1, LenProperties
<1> HIDE DEF r, n
<1>3. /\ 1 \in DOMAIN q
      /\ \A i \in DOMAIN r : i + 1 \in DOMAIN q /\ i + 1 # 1 /\ r[i] = q[i + 1]
  BY <1>1, <1>2
<1>4. \A i \in DOMAIN q : i # 1 => i - 1 \in DOMAIN r /\ r[i - 1] = q[i]
  <2>1. \A i \in DOMAIN q : i # 1 => i - 1 \in DOMAIN r /\ (i - 1) + 1 = i
    BY <1>1, <1>2
  <2> QED BY <1>3, <2>1
<1>5. In(q, e) <=> Head(q) = e \/ In(r, e)
  <2>1. In(q, e) => Head(q) = e \/ In(r, e)
    BY <1>1, <1>4 DEF In
  <2>2. Head(q) = e \/ In(r, e) => In(q, e)
    BY <1>1, <1>3 DEF In
  <2> QED BY <2>1, <2>2
<1>6. Once(q, e) => Once(r, e)
  <2> SUFFICES ASSUME Once(q, e), NEW i \in DOMAIN r, NEW j \in DOMAIN r,
                      r[i] = e, r[j] = e
               PROVE  i = j
    BY DEF Once
  <2>1. i + 1 = j + 1
    BY <1>3 DEF Once
  <2> QED BY <1>2, <2>1
<1>7. Once(q, e) /\ Head(q) = e => ~In(r, e)
  BY <1>1, <1>3 DEF Once, In
<1> QED BY <1>5, <1>6, <1>7 DEF r

\* The order of two elements after an Append.
LEMMA PrecedesAppend ==
    ASSUME NEW S, NEW q \in Seq(S), NEW x \in S, NEW a, NEW b,
           Precedes(q, a, b), x = b => In(q, a)
    PROVE  Precedes(Append(q, x), a, b)
<1> DEFINE r == Append(q, x)
           n == Len(q)
<1>1. /\ n \in Nat
      /\ DOMAIN q = 1..n
      /\ DOMAIN r = 1..(n + 1)
      /\ r[n + 1] = x
      /\ \A i \in DOMAIN q : r[i] = q[i]
  BY AppendShape
<1> HIDE DEF r, n
<1>2. /\ \A i \in DOMAIN r : i \in DOMAIN q \/ i = n + 1
      /\ \A i \in DOMAIN q : i \in DOMAIN r /\ i < n + 1
  BY <1>1
<1> SUFFICES ASSUME NEW j \in DOMAIN r, r[j] = b
             PROVE  \E i \in DOMAIN r : i < j /\ r[i] = a
  BY DEF Precedes, r
<1>3. CASE j \in DOMAIN q
  BY <1>1, <1>2, <1>3 DEF Precedes
<1>4. CASE j = n + 1
  BY <1>1, <1>2, <1>4 DEF In
<1> QED BY <1>2, <1>3, <1>4

\* The order of two elements after the head has been taken.
LEMMA PrecedesTail ==
    ASSUME NEW S, NEW q \in Seq(S), q # << >>, NEW a, NEW b, Precedes(q, a, b)
    PROVE  /\ Head(q) # b
           /\ Head(q) # a => Precedes(Tail(q), a, b)
<1> DEFINE r == Tail(q)
           n == Len(q)
<1>1. /\ Head(q) = q[1] /\ r \in Seq(S)
      /\ n \in Nat /\ n >= 1
      /\ Len(r) = n - 1
      /\ \A i \in 1..(n - 1) : r[i] = q[i + 1]
  BY TakenQueue
<1>2. DOMAIN q = 1..n /\ DOMAIN r = 1..(n - 1)
  BY <1>1, LenProperties
<1> HIDE DEF r, n
<1>3. /\ 1 \in DOMAIN q
      /\ \A i \in DOMAIN r : i + 1 \in DOMAIN q /\ r[i] = q[i + 1]
  BY <1>1, <1>2
<1>4. \A i \in DOMAIN q : i # 1 => i - 1 \in DOMAIN r /\ r[i - 1] = q[i]
  <2>1. \A i \in DOMAIN q : i # 1 => i - 1 \in DOMAIN r /\ (i - 1) + 1 = i
    BY <1>1, <1>2
  <2> QED BY <1>3, <2>1
<1>5. Head(q) # b
  BY <1>1, <1>2, <1>3 DEF Precedes
<1>6. ASSUME Head(q) # a
      PROVE  Precedes(r, a, b)
  <2> SUFFICES ASSUME NEW j \in DOMAIN r, r[j] = b
               PROVE  \E i \in DOMAIN r : i < j /\ r[i] = a
    BY DEF Precedes
  <2>1. PICK i \in DOMAIN q : i < j + 1 /\ q[i] = a
    BY <1>3 DEF Precedes
  <2>2. i - 1 \in DOMAIN r /\ r[i - 1] = a
    BY <1>1, <1>4, <1>6, <2>1
  <2>3. i - 1 < j
    BY <1>2, <2>1
  <2> QED BY <2>2, <2>3
<1> QED BY <1>5, <1>6 DEF r

\* A message of client p to client c, before and behind the server.
Message(kind, c) == [op |-> kind, to |-> c]

\* The ways in which a step touches the messages from p to c.
Rests(p, c) == up'[p] = up[p] /\ runner' = runner /\ inbox'[c] = inbox[c]

Sends(p, c, m) ==
    /\ m \in Messages /\ ws[p] = "open"
    /\ up'[p] = Append(up[p], m) /\ runner' = runner /\ inbox'[c] = inbox[c]

Drops(p, c) ==
    /\ up'[p] = << >> /\ runner' = runner /\ inbox'[c] = inbox[c]
    /\ ws'[p] # "open"

Arrives(p, c, m, task) ==
    /\ up[p] # << >> /\ Head(up[p]) = m /\ up'[p] = Tail(up[p])
    /\ task \in Tasks /\ runner' = Append(runner, task)
    /\ IF m.op = "join" THEN task.op # "relay"
       ELSE task = RelayTask(p, m.op, m.to)
    /\ inbox'[c] = inbox[c]

Queues(p, c, task) ==
    /\ up'[p] = up[p] /\ inbox'[c] = inbox[c]
    /\ task \in Tasks /\ runner' = Append(runner, task)
    /\ task.op # "relay" \/ task.s # p

Runs(p, c) ==
    /\ Take /\ up'[p] = up[p]
    /\ \/ NotTold(c)
       \/ \E s \in Sessions : Told(c, NewPeerFrame(s))
       \/ \E ids \in SUBSET Sessions : Told(c, PeersFrame(c, ids))
       \/ \E s \in Sessions : Told(c, RemovePeerFrame(s))
       \/ \E s \in Sessions, kind \in RelayKinds : HearsRelay(c, s, kind)

Carried(p, c) ==
    \/ Rests(p, c)
    \/ \E m : Sends(p, c, m)
    \/ Drops(p, c)
    \/ \E m, task : Arrives(p, c, m, task)
    \/ \E task : Queues(p, c, task)
    \/ Runs(p, c)

\* What a client sends goes to the end of its own queue, or nowhere.
LEMMA TransmitCarries ==
    ASSUME ClientTypeOK, NEW x \in Clients, NEW m \in Messages, Transmit(x, m),
           NEW p \in Clients, NEW c \in Clients, UNCHANGED <<runner, inbox>>
    PROVE  Rests(p, c) \/ (x = p /\ Sends(p, c, m))
<1>1. CASE webSocket[x] /\ ws[x] = "open"
  <2>1. up' = [up EXCEPT ![x] = Append(up[x], m)]
    BY <1>1 DEF Transmit
  <2> QED BY <1>1, <2>1 DEF ClientTypeOK, Rests, Sends
<1>2. CASE ~(webSocket[x] /\ ws[x] = "open")
  <2>1. up' = up
    BY <1>2 DEF Transmit, Crash
  <2> QED BY <2>1 DEF Rests
<1> QED BY <1>1, <1>2

\* Every step is one of the ways.
LEMMA StepCarries ==
    ASSUME CallTypeOK, MembershipInv, [Next]_vars,
           NEW p \in Clients, NEW c \in Clients
    PROVE  Carried(p, c)
<1> USE CallAssumption
<1>1. ClientTypeOK /\ ServerTypeOK /\ [ServerNext]_serverVars
  BY CallServerStep DEF CallTypeOK
<1>2. ASSUME NEW x \in Clients, NEW u \in Users, Connect(x, u)
      PROVE  Carried(p, c)
  <2>1. OpenTask(x, u) \in Tasks /\ OpenTask(x, u).op # "relay"
    BY DEF OpenTask, Tasks
  <2>2. Queues(p, c, OpenTask(x, u))
    BY <1>2, <2>1 DEF Connect, OnOpen, Queues
  <2> QED BY <2>2 DEF Carried
<1>3. ASSUME NEW x \in Clients, JoinRoom(x)
      PROVE  Carried(p, c)
  <2>1. [op |-> "join"] \in Messages
    BY DEF Messages
  <2>2. /\ up' = [up EXCEPT ![x] = Append(up[x], [op |-> "join"])]
        /\ UNCHANGED <<runner, inbox>> /\ ws[x] = "open"
    BY <1>3 DEF JoinRoom, serverVars
  <2>3. Rests(p, c) \/ Sends(p, c, [op |-> "join"])
    BY <1>1, <2>1, <2>2 DEF ClientTypeOK, Rests, Sends
  <2> QED BY <2>3 DEF Carried
<1>4. ASSUME NEW x \in Clients, Arrive(x)
      PROVE  Carried(p, c)
  <2>1. PICK m \in Messages : m = Head(up[x])
    BY <1>1, <1>4, TakenQueue DEF Arrive, ClientTypeOK
  <2>2. /\ up[x] # << >> /\ up' = [up EXCEPT ![x] = Tail(up[x])]
        /\ inbox' = inbox
    BY <1>4 DEF Arrive, OnJoinMessage, OnRelayMessage
  <2>3. PICK task \in Tasks :
           /\ runner' = Append(runner, task) /\ task.s = x
           /\ IF m.op = "join" THEN task.op # "relay"
              ELSE task = RelayTask(x, m.op, m.to)
    <3>1. CASE m.op = "join"
      <4>1. PICK r \in Rooms : OnJoinMessage(x, r)
        BY <1>4, <2>1, <3>1 DEF Arrive
      <4>2. /\ JoinTask(x, r) \in Tasks /\ JoinTask(x, r).op # "relay"
            /\ JoinTask(x, r).s = x
        BY DEF JoinTask, Tasks
      <4> QED BY <3>1, <4>1, <4>2 DEF OnJoinMessage
    <3>2. CASE m.op # "join"
      <4>1. OnRelayMessage(x, m.op, m.to)
        BY <1>4, <2>1, <3>2 DEF Arrive
      <4>2. m.op \in RelayKinds /\ m.to \in Sessions
        BY <2>1, <3>2 DEF Messages, RelayKinds
      <4>3. /\ RelayTask(x, m.op, m.to) \in Tasks
            /\ RelayTask(x, m.op, m.to).s = x
        BY <4>2 DEF RelayTask, Tasks
      <4> QED BY <3>2, <4>1, <4>3 DEF OnRelayMessage
    <3> QED BY <3>1, <3>2
  <2>4. CASE x = p
    <3>1. Arrives(p, c, m, task)
      BY <1>1, <2>1, <2>2, <2>3, <2>4 DEF ClientTypeOK, Arrives
    <3> QED BY <3>1 DEF Carried
  <2>5. CASE x # p
    <3>1. Queues(p, c, task)
      BY <1>1, <2>2, <2>3, <2>5 DEF ClientTypeOK, Queues
    <3> QED BY <3>1 DEF Carried
  <2> QED BY <2>4, <2>5
<1>5. ASSUME NEW x \in Clients, Lose(x)
      PROVE  Carried(p, c)
  <2>1. /\ up' = [up EXCEPT ![x] = << >>] /\ ws' = [ws EXCEPT ![x] = "cut"]
        /\ UNCHANGED <<runner, inbox>>
    BY <1>5 DEF Lose, serverVars
  <2>2. Rests(p, c) \/ Drops(p, c)
    BY <1>1, <2>1 DEF ClientTypeOK, Rests, Drops
  <2> QED BY <2>2 DEF Carried
<1>6. ASSUME NEW x \in Clients, ServerNotices(x)
      PROVE  Carried(p, c)
  <2>1. CloseTask(x) \in Tasks /\ CloseTask(x).op # "relay"
    BY DEF CloseTask, Tasks
  <2>2. Queues(p, c, CloseTask(x))
    BY <1>6, <2>1 DEF ServerNotices, OnClose, Queues, clientVars
  <2> QED BY <2>2 DEF Carried
<1>7. CASE RunnerStep
  <2>1. Take /\ up' = up
    BY <1>7 DEF RunnerStep, Runner, AddSocket, CloseNeverJoined, CloseJoined,
                Join, Relay, clientVars
  <2>2. Runs(p, c)
    BY <1>1, <2>1, OneFrame
       DEF Runs, HearsNewcomer, HearsAnswer, HearsLeaver
  <2> QED BY <2>2 DEF Carried
<1>8. ASSUME NEW x \in Clients, ObserverStep(x)
      PROVE  Carried(p, c)
  <2>1. UNCHANGED <<runner, inbox>> /\ SignallingThread(x)
    BY <1>8 DEF ObserverStep, serverVars
  <2>2. UNCHANGED up \/ \E m \in Messages : Transmit(x, m)
    <3>1. PICK y \in Clients :
             \/ OnCreateSuccess(x, y, "offer_created", "stable",
                                "have_local_offer")
             \/ OnCreateSuccess(x, y, "answer_created", "have_remote_offer",
                                "stable")
             \/ OnSetSuccess(x, y)
             \/ OnIceCandidate(x, y)
      BY <2>1 DEF SignallingThread
    <3>2. \A kind \in {"offer", "answer", "ice_candidate"} :
             [op |-> kind, to |-> y] \in Messages
      BY DEF Messages
    <3>3. Reply(x, y) \in {"offer", "answer", "nothing"}
      BY DEF Reply
    <3>4. CASE OnSetSuccess(x, y)
      BY <3>2, <3>3, <3>4 DEF OnSetSuccess
    <3>5. CASE OnIceCandidate(x, y)
      BY <3>2, <3>5 DEF OnIceCandidate
    <3> QED BY <3>1, <3>4, <3>5 DEF OnCreateSuccess
  <2>3. CASE UNCHANGED up
    BY <2>1, <2>3 DEF Carried, Rests
  <2> QED BY <1>1, <2>1, <2>2, <2>3, TransmitCarries DEF Carried
<1>9. ASSUME NEW x \in Clients,
             \/ ExitRoom(x) \/ Deliver(x) \/ WsOnClose(x) \/ ExecutorStep(x)
      PROVE  Carried(p, c)
  <2>1. UNCHANGED <<up, runner, inbox>>
    BY <1>9 DEF ExitRoom, Deliver, WsOnClose, ExecutorStep, Executor, ExecPeers,
                ExecNewPeer, ExecRemovePeer, ExecOffer, ExecAnswer,
                ExecCandidate, ExecExit, serverVars
  <2> QED BY <2>1 DEF Carried, Rests
<1>10. CASE UNCHANGED vars
  BY <1>10 DEF vars, serverVars, clientVars, Carried, Rests
<1> QED BY <1>2, <1>3, <1>4, <1>5, <1>6, <1>7, <1>8, <1>9, <1>10 DEF Next

-----------------------------------------------------------------------------
(* From the frames of a client to the tasks of its executor.               *)

\* The operations that are about one peer, their tasks and their frames.
PeerOps == {"new_peer", "remove_peer", "offer", "answer", "ice_candidate"}

TaskOf(op, p) == [op |-> op, id |-> p]

News(op, p) ==
    [event |-> CASE op = "new_peer" -> "_new_peer"
                 [] op = "remove_peer" -> "_remove_peer"
                 [] OTHER -> op,
     socketId |-> p]

\* A frame and its task stand for each other.
LEMMA TaskFrame ==
    ASSUME NEW frame \in Frames, NEW op \in PeerOps, NEW p \in Clients
    PROVE  /\ TaskFor(frame).op = "peers" <=> frame.event = "_peers"
           /\ frame.event = "_peers" =>
                 TaskFor(frame).connections = frame.connections
           /\ TaskFor(frame).op = "new_peer" => frame.event = "_new_peer"
           /\ TaskFor(frame) = TaskOf(op, p) <=> frame = News(op, p)
<1>1. CASE frame.event = "_peers"
  <2>1. TaskFor(frame) = [op |-> "peers", connections |-> frame.connections]
    BY <1>1 DEF TaskFor
  <2>2. TaskOf(op, p).op # "peers" /\ News(op, p).event # "_peers"
    BY DEF TaskOf, News, PeerOps
  <2>3. TaskFor(frame).op = "peers"
    BY <2>1
  <2>4. TaskFor(frame).connections = frame.connections
    BY <2>1
  <2> QED BY <1>1, <2>2, <2>3, <2>4
<1>2. CASE frame.event # "_peers"
  <2>1. PICK e \in {"_new_peer", "_remove_peer", "ice_candidate", "offer",
                    "answer"}, y \in Sessions :
           frame = [event |-> e, socketId |-> y]
    BY <1>2 DEF Frames, RelayKinds
  <2>2. frame.event = e /\ frame.socketId = y
    BY <2>1
  <2>3. TaskFor(frame) = TaskOf(CASE e = "_new_peer" -> "new_peer"
                                  [] e = "_remove_peer" -> "remove_peer"
                                  [] OTHER -> e, y)
    BY <2>2 DEF TaskFor, TaskOf
  <2>4. \A o : TaskOf(o, y).op = o /\ TaskOf(o, y).id = y
    BY DEF TaskOf
  <2>5. /\ TaskOf(op, p).op = op /\ TaskOf(op, p).id = p
        /\ News(op, p).socketId = p
    BY DEF TaskOf, News
  <2>6. TaskFor(frame) = TaskOf(op, p) => e = News(op, p).event /\ y = p
    BY <2>3, <2>4, <2>5 DEF News, PeerOps
  <2>7. TaskFor(frame) = TaskOf(op, p) => frame = News(op, p)
    BY <2>1, <2>6 DEF News
  <2>8. frame = News(op, p) => TaskFor(frame) = TaskOf(op, p)
    BY <2>2, <2>3 DEF News, PeerOps
  <2>9. TaskFor(frame).op # "peers" /\
        (TaskFor(frame).op = "new_peer" => e = "_new_peer")
    BY <2>3, <2>4
  <2> QED BY <1>2, <2>2, <2>7, <2>8, <2>9
<1> QED BY <1>1, <1>2

\* Which frames become the tasks that need no peer.
LEMMA TaskEvent ==
    ASSUME NEW frame \in Frames
    PROVE  /\ TaskFor(frame).op = "peers" <=> frame.event = "_peers"
           /\ frame.event = "_peers" =>
                 TaskFor(frame).connections = frame.connections
           /\ TaskFor(frame).op = "new_peer" => frame.event = "_new_peer"
<1>1. PICK p \in Clients : TRUE
  BY CallAssumption DEF Frames
<1> QED BY TaskFrame DEF PeerOps

\* The queue q of an executor whose client has received n frames of box, and
\* has a local stream if st: every task is a frame that was received, and the
\* answer of join is behind it (st), or in the queue and ahead of the newcomers.
QueueOK(q, box, n, st) ==
    /\ n \in Nat /\ n <= Len(box)
    /\ \A i \in DOMAIN q :
          q[i].op # "exit" => \E k \in 1..n : q[i] = TaskFor(box[k])
    /\ st => \E k \in 1..n : box[k].event = "_peers"
    /\ \A k \in 1..n :
          box[k].event = "_peers" =>
              st \/ \E i \in DOMAIN q : q[i].op = "peers"
    /\ \A i \in DOMAIN q :
          q[i].op = "peers" =>
              ~st /\ \A j \in DOMAIN q : q[j].op = "peers" => i = j
    /\ \A i \in DOMAIN q :
          q[i].op = "new_peer" =>
              st \/ \E j \in DOMAIN q : j < i /\ q[j].op = "peers"

\* box2 is box or has more frames at its end.
Longer(box, box2) ==
    /\ Len(box) <= Len(box2)
    /\ \A k \in 1..Len(box) : box2[k] = box[k]

\* More frames on the way change nothing.
LEMMA QueueLonger ==
    ASSUME NEW box \in Seq(Frames), NEW box2 \in Seq(Frames), Longer(box, box2),
           NEW q, NEW n, NEW st, QueueOK(q, box, n, st)
    PROVE  QueueOK(q, box2, n, st)
<1>1. Len(box) \in Nat /\ Len(box2) \in Nat
  BY LenProperties
<1>2. n \in Nat /\ n <= Len(box) /\ n <= Len(box2)
  BY <1>1 DEF QueueOK, Longer
<1>3. \A k \in 1..n : box2[k] = box[k]
  BY <1>1, <1>2 DEF Longer
<1> QED BY <1>2, <1>3 DEF QueueOK

\* exitRoom adds its task.
LEMMA QueueExit ==
    ASSUME NEW q \in Seq(ExecTasks), NEW box, NEW n, NEW st,
           QueueOK(q, box, n, st), NEW x \in ExecTasks, x.op = "exit"
    PROVE  QueueOK(Append(q, x), box, n, st)
<1> DEFINE r == Append(q, x)
           m == Len(q)
<1>1. /\ m \in Nat
      /\ DOMAIN q = 1..m
      /\ DOMAIN r = 1..(m + 1)
      /\ r[m + 1] = x
      /\ \A i \in DOMAIN q : r[i] = q[i]
  BY AppendShape
<1> HIDE DEF r, m
<1>2. /\ \A i \in DOMAIN r : i \in DOMAIN q \/ i = m + 1
      /\ \A i \in DOMAIN q : i \in DOMAIN r
  BY <1>1
<1>3. \A i \in DOMAIN r : r[i].op # "exit" => i \in DOMAIN q /\ r[i] = q[i]
  BY <1>1, <1>2
<1>4. \A i \in DOMAIN r : r[i].op # "exit" => \E k \in 1..n : r[i] = TaskFor(box[k])
  BY <1>3 DEF QueueOK
<1>5. \A k \in 1..n : box[k].event = "_peers" =>
         st \/ \E i \in DOMAIN r : r[i].op = "peers"
  BY <1>1, <1>2 DEF QueueOK
<1>6. \A i \in DOMAIN r : r[i].op = "peers" =>
         ~st /\ \A j \in DOMAIN r : r[j].op = "peers" => i = j
  BY <1>3 DEF QueueOK
<1>7. \A i \in DOMAIN r : r[i].op = "new_peer" =>
         st \/ \E j \in DOMAIN r : j < i /\ r[j].op = "peers"
  BY <1>1, <1>2, <1>3 DEF QueueOK
<1>8. QueueOK(r, box, n, st)
  BY <1>4, <1>5, <1>6, <1>7 DEF QueueOK
<1> QED BY <1>8 DEF r

\* A frame is received: no second answer, and no newcomer before the answer.
LEMMA QueueDeliver ==
    ASSUME NEW q \in Seq(ExecTasks), NEW box \in Seq(Frames), NEW n, NEW st,
           QueueOK(q, box, n, st), n < Len(box),
           box[n + 1].event = "_peers" =>
               \A k \in 1..n : box[k].event # "_peers",
           box[n + 1].event = "_new_peer" =>
               \E k \in 1..n : box[k].event = "_peers"
    PROVE  QueueOK(Append(q, TaskFor(box[n + 1])), box, n + 1, st)
<1>1. Len(box) \in Nat /\ n \in Nat /\ n + 1 \in DOMAIN box
  BY LenProperties DEF QueueOK
<1>2. PICK frame \in Frames : frame = box[n + 1]
  BY <1>1, ElementOfSeq
<1>3. PICK x \in ExecTasks : x = TaskFor(frame) /\ x.op # "exit"
  BY TaskForType
<1>4. /\ x.op = "peers" <=> frame.event = "_peers"
      /\ x.op = "new_peer" => frame.event = "_new_peer"
  BY <1>3, TaskEvent
<1> DEFINE r == Append(q, x)
           m == Len(q)
<1>5. /\ m \in Nat
      /\ DOMAIN q = 1..m
      /\ DOMAIN r = 1..(m + 1)
      /\ r[m + 1] = x
      /\ \A i \in DOMAIN q : r[i] = q[i]
  BY AppendShape
<1> HIDE DEF r, m
<1>6. /\ \A i \in DOMAIN r : (i \in DOMAIN q /\ i < m + 1) \/ i = m + 1
      /\ m + 1 \in DOMAIN r
      /\ \A i \in DOMAIN q : i \in DOMAIN r /\ i < m + 1
  BY <1>5
<1>7. /\ 1..n \subseteq 1..(n + 1) /\ n + 1 \in 1..(n + 1)
      /\ \A k \in 1..(n + 1) : k \in 1..n \/ k = n + 1
  BY <1>1
<1>8. \A i \in DOMAIN r :
         r[i].op # "exit" => \E k \in 1..(n + 1) : r[i] = TaskFor(box[k])
  <2> SUFFICES ASSUME NEW i \in DOMAIN r, r[i].op # "exit"
               PROVE  \E k \in 1..(n + 1) : r[i] = TaskFor(box[k])
    OBVIOUS
  <2>1. CASE i \in DOMAIN q
    <3>1. PICK k \in 1..n : q[i] = TaskFor(box[k])
      BY <1>5, <2>1 DEF QueueOK
    <3> QED BY <1>5, <1>7, <2>1, <3>1
  <2>2. CASE i = m + 1
    BY <1>2, <1>3, <1>5, <1>7, <2>2
  <2> QED BY <1>6, <2>1, <2>2
<1>9. st => \E k \in 1..(n + 1) : box[k].event = "_peers"
  BY <1>7 DEF QueueOK
<1>10. \A k \in 1..(n + 1) : box[k].event = "_peers" =>
          st \/ \E i \in DOMAIN r : r[i].op = "peers"
  <2> SUFFICES ASSUME NEW k \in 1..(n + 1), box[k].event = "_peers"
               PROVE  st \/ \E i \in DOMAIN r : r[i].op = "peers"
    OBVIOUS
  <2>1. CASE k \in 1..n
    BY <1>5, <1>6, <2>1 DEF QueueOK
  <2>2. CASE k = n + 1
    BY <1>2, <1>4, <1>5, <1>6, <2>2
  <2> QED BY <1>7, <2>1, <2>2
<1>11. x.op = "peers" => ~st /\ \A i \in DOMAIN q : q[i].op # "peers"
  <2> SUFFICES ASSUME x.op = "peers"
               PROVE  ~st /\ \A i \in DOMAIN q : q[i].op # "peers"
    OBVIOUS
  <2>1. \A k \in 1..n : box[k].event # "_peers"
    BY <1>2, <1>4
  <2>2. ~st
    BY <2>1 DEF QueueOK
  <2>3. ASSUME NEW i \in DOMAIN q, q[i].op = "peers" PROVE FALSE
    <3>1. PICK k \in 1..n : q[i] = TaskFor(box[k])
      BY <2>3 DEF QueueOK
    <3>2. k \in DOMAIN box
      BY <1>1
    <3>3. PICK f \in Frames : f = box[k]
      BY <3>2, ElementOfSeq
    <3>4. f.event = "_peers"
      BY <2>3, <3>1, <3>3, TaskEvent
    <3> QED BY <2>1, <3>3, <3>4
  <2> QED BY <2>2, <2>3
<1>12. \A i \in DOMAIN r : r[i].op = "peers" =>
          ~st /\ \A j \in DOMAIN r : r[j].op = "peers" => i = j
  BY <1>5, <1>6, <1>11 DEF QueueOK
<1>13. \A i \in DOMAIN r : r[i].op = "new_peer" =>
          st \/ \E j \in DOMAIN r : j < i /\ r[j].op = "peers"
  <2> SUFFICES ASSUME NEW i \in DOMAIN r, r[i].op = "new_peer"
               PROVE  st \/ \E j \in DOMAIN r : j < i /\ r[j].op = "peers"
    OBVIOUS
  <2>1. CASE i \in DOMAIN q
    BY <1>5, <1>6, <2>1 DEF QueueOK
  <2>2. CASE i = m + 1
    <3>1. \E k \in 1..n : box[k].event = "_peers"
      BY <1>2, <1>4, <1>5, <2>2
    <3>2. st \/ \E j \in DOMAIN q : q[j].op = "peers"
      BY <3>1 DEF QueueOK
    <3> QED BY <1>5, <1>6, <2>2, <3>2
  <2> QED BY <1>6, <2>1, <2>2
<1>14. n + 1 \in Nat /\ n + 1 <= Len(box)
  BY <1>1
<1>15. QueueOK(r, box, n + 1, st)
  BY <1>8, <1>9, <1>10, <1>12, <1>13, <1>14 DEF QueueOK
<1> QED BY <1>2, <1>3, <1>15 DEF r

\* A task is taken: the answer makes the stream, and a newcomer finds it.
LEMMA QueueTaken ==
    ASSUME NEW q \in Seq(ExecTasks), NEW box \in Seq(Frames), NEW n,
           NEW st \in BOOLEAN,
           QueueOK(q, box, n, st), q # << >>
    PROVE  /\ Head(q).op = "peers" => ~st /\ QueueOK(Tail(q), box, n, TRUE)
           /\ Head(q).op # "peers" => QueueOK(Tail(q), box, n, st)
           /\ Head(q).op = "new_peer" => st
           /\ Head(q).op # "exit" => \E k \in 1..n : Head(q) = TaskFor(box[k])
<1> DEFINE r == Tail(q)
           m == Len(q)
<1>1. /\ Head(q) = q[1] /\ r \in Seq(ExecTasks)
      /\ m \in Nat /\ m >= 1
      /\ Len(r) = m - 1
      /\ \A i \in 1..(m - 1) : r[i] = q[i + 1]
  BY TakenQueue
<1>2. DOMAIN q = 1..m /\ DOMAIN r = 1..(m - 1)
  BY <1>1, LenProperties
<1> HIDE DEF r, m
<1>3. /\ 1 \in DOMAIN q
      /\ \A i \in DOMAIN r : i + 1 \in DOMAIN q /\ i + 1 # 1 /\ r[i] = q[i + 1]
  BY <1>1, <1>2
<1>4. \A i \in DOMAIN q : i # 1 => i - 1 \in DOMAIN r /\ r[i - 1] = q[i]
  <2>1. \A i \in DOMAIN q : i # 1 => i - 1 \in DOMAIN r /\ (i - 1) + 1 = i
    BY <1>1, <1>2
  <2> QED BY <1>3, <2>1
<1>5. \A i, j \in DOMAIN r : i + 1 = j + 1 => i = j
  BY <1>2
<1>6. \A i \in DOMAIN r :
         r[i].op # "exit" => \E k \in 1..n : r[i] = TaskFor(box[k])
  BY <1>3 DEF QueueOK
<1>7. ASSUME Head(q).op = "peers"
      PROVE  ~st /\ QueueOK(r, box, n, TRUE)
  <2>1. /\ ~st
        /\ \E k \in 1..n : Head(q) = TaskFor(box[k])
        /\ \A i \in DOMAIN q : q[i].op = "peers" => i = 1
    BY <1>1, <1>3, <1>7 DEF QueueOK
  <2>2. PICK k \in 1..n : Head(q) = TaskFor(box[k])
    BY <2>1
  <2>3. box[k].event = "_peers"
    <3>1. k \in DOMAIN box
      BY LenProperties DEF QueueOK
    <3> QED BY <1>7, <2>2, <3>1, ElementOfSeq, TaskEvent
  <2>4. \A i \in DOMAIN r : r[i].op # "peers"
    BY <1>3, <2>1
  <2> QED BY <1>6, <2>1, <2>3, <2>4 DEF QueueOK
<1>8. ASSUME Head(q).op # "peers"
      PROVE  QueueOK(r, box, n, st)
  <2>1. \A j \in DOMAIN q : q[j].op = "peers" =>
           j - 1 \in DOMAIN r /\ r[j - 1].op = "peers"
    BY <1>1, <1>4, <1>8
  <2>2. \A k \in 1..n : box[k].event = "_peers" =>
           st \/ \E i \in DOMAIN r : r[i].op = "peers"
    BY <2>1 DEF QueueOK
  <2>3. \A i \in DOMAIN r : r[i].op = "peers" =>
           ~st /\ \A j \in DOMAIN r : r[j].op = "peers" => i = j
    BY <1>3, <1>5 DEF QueueOK
  <2>4. ASSUME NEW i \in DOMAIN r, r[i].op = "new_peer", ~st
        PROVE  \E j \in DOMAIN r : j < i /\ r[j].op = "peers"
    <3>1. PICK j \in DOMAIN q : j < i + 1 /\ q[j].op = "peers"
      BY <1>3, <2>4 DEF QueueOK
    <3>2. j - 1 < i
      BY <1>2, <3>1
    <3> QED BY <2>1, <3>1, <3>2
  <2> QED BY <1>6, <2>2, <2>3, <2>4 DEF QueueOK
<1>9. Head(q).op = "new_peer" => st
  <2> SUFFICES ASSUME Head(q).op = "new_peer", ~st PROVE FALSE
    OBVIOUS
  <2>1. PICK j \in DOMAIN q : j < 1
    BY <1>1, <1>3 DEF QueueOK
  <2> QED BY <1>2, <2>1
<1>10. Head(q).op # "exit" => \E k \in 1..n : Head(q) = TaskFor(box[k])
  BY <1>1, <1>3 DEF QueueOK
<1> QED BY <1>7, <1>8, <1>9, <1>10 DEF r

-----------------------------------------------------------------------------
(* What the executor and the signalling thread do to one connection.       *)

Same(c, p) == peers'[c][p] = peers[c][p] /\ pending'[c][p] = pending[c][p]

Dropped(c, p) == peers'[c][p] = NoPeer /\ pending'[c][p] = << >>

PeersRun(c, p) ==
    IF p \in Head(exec[c]).connections \/ Has(c, p)
    THEN /\ peers'[c][p] = NewPeer
         /\ pending'[c][p] = Append(pending[c][p], "offer_created")
    ELSE peers'[c][p] = NoPeer /\ pending'[c][p] = pending[c][p]

RemoteRun(c, p, from, to) ==
    IF peers[c][p].sig = from
    THEN /\ peers'[c][p].sig = to /\ peers'[c][p].remote
         /\ pending'[c][p] = Append(pending[c][p], "set")
    ELSE Same(c, p)

CandidateRun(c, p) ==
    /\ peers'[c][p].sig = peers[c][p].sig
    /\ peers'[c][p].remote = peers[c][p].remote
    /\ pending'[c][p] = pending[c][p]
    /\ ~peers[c][p].remote => Same(c, p)

\* The head of c's queue is run, as seen from the connection to p.
TaskRun(c, p) ==
    \/ Head(exec[c]).op = "peers" /\ PeersRun(c, p)
    \/ Head(exec[c]).op = "exit" /\ Dropped(c, p)
    \/ \E op \in PeerOps, y \in Clients \ {p} :
          Head(exec[c]) = TaskOf(op, y) /\ Same(c, p)
    \/ /\ Head(exec[c]) = TaskOf("new_peer", p)
       /\ peers'[c][p] = NewPeer /\ pending'[c][p] = pending[c][p]
    \/ Head(exec[c]) = TaskOf("remove_peer", p) /\ Dropped(c, p)
    \/ /\ Head(exec[c]) = TaskOf("offer", p)
       /\ RemoteRun(c, p, "stable", "have_remote_offer")
    \/ /\ Head(exec[c]) = TaskOf("answer", p)
       /\ RemoteRun(c, p, "have_local_offer", "stable")
    \/ Head(exec[c]) = TaskOf("ice_candidate", p) /\ CandidateRun(c, p)

\* setRemoteDescription, as seen from one connection.
LEMMA RemoteEffect ==
    ASSUME ClientTypeOK, NEW c \in Clients, NEW p \in Clients, NEW y \in Clients,
           NEW from, NEW to \in SignalingStates, SetRemote(c, y, from, to)
    PROVE  IF y = p THEN RemoteRun(c, p, from, to) ELSE Same(c, p)
<1>1. /\ peers \in [Clients -> [Clients -> PeerStates]]
      /\ pending \in [Clients -> [Clients -> Seq(ObserverCalls)]]
  BY DEF ClientTypeOK, PeerStates
<1>2. CASE peers[c][y].sig = from
  <2>1. PICK q \in PeerStates : q = peers[c][y]
    BY <1>1
  <2>2. PICK pc \in PeerStates :
           pc = [q EXCEPT !.sig = to, !.remote = TRUE] /\ pc.sig = to /\ pc.remote
    BY PeerFields
  <2>3. SetPeer(c, y, pc)
    BY <1>2, <2>1, <2>2 DEF SetRemote
  <2>4. /\ peers'[c][y] = pc
        /\ \A z \in Clients : z # y => peers'[c][z] = peers[c][z]
    BY <1>1, <2>3, PeerSet
  <2>5. PICK s \in Seq(ObserverCalls) : s = pending[c][y]
    BY <1>1
  <2>6. PICK r \in Seq(ObserverCalls) :
           r = Append(s, "set") /\ r = s \o <<"set">>
    <3>1. "set" \in ObserverCalls
      BY DEF ObserverCalls
    <3>2. Append(s, "set") \in Seq(ObserverCalls)
      BY <3>1, AppendProperties
    <3>3. Append(s, "set") = s \o <<"set">>
      BY <3>1, AppendIsConcat
    <3> QED BY <3>2, <3>3
  <2>7. pending' = [pending EXCEPT ![c][y] = r]
    BY <1>1, <1>2, <2>5, <2>6 DEF SetRemote, Notify
  <2>8. /\ pending'[c][y] = r
        /\ \A z \in Clients : z # y => pending'[c][z] = pending[c][z]
    BY <1>1, <2>7, PendingSet
  <2> QED BY <1>2, <2>2, <2>4, <2>5, <2>6, <2>8 DEF RemoteRun, Same
<1>3. CASE peers[c][y].sig # from
  BY <1>3 DEF SetRemote, RemoteRun, Same
<1> QED BY <1>2, <1>3

\* Every task of the executor, as seen from one connection.
LEMMA ExecutorEffect ==
    ASSUME ClientTypeOK, NEW c \in Clients, NEW p \in Clients, Executor(c),
           Head(exec[c]).op = "new_peer" => stream[c]
    PROVE  /\ TaskRun(c, p)
           /\ stream'[c] <=> stream[c] \/ Head(exec[c]).op = "peers"
           /\ Head(exec[c]).op # "exit" => webSocket'[c] = webSocket[c]
           /\ Head(exec[c]).op = "exit" => ~webSocket'[c]
           /\ up' = up
<1>1. /\ peers \in [Clients -> [Clients -> PeerStates]]
      /\ pending \in [Clients -> [Clients -> Seq(ObserverCalls)]]
      /\ stream \in [Clients -> BOOLEAN] /\ webSocket \in [Clients -> BOOLEAN]
  BY DEF ClientTypeOK, PeerStates
<1>2. PICK t \in ExecTasks : t = Head(exec[c])
  <2>1. exec[c] # << >> /\ exec[c] \in Seq(ExecTasks)
    BY ExecutorSocket DEF ClientTypeOK
  <2> QED BY <2>1, TakenQueue
<1>3. t.op \in PeerOps => t.id \in Clients /\ t = TaskOf(t.op, t.id)
  BY DEF ExecTasks, PeerOps, TaskOf
<1>4. NewPeer \in PeerStates /\ NoPeer \in PeerStates
  BY DEF NewPeer, NoPeer, PeerStates, SignalingStates
<1>5. CASE ExecPeers(c)
  <2> DEFINE ids == t.connections \cup {y \in Clients : Has(c, y)}
  <2>1. PICK s \in Seq(ObserverCalls) : s = pending[c][p]
    BY <1>1
  <2>2. s \o <<"offer_created">> = Append(s, "offer_created")
    BY AppendIsConcat DEF ObserverCalls
  <2>3. t.op = "peers" /\ CallAll(c, ids) /\ stream'[c]
        /\ UNCHANGED <<webSocket, up>>
    BY <1>1, <1>2, <1>5 DEF ExecPeers, TakeTask, CreateLocalStream
  <2>4. /\ peers'[c] = [y \in Clients |-> IF y \in ids THEN NewPeer ELSE NoPeer]
        /\ pending'[c] = [y \in Clients |->
                             IF y \in ids THEN pending[c][y] \o <<"offer_created">>
                             ELSE pending[c][y]]
    BY <1>1, <2>3 DEF CallAll
  <2>5. p \in ids <=> p \in t.connections \/ Has(c, p)
    OBVIOUS
  <2> HIDE DEF ids
  <2>6. PeersRun(c, p)
    BY <1>2, <2>1, <2>2, <2>4, <2>5 DEF PeersRun
  <2> QED BY <1>2, <2>3, <2>6 DEF TaskRun
<1>6. CASE ExecNewPeer(c)
  <2>1. t.op = "new_peer" /\ stream[c]
    BY <1>2, <1>6 DEF ExecNewPeer, TakeTask
  <2>2. /\ SetPeer(c, t.id, NewPeer) /\ stream'[c]
        /\ UNCHANGED <<pending, webSocket, up>>
    BY <1>1, <1>2, <1>6, <2>1 DEF ExecNewPeer, CreateLocalStream
  <2>3. /\ peers'[c][t.id] = NewPeer
        /\ \A y \in Clients : y # t.id => peers'[c][y] = peers[c][y]
    BY <1>1, <1>3, <1>4, <2>1, <2>2, PeerSet DEF PeerOps
  <2>4. CASE t.id = p
    BY <1>2, <1>3, <2>1, <2>2, <2>3, <2>4 DEF TaskRun, PeerOps
  <2>5. CASE t.id # p
    BY <1>2, <1>3, <2>1, <2>2, <2>3, <2>5 DEF TaskRun, PeerOps, Same
  <2> QED BY <2>4, <2>5
<1>7. CASE ExecRemovePeer(c)
  <2>1. /\ t.op = "remove_peer" /\ ClosePeerConnection(c, t.id)
        /\ UNCHANGED <<stream, webSocket, up>>
    BY <1>2, <1>7 DEF ExecRemovePeer, TakeTask, mediaVars
  <2>2. /\ peers'[c][t.id] = NoPeer
        /\ \A y \in Clients : y # t.id => peers'[c][y] = peers[c][y]
    BY <1>1, <1>3, <1>4, <2>1, PeerSet DEF PeerOps, ClosePeerConnection
  <2>3. << >> \in Seq(ObserverCalls)
    OBVIOUS
  <2>4. /\ pending'[c][t.id] = << >>
        /\ \A y \in Clients : y # t.id => pending'[c][y] = pending[c][y]
    BY <1>1, <1>3, <2>1, <2>3, PendingSet DEF PeerOps, ClosePeerConnection
  <2>5. CASE t.id = p
    BY <1>2, <1>3, <2>1, <2>2, <2>4, <2>5 DEF TaskRun, PeerOps, Dropped
  <2>6. CASE t.id # p
    BY <1>2, <1>3, <2>1, <2>2, <2>4, <2>6 DEF TaskRun, PeerOps, Same
  <2> QED BY <2>5, <2>6
<1>8. CASE ExecOffer(c)
  <2>1. /\ t.op = "offer" /\ SetRemote(c, t.id, "stable", "have_remote_offer")
        /\ UNCHANGED <<stream, webSocket, up>>
    BY <1>2, <1>8 DEF ExecOffer, TakeTask, mediaVars
  <2>2. IF t.id = p THEN RemoteRun(c, p, "stable", "have_remote_offer")
        ELSE Same(c, p)
    BY <1>3, <2>1, RemoteEffect DEF PeerOps, SignalingStates
  <2> QED BY <1>2, <1>3, <2>1, <2>2 DEF TaskRun, PeerOps
<1>9. CASE ExecAnswer(c)
  <2>1. /\ t.op = "answer" /\ SetRemote(c, t.id, "have_local_offer", "stable")
        /\ UNCHANGED <<stream, webSocket, up>>
    BY <1>2, <1>9 DEF ExecAnswer, TakeTask, mediaVars
  <2>2. IF t.id = p THEN RemoteRun(c, p, "have_local_offer", "stable")
        ELSE Same(c, p)
    BY <1>3, <2>1, RemoteEffect DEF PeerOps, SignalingStates
  <2> QED BY <1>2, <1>3, <2>1, <2>2 DEF TaskRun, PeerOps
<1>10. CASE ExecCandidate(c)
  <2>1. /\ t.op = "ice_candidate" /\ UNCHANGED <<pending, stream, webSocket, up>>
    BY <1>2, <1>10 DEF ExecCandidate, TakeTask, mediaVars
  <2>2. PICK y \in Clients : y = t.id /\ t = TaskOf("ice_candidate", y)
    BY <1>3, <2>1 DEF PeerOps
  <2>3. CASE Has(c, y) /\ peers[c][y].remote
    <3>1. PICK q \in PeerStates : q = peers[c][y]
      BY <1>1
    <3>2. PICK pc \in PeerStates : /\ pc = [q EXCEPT !.candidates = @ + 1]
                                   /\ pc.sig = q.sig /\ pc.remote = q.remote
      BY CandidateFields
    <3>3. SetPeer(c, y, pc)
      BY <1>2, <1>10, <2>2, <2>3, <3>1, <3>2 DEF ExecCandidate
    <3>4. /\ peers'[c][y] = pc
          /\ \A z \in Clients : z # y => peers'[c][z] = peers[c][z]
      BY <1>1, <3>3, PeerSet
    <3>5. CASE y = p
      <4>1. CandidateRun(c, p)
        BY <2>1, <2>3, <3>1, <3>2, <3>4, <3>5 DEF CandidateRun
      <4> QED BY <1>2, <2>1, <2>2, <3>5, <4>1 DEF TaskRun
    <3>6. CASE y # p
      BY <1>2, <2>1, <2>2, <3>4, <3>6 DEF TaskRun, PeerOps, Same
    <3> QED BY <3>5, <3>6
  <2>4. CASE ~(Has(c, y) /\ peers[c][y].remote)
    <3>1. peers' = peers
      BY <1>2, <1>10, <2>2, <2>4 DEF ExecCandidate
    <3> QED BY <1>2, <2>1, <2>2, <3>1 DEF TaskRun, PeerOps, Same, CandidateRun
  <2> QED BY <2>3, <2>4
<1>11. CASE ExecExit(c)
  <2>1. /\ t.op = "exit" /\ UNCHANGED <<stream, up>> /\ ~webSocket'[c]
        /\ peers'[c][p] = NoPeer /\ pending'[c][p] = << >>
    BY <1>1, <1>2, <1>11 DEF ExecExit, TakeTask
  <2> QED BY <1>2, <2>1 DEF TaskRun, Dropped
<1> QED BY <1>5, <1>6, <1>7, <1>8, <1>9, <1>10, <1>11 DEF Executor

\* A local description is made and set: onCreateSuccess.
Created(c, p, call, from, to) ==
    /\ pending[c][p] # << >> /\ Head(pending[c][p]) = call
    /\ IF peers[c][p].sig = from
       THEN /\ peers'[c][p].sig = to
            /\ peers'[c][p].remote = peers[c][p].remote
            /\ pending'[c][p] = Tail(pending[c][p]) \o <<"set">> \o Gathered
       ELSE /\ peers'[c][p] = peers[c][p]
            /\ pending'[c][p] = Tail(pending[c][p])
    /\ up' = up

\* A description has been set: onSetSuccess.
SetDone(c, p) ==
    /\ pending[c][p] # << >> /\ Head(pending[c][p]) = "set"
    /\ peers'[c][p] = peers[c][p]
    /\ IF peers[c][p].sig = "have_remote_offer"
       THEN /\ pending'[c][p] = Append(Tail(pending[c][p]), "answer_created")
            /\ up' = up
       ELSE /\ pending'[c][p] = Tail(pending[c][p])
            /\ IF Reply(c, p) = "nothing" THEN up' = up
               ELSE Transmit(c, Message(Reply(c, p), p))

\* A candidate has been found: onIceCandidate.
CandidateDone(c, p) ==
    /\ pending[c][p] # << >> /\ Head(pending[c][p]) = "candidate"
    /\ peers'[c][p] = peers[c][p]
    /\ pending'[c][p] = Tail(pending[c][p])
    /\ Transmit(c, Message("ice_candidate", p))

\* The signalling thread of c, as seen from the connection to p.
CallRun(c, p) ==
    \/ Created(c, p, "offer_created", "stable", "have_local_offer")
    \/ Created(c, p, "answer_created", "have_remote_offer", "stable")
    \/ SetDone(c, p)
    \/ CandidateDone(c, p)
    \/ /\ Same(c, p)
       /\ up' = up \/ \E y \in Clients \ {p}, kind \in RelayKinds :
                         Transmit(c, Message(kind, y))

\* Every call of the signalling thread, as seen from one connection.
LEMMA ObserverEffect ==
    ASSUME ClientTypeOK, NEW c \in Clients, NEW p \in Clients,
           SignallingThread(c)
    PROVE  /\ CallRun(c, p)
           /\ role' = role
           /\ \A x \in Clients \ {c} :
                 peers'[x] = peers[x] /\ pending'[x] = pending[x]
<1>1. /\ peers \in [Clients -> [Clients -> PeerStates]]
      /\ pending \in [Clients -> [Clients -> Seq(ObserverCalls)]]
  BY DEF ClientTypeOK, PeerStates
<1>2. PICK y \in Clients :
         \/ OnCreateSuccess(c, y, "offer_created", "stable", "have_local_offer")
         \/ OnCreateSuccess(c, y, "answer_created", "have_remote_offer",
                            "stable")
         \/ OnSetSuccess(c, y)
         \/ OnIceCandidate(c, y)
  BY DEF SignallingThread
<1>3. PICK s \in Seq(ObserverCalls) : s = pending[c][y]
  BY <1>1
<1>4. s # << >>
  BY <1>2, <1>3 DEF OnCreateSuccess, OnSetSuccess, OnIceCandidate, TakeCall
<1>5. PICK tail \in Seq(ObserverCalls) : tail = Tail(s)
  BY <1>4, TakenQueue
<1>6. ASSUME NEW call, NEW from, NEW to \in SignalingStates,
             OnCreateSuccess(c, y, call, from, to)
      PROVE  /\ IF y = p THEN Created(c, p, call, from, to)
                ELSE Same(c, p) /\ up' = up
             /\ role' = role
             /\ \A x \in Clients \ {c} :
                   peers'[x] = peers[x] /\ pending'[x] = pending[x]
  <2>1. CASE peers[c][y].sig = from
    <3>1. PICK q \in PeerStates : q = peers[c][y]
      BY <1>1
    <3>2. PICK pc \in PeerStates : /\ pc = [q EXCEPT !.sig = to]
                                   /\ pc.sig = to /\ pc.remote = q.remote
      BY PeerFields
    <3>3. SetPeer(c, y, pc)
      BY <1>6, <2>1, <3>1, <3>2 DEF OnCreateSuccess
    <3>4. /\ peers'[c][y] = pc
          /\ \A z \in Clients : z # y => peers'[c][z] = peers[c][z]
          /\ \A x \in Clients \ {c} : peers'[x] = peers[x]
      BY <1>1, <3>3, PeerSet DEF SetPeer
    <3>5. PICK r \in Seq(ObserverCalls) : r = tail \o <<"set">> \o Gathered
      BY Gathering
    <3>6. pending' = [pending EXCEPT ![c][y] = r]
      BY <1>1, <1>3, <1>5, <1>6, <2>1, <3>5 DEF OnCreateSuccess
    <3>7. /\ pending'[c][y] = r
          /\ \A z \in Clients : z # y => pending'[c][z] = pending[c][z]
          /\ \A x \in Clients \ {c} : pending'[x] = pending[x]
      BY <1>1, <3>6, PendingSet
    <3>8. /\ up' = up /\ role' = role
          /\ pending[c][y] # << >> /\ Head(pending[c][y]) = call
      BY <1>6 DEF OnCreateSuccess, TakeCall
    <3> QED BY <1>3, <1>5, <2>1, <3>1, <3>2, <3>4, <3>5, <3>7, <3>8
            DEF Created, Same
  <2>2. CASE peers[c][y].sig # from
    <3>1. /\ peers' = peers /\ up' = up /\ role' = role
          /\ pending' = [pending EXCEPT ![c][y] = tail]
          /\ pending[c][y] # << >> /\ Head(pending[c][y]) = call
      BY <1>1, <1>3, <1>5, <1>6, <2>2 DEF OnCreateSuccess, TakeCall
    <3>2. /\ pending'[c][y] = tail
          /\ \A z \in Clients : z # y => pending'[c][z] = pending[c][z]
          /\ \A x \in Clients \ {c} : pending'[x] = pending[x]
      BY <1>1, <3>1, PendingSet
    <3> QED BY <1>3, <1>5, <2>2, <3>1, <3>2 DEF Created, Same
  <2> QED BY <2>1, <2>2
<1>7. CASE OnCreateSuccess(c, y, "offer_created", "stable", "have_local_offer")
  BY <1>6, <1>7 DEF CallRun, SignalingStates
<1>8. CASE OnCreateSuccess(c, y, "answer_created", "have_remote_offer", "stable")
  BY <1>6, <1>8 DEF CallRun, SignalingStates
<1>9. CASE OnSetSuccess(c, y)
  <2>1. peers' = peers /\ role' = role /\ Head(pending[c][y]) = "set"
    BY <1>9 DEF OnSetSuccess, TakeCall
  <2>2. CASE peers[c][y].sig = "have_remote_offer"
    <3>1. PICK r \in Seq(ObserverCalls) : /\ r = Append(tail, "answer_created")
                                          /\ r = tail \o <<"answer_created">>
      <4>1. "answer_created" \in ObserverCalls
        BY DEF ObserverCalls
      <4>2. Append(tail, "answer_created") \in Seq(ObserverCalls)
        BY <4>1, AppendProperties
      <4>3. Append(tail, "answer_created") = tail \o <<"answer_created">>
        BY <4>1, AppendIsConcat
      <4> QED BY <4>2, <4>3
    <3>2. pending' = [pending EXCEPT ![c][y] = r] /\ up' = up
      BY <1>1, <1>3, <1>5, <1>9, <2>2, <3>1 DEF OnSetSuccess
    <3>3. /\ pending'[c][y] = r
          /\ \A z \in Clients : z # y => pending'[c][z] = pending[c][z]
          /\ \A x \in Clients \ {c} : pending'[x] = pending[x]
      BY <1>1, <3>2, PendingSet
    <3>4. CASE y = p
      <4>1. SetDone(c, p)
        BY <1>3, <1>4, <1>5, <2>1, <2>2, <3>1, <3>2, <3>3, <3>4 DEF SetDone
      <4> QED BY <2>1, <3>3, <4>1 DEF CallRun
    <3>5. CASE y # p
      BY <2>1, <3>2, <3>3, <3>5 DEF CallRun, Same
    <3> QED BY <3>4, <3>5
  <2>3. CASE peers[c][y].sig # "have_remote_offer"
    <3>1. /\ pending' = [pending EXCEPT ![c][y] = tail]
          /\ IF Reply(c, y) = "nothing" THEN up' = up
             ELSE Transmit(c, Message(Reply(c, y), y))
      BY <1>1, <1>3, <1>5, <1>9, <2>3 DEF OnSetSuccess, Message
    <3>2. /\ pending'[c][y] = tail
          /\ \A z \in Clients : z # y => pending'[c][z] = pending[c][z]
          /\ \A x \in Clients \ {c} : pending'[x] = pending[x]
      BY <1>1, <3>1, PendingSet
    <3>3. Reply(c, y) \in {"offer", "answer", "nothing"}
      BY DEF Reply
    <3>4. CASE y = p
      <4>1. SetDone(c, p)
        BY <1>3, <1>4, <1>5, <2>1, <2>3, <3>1, <3>2, <3>4 DEF SetDone
      <4> QED BY <2>1, <3>2, <4>1 DEF CallRun
    <3>5. CASE y # p
      BY <2>1, <3>1, <3>2, <3>3, <3>5 DEF CallRun, Same, RelayKinds
    <3> QED BY <3>4, <3>5
  <2> QED BY <2>2, <2>3
<1>10. CASE OnIceCandidate(c, y)
  <2>1. /\ peers' = peers /\ role' = role /\ Head(pending[c][y]) = "candidate"
        /\ pending' = [pending EXCEPT ![c][y] = tail]
        /\ Transmit(c, Message("ice_candidate", y))
    BY <1>1, <1>3, <1>5, <1>10 DEF OnIceCandidate, TakeCall, Message
  <2>2. /\ pending'[c][y] = tail
        /\ \A z \in Clients : z # y => pending'[c][z] = pending[c][z]
        /\ \A x \in Clients \ {c} : pending'[x] = pending[x]
    BY <1>1, <2>1, PendingSet
  <2>3. CASE y = p
    <3>1. CandidateDone(c, p)
      BY <1>3, <1>4, <1>5, <2>1, <2>2, <2>3 DEF CandidateDone
    <3> QED BY <2>1, <2>2, <3>1 DEF CallRun
  <2>4. CASE y # p
    BY <2>1, <2>2, <2>4 DEF CallRun, Same, RelayKinds
  <2> QED BY <2>3, <2>4
<1> QED BY <1>2, <1>7, <1>8, <1>9, <1>10

\* A task of one client's executor touches no other client.
LEMMA ExecutorAlone ==
    ASSUME ClientTypeOK, NEW x \in Clients, Executor(x), NEW c \in Clients, c # x
    PROVE  /\ exec'[c] = exec[c] /\ stream'[c] = stream[c]
           /\ webSocket'[c] = webSocket[c] /\ role'[c] = role[c]
           /\ peers'[c] = peers[c] /\ pending'[c] = pending[c]
<1>1. exec'[c] = exec[c] /\ webSocket'[c] = webSocket[c] /\ peers'[c] = peers[c]
  BY ExecutorSocket DEF ClientTypeOK
<1>2. role'[c] = role[c]
  BY DEF Executor, ExecPeers, ExecNewPeer, ExecRemovePeer, ExecOffer, ExecAnswer,
         ExecCandidate, ExecExit, CallAll, ClientTypeOK
<1>3. stream'[c] = stream[c]
  BY DEF Executor, ExecPeers, ExecNewPeer, ExecRemovePeer, ExecOffer, ExecAnswer,
         ExecCandidate, ExecExit, CreateLocalStream, ClientTypeOK, mediaVars
<1>4. pending'[c] = pending[c]
  <2>1. CASE ExecPeers(x)
    BY <2>1 DEF ExecPeers, CallAll, ClientTypeOK
  <2>2. CASE ExecNewPeer(x) \/ ExecCandidate(x)
    BY <2>2 DEF ExecNewPeer, ExecCandidate
  <2>3. CASE ExecRemovePeer(x)
    BY <2>3 DEF ExecRemovePeer, ClosePeerConnection, ClientTypeOK
  <2>4. CASE ExecOffer(x) \/ ExecAnswer(x)
    BY <2>4 DEF ExecOffer, ExecAnswer, SetRemote, Notify, ClientTypeOK
  <2>5. CASE ExecExit(x)
    BY <2>5 DEF ExecExit, ClientTypeOK
  <2> QED BY <2>1, <2>2, <2>3, <2>4, <2>5 DEF Executor
<1> QED BY <1>1, <1>2, <1>3, <1>4

\* What a step means to one client.
AtRest(c) ==
    /\ stream'[c] = stream[c] /\ webSocket'[c] = webSocket[c]
    /\ role'[c] = role[c]
    /\ peers'[c] = peers[c] /\ pending'[c] = pending[c]

Idles(c) == exec'[c] = exec[c] /\ seen'[c] = seen[c] /\ AtRest(c)

Ends(c) ==
    /\ exec'[c] = Append(exec[c], [op |-> "exit"]) /\ seen'[c] = seen[c]
    /\ AtRest(c)

Receives(c) ==
    /\ seen[c] < Len(inbox[c]) /\ seen'[c] = seen[c] + 1
    /\ exec'[c] = Append(exec[c], TaskFor(inbox[c][seen[c] + 1]))
    /\ inbox' = inbox /\ AtRest(c)

Watches(c) ==
    /\ SignallingThread(c) /\ UNCHANGED <<serverVars, seen, exec, webSocket, stream>>

Works(c) == Executor(c) /\ UNCHANGED <<serverVars, seen>>

LEMMA ClientMoves ==
    ASSUME CallTypeOK, [Next]_vars, NEW c \in Clients
    PROVE  Idles(c) \/ Ends(c) \/ Receives(c) \/ Watches(c) \/ Works(c)
<1>1. /\ ClientTypeOK /\ seen \in [Clients -> Nat]
      /\ exec \in [Clients -> Seq(ExecTasks)]
  BY DEF CallTypeOK, ClientTypeOK
<1>2. CASE RunnerStep
  BY <1>2 DEF RunnerStep, Idles, AtRest, clientVars, callVars
<1>3. ASSUME NEW x \in Clients,
             \/ \E u \in Users : Connect(x, u)
             \/ JoinRoom(x) \/ Arrive(x) \/ Lose(x) \/ ServerNotices(x)
      PROVE  Idles(c)
  BY <1>3 DEF Connect, JoinRoom, Arrive, Lose, ServerNotices, Idles, AtRest,
              clientVars, callVars, mediaVars
<1>4. ASSUME NEW x \in Clients, ExitRoom(x) \/ WsOnClose(x)
      PROVE  Idles(c) \/ Ends(c)
  <2>1. /\ exec' = [exec EXCEPT ![x] = Append(exec[x], [op |-> "exit"])]
        /\ UNCHANGED <<seen, stream, webSocket, role, peers, pending>>
    BY <1>4 DEF ExitRoom, WsOnClose, mediaVars, callVars
  <2> QED BY <1>1, <2>1 DEF Idles, Ends, AtRest
<1>5. ASSUME NEW x \in Clients, Deliver(x)
      PROVE  Idles(c) \/ Receives(c)
  <2>1. /\ exec' = [exec EXCEPT ![x] = Append(exec[x], TaskFor(inbox[x][seen[x] + 1]))]
        /\ seen' = [seen EXCEPT ![x] = seen[x] + 1]
        /\ seen[x] < Len(inbox[x])
        /\ UNCHANGED <<inbox, stream, webSocket, role, peers, pending>>
    BY <1>5 DEF Deliver, mediaVars, serverVars
  <2> QED BY <1>1, <2>1 DEF Idles, Receives, AtRest
<1>6. ASSUME NEW x \in Clients, ExecutorStep(x)
      PROVE  Idles(c) \/ Works(c)
  <2>1. Executor(x) /\ UNCHANGED <<serverVars, seen>>
    BY <1>6 DEF ExecutorStep, callVars
  <2>2. CASE x = c
    BY <2>1, <2>2 DEF Works
  <2>3. CASE x # c
    BY <1>1, <2>1, <2>3, ExecutorAlone DEF Idles, AtRest
  <2> QED BY <2>2, <2>3
<1>7. ASSUME NEW x \in Clients, ObserverStep(x)
      PROVE  Idles(c) \/ Watches(c)
  <2>1. /\ SignallingThread(x)
        /\ UNCHANGED <<serverVars, seen, exec, webSocket, stream>>
    BY <1>1, <1>7, ObserverSocket DEF ObserverStep, callVars
  <2>2. CASE x = c
    BY <2>1, <2>2 DEF Watches
  <2>3. CASE x # c
    BY <1>1, <2>1, <2>3, ObserverEffect DEF Idles, AtRest
  <2> QED BY <2>2, <2>3
<1>8. CASE UNCHANGED vars
  BY <1>8 DEF vars, clientVars, callVars, Idles, AtRest
<1> QED BY <1>2, <1>3, <1>4, <1>5, <1>6, <1>7, <1>8 DEF Next

\* An inbox only grows.
LEMMA InboxGrows ==
    ASSUME MembershipInv, [ServerNext]_serverVars, NEW c \in Sessions
    PROVE  Longer(inbox[c], inbox'[c])
<1>1. inbox[c] \in Seq(Frames)
  BY DEF MembershipInv, ServerTypeOK
<1>2. Len(inbox[c]) \in Nat
  BY <1>1, LenProperties
<1>3. CASE NotTold(c)
  BY <1>2, <1>3 DEF NotTold, Longer
<1>4. ASSUME NEW frame \in Frames, Told(c, frame)
      PROVE  Longer(inbox[c], inbox'[c])
  BY <1>1, <1>2, <1>4, AppendedQueue DEF Told, Longer
<1>5. CASE \E s \in Sessions : Told(c, NewPeerFrame(s)) \/ Told(c, RemovePeerFrame(s))
  BY <1>4, <1>5, FrameKinds
<1>6. ASSUME NEW ids \in SUBSET Sessions, Told(c, PeersFrame(c, ids))
      PROVE  Longer(inbox[c], inbox'[c])
  BY <1>4, <1>6, FrameKinds
<1>7. ASSUME NEW s \in Sessions, NEW kind \in RelayKinds, Told(c, RelayFrame(kind, s))
      PROVE  Longer(inbox[c], inbox'[c])
  BY <1>4, <1>7, RelayKind
<1> QED BY <1>3, <1>5, <1>6, <1>7, OneFrame
        DEF HearsNewcomer, HearsAnswer, HearsLeaver, HearsRelay

-----------------------------------------------------------------------------
(* The local stream is there before the first newcomer.                    *)

\* What waits for the executor of c; before join has been answered there is no
\* connection and nothing to call.
TasksOK(c) ==
    /\ QueueOK(exec[c], inbox[c], seen[c], stream[c])
    /\ ~stream[c] =>
          \A p \in Clients : peers[c][p] = NoPeer /\ pending[c][p] = << >>

TasksInv == EndInv /\ HistoryInv /\ \A c \in Clients : TasksOK(c)

\* Every step keeps it.
LEMMA TasksStep ==
    ASSUME MaxJoins <= 1, TasksInv, [Next]_vars
    PROVE  TasksInv'
<1> USE CallAssumption
<1>1. /\ EndInv /\ HistoryInv /\ CallTypeOK /\ ClientTypeOK /\ MembershipInv
      /\ CallTypeOK' /\ EndInv' /\ [ServerNext]_serverVars
  <2>1. EndInv /\ HistoryInv /\ CallTypeOK
    BY DEF TasksInv, EndInv
  <2>2. EndInv' /\ [ServerNext]_serverVars
    BY <2>1, EndStep, CallServerStep
  <2> QED BY <2>1, <2>2 DEF EndInv, CallTypeOK, HistoryInv, NewsInv
<1>2. HistoryInv'
  BY <1>1, HistoryStep
<1> SUFFICES ASSUME NEW c \in Clients PROVE TasksOK(c)'
  BY <1>1, <1>2 DEF TasksInv
<1>3. /\ exec[c] \in Seq(ExecTasks) /\ inbox[c] \in Seq(Frames)
      /\ inbox'[c] \in Seq(Frames) /\ seen[c] \in Nat
  BY <1>1 DEF CallTypeOK, ClientTypeOK, ServerTypeOK
<1>4. QueueOK(exec[c], inbox[c], seen[c], stream[c])
  BY DEF TasksInv, TasksOK
<1>5. ~stream[c] => \A p \in Clients : peers[c][p] = NoPeer /\ pending[c][p] = << >>
  BY DEF TasksInv, TasksOK
<1>6. Longer(inbox[c], inbox'[c])
  BY <1>1, InboxGrows
<1>7. CASE Idles(c)
  <2>1. QueueOK(exec[c], inbox'[c], seen[c], stream[c])
    BY <1>3, <1>4, <1>6, QueueLonger
  <2> QED BY <1>5, <1>7, <2>1 DEF Idles, AtRest, TasksOK
<1>8. CASE Ends(c)
  <2>1. PICK x \in ExecTasks : x = [op |-> "exit"] /\ x.op = "exit"
    <3>1. [op |-> "exit"] \in [op : {"exit"}] /\ [op |-> "exit"].op = "exit"
      OBVIOUS
    <3> QED BY <3>1 DEF ExecTasks
  <2>2. QueueOK(Append(exec[c], x), inbox[c], seen[c], stream[c])
    BY <1>3, <1>4, <2>1, QueueExit
  <2>3. QueueOK(Append(exec[c], x), inbox'[c], seen[c], stream[c])
    BY <1>3, <1>6, <2>2, QueueLonger
  <2> QED BY <1>5, <1>8, <2>1, <2>3 DEF Ends, AtRest, TasksOK
<1>9. CASE Receives(c)
  <2> DEFINE n == seen[c]
  <2>1. n < Len(inbox[c]) /\ Len(inbox[c]) \in Nat
    BY <1>3, <1>9, LenProperties DEF Receives
  <2>2. DOMAIN inbox[c] = 1..Len(inbox[c])
    BY <1>3, LenProperties
  <2>3. /\ n + 1 \in DOMAIN inbox[c] /\ 1..n \subseteq DOMAIN inbox[c]
        /\ \A k \in 1..n : k # n + 1
        /\ \A j \in DOMAIN inbox[c] : j < n + 1 => j \in 1..n
    BY <1>3, <2>1, <2>2
  <2>4. FramesOrdered(c)
    BY <1>1 DEF HistoryInv
  <2>5. inbox[c][n + 1].event = "_peers" =>
           \A k \in 1..n : inbox[c][k].event # "_peers"
    BY <2>3, <2>4 DEF FramesOrdered
  <2>6. inbox[c][n + 1].event = "_new_peer" =>
           \E k \in 1..n : inbox[c][k].event = "_peers"
    BY <2>3, <2>4 DEF FramesOrdered
  <2>7. QueueOK(Append(exec[c], TaskFor(inbox[c][n + 1])), inbox[c], n + 1,
                stream[c])
    BY <1>3, <1>4, <2>1, <2>5, <2>6, QueueDeliver
  <2> QED BY <1>5, <1>9, <2>7 DEF Receives, AtRest, TasksOK
<1>10. CASE Watches(c)
  <2>1. /\ inbox' = inbox /\ seen' = seen /\ exec' = exec /\ stream' = stream
        /\ SignallingThread(c)
    BY <1>10 DEF Watches, serverVars
  <2>2. ASSUME NEW p \in Clients, ~stream[c]
        PROVE  peers'[c][p] = NoPeer /\ pending'[c][p] = << >>
    BY <1>1, <1>5, <2>1, <2>2, ObserverEffect
       DEF CallRun, Created, SetDone, CandidateDone, Same
  <2> QED BY <1>4, <2>1, <2>2 DEF TasksOK
<1>11. CASE Works(c)
  <2>1. inbox' = inbox /\ seen' = seen /\ Executor(c)
    BY <1>11 DEF Works, serverVars
  <2>2. exec[c] # << >> /\ exec'[c] = Tail(exec[c])
    BY <1>1, <2>1, ExecutorSocket DEF ClientTypeOK
  <2>3. /\ Head(exec[c]).op = "peers" =>
              QueueOK(Tail(exec[c]), inbox[c], seen[c], TRUE)
        /\ Head(exec[c]).op # "peers" =>
              QueueOK(Tail(exec[c]), inbox[c], seen[c], stream[c])
        /\ Head(exec[c]).op = "new_peer" => stream[c]
    <3>1. stream[c] \in BOOLEAN
      BY <1>1 DEF ClientTypeOK
    <3> QED BY <1>3, <1>4, <2>2, <3>1, QueueTaken
  <2>4. \A p \in Clients :
           /\ TaskRun(c, p)
           /\ stream'[c] <=> stream[c] \/ Head(exec[c]).op = "peers"
    BY <1>1, <2>1, <2>3, ExecutorEffect
  <2>5. stream[c] \in BOOLEAN /\ stream'[c] \in BOOLEAN
    BY <1>1 DEF CallTypeOK, ClientTypeOK
  <2>6. stream'[c] <=> stream[c] \/ Head(exec[c]).op = "peers"
    BY <2>4
  <2>7. QueueOK(exec'[c], inbox'[c], seen'[c], stream'[c])
    <3>1. CASE Head(exec[c]).op = "peers"
      <4>1. stream'[c] = TRUE
        BY <2>5, <2>6, <3>1
      <4> QED BY <2>1, <2>2, <2>3, <3>1, <4>1
    <3>2. CASE Head(exec[c]).op # "peers"
      <4>1. stream'[c] = stream[c]
        BY <2>5, <2>6, <3>2
      <4> QED BY <2>1, <2>2, <2>3, <3>2, <4>1
    <3> QED BY <3>1, <3>2
  <2>8. ASSUME NEW p \in Clients, ~stream'[c]
        PROVE  peers'[c][p] = NoPeer /\ pending'[c][p] = << >>
    <3>1. /\ ~stream[c] /\ Head(exec[c]).op # "peers"
          /\ peers[c][p] = NoPeer /\ pending[c][p] = << >>
      BY <1>5, <2>6, <2>8
    <3>2. peers[c][p].sig = "none" /\ peers[c][p].remote = FALSE
      BY <3>1 DEF NoPeer
    <3>3. Head(exec[c]) # TaskOf("new_peer", p)
      BY <2>3, <3>1 DEF TaskOf
    <3> QED BY <2>4, <3>1, <3>2, <3>3
            DEF TaskRun, Dropped, Same, RemoteRun, CandidateRun
  <2> QED BY <2>7, <2>8 DEF TasksOK
<1> QED BY <1>1, <1>7, <1>8, <1>9, <1>10, <1>11, ClientMoves

\* It holds at the start.
LEMMA TasksStart == Init => TasksInv
<1> SUFFICES ASSUME Init PROVE TasksInv
  OBVIOUS
<1> USE CallAssumption
<1>1. EndInv
  BY EndStart
<1>2. ServerInit /\ ClientInit /\ seen = [c \in Clients |-> 0]
  BY DEF Init
<1>3. NewsInv
  BY <1>2, NewsStart
<1>4. /\ \A x \in Sessions : inbox[x] = << >>
      /\ \A r \in Rooms : rooms[r] = << >>
  BY <1>2 DEF ServerInit
<1>5. \A x \in Sessions : ~HasAnswer(x) /\ FramesOrdered(x)
                          /\ \A y : ~ListedTo(x, y)
  BY <1>4 DEF HasAnswer, FramesOrdered, ListedTo
<1>6. \A r \in Rooms : ToSet(rooms[r]) = {}
  BY <1>4 DEF ToSet
<1>7. HistoryInv
  BY <1>3, <1>5, <1>6 DEF HistoryInv, ListsAnnounced, MembersAnswered
<1>8. ASSUME NEW c \in Clients PROVE TasksOK(c)
  <2>1. /\ exec[c] = << >> /\ inbox[c] = << >> /\ seen[c] = 0
        /\ stream[c] = FALSE
        /\ \A p \in Clients : peers[c][p] = NoPeer /\ pending[c][p] = << >>
    BY <1>2, <1>4 DEF ClientInit
  <2>2. QueueOK(exec[c], inbox[c], seen[c], stream[c])
    BY <2>1 DEF QueueOK
  <2> QED BY <2>1, <2>2 DEF TasksOK
<1> QED BY <1>1, <1>7, <1>8 DEF TasksInv

\* An exception leaves the executor or the signalling thread only in a client
\* that is hanging up or has lost its connection: onRemoteJoinToRoom always
\* finds the stream that onJoinToRoom made, because join's answer comes before
\* the first _new_peer all the way from the server to the executor, and the
\* observers find the socket as long as it is open.
THEOREM CrashesOnlyOnTheWayOut ==
    ASSUME MaxJoins <= 1
    PROVE  Spec => CrashOnlyOnTheWayOut
<1>1. ASSUME TasksInv, [Next]_vars, NEW c \in Clients, crashed'[c], ~crashed[c]
      PROVE  ws[c] # "open"
  <2>1. CallTypeOK /\ ClientTypeOK /\ SocketsAgree
    BY <1>1 DEF TasksInv, EndInv, CallTypeOK
  <2>2. ws[c] = "open" => webSocket[c]
    BY <2>1 DEF SocketsAgree
  <2>3. ASSUME NEW x \in Clients, ObserverStep(x)
        PROVE  ws[c] # "open"
    BY <1>1, <2>1, <2>2, <2>3, ObserverSocket DEF ObserverStep, ClientTypeOK
  <2>4. ASSUME NEW x \in Clients, ExecutorStep(x)
        PROVE  crashed'[c] = crashed[c]
    <3>1. Executor(x) /\ exec[x] # << >> /\ exec[x] \in Seq(ExecTasks)
      BY <2>1, <2>4, ExecutorSocket DEF ExecutorStep, ClientTypeOK
    <3>2. QueueOK(exec[x], inbox[x], seen[x], stream[x])
      BY <1>1 DEF TasksInv, TasksOK
    <3>3. Head(exec[x]).op = "new_peer" => stream[x]
      <4>1. inbox[x] \in Seq(Frames) /\ stream[x] \in BOOLEAN
        BY <2>1, CallAssumption DEF CallTypeOK, ServerTypeOK, ClientTypeOK
      <4> QED BY <3>1, <3>2, <4>1, QueueTaken
    <3> QED BY <3>1, <3>3
            DEF Executor, ExecPeers, ExecNewPeer, ExecRemovePeer, ExecOffer,
                ExecAnswer, ExecCandidate, ExecExit, TakeTask
  <2> QED BY <1>1, <2>3, <2>4
          DEF Next, RunnerStep, Connect, JoinRoom, ExitRoom, Deliver, WsOnClose,
              Arrive, Lose, ServerNotices, vars, clientVars
<1>2. TasksInv /\ [Next]_vars =>
         [\A c \in Clients :
             crashed'[c] /\ ~crashed[c] => left[c] \/ ws[c] # "open"]_vars
  BY <1>1
<1>3. TasksInv /\ [Next]_vars => TasksInv'
  BY TasksStep
<1> QED BY <1>2, <1>3, TasksStart, PTL DEF Spec, CrashOnlyOnTheWayOut

-----------------------------------------------------------------------------
(* An offer or an answer on its way is one message.                        *)

\* The message kind of p to c has been sent: it is in p's socket, in the server
\* or in c's inbox.
Sent(kind, p, c) ==
    \/ In(up[p], Message(kind, c))
    \/ In(runner, RelayTask(p, kind, c))
    \/ In(inbox[c], RelayFrame(kind, p))

\* It has been sent once.
SentOnce(kind, p, c) ==
    /\ Once(up[p], Message(kind, c))
    /\ Once(runner, RelayTask(p, kind, c))
    /\ Once(inbox[c], RelayFrame(kind, p))
    /\ In(up[p], Message(kind, c)) =>
          ~In(runner, RelayTask(p, kind, c)) /\ ~In(inbox[c], RelayFrame(kind, p))
    /\ In(runner, RelayTask(p, kind, c)) => ~In(inbox[c], RelayFrame(kind, p))

\* A frame that was relayed comes from the head of the runner's queue.
LEMMA RelayedFrame ==
    ASSUME MembershipInv, [ServerNext]_serverVars, NEW c \in Sessions
    PROVE  \/ NotTold(c)
           \/ \E f \in Frames :
                 /\ Told(c, f)
                 /\ \A kind \in RelayKinds, p \in Sessions :
                       f = RelayFrame(kind, p) =>
                           Take /\ Head(runner) = RelayTask(p, kind, c)
<1>1. ASSUME NEW s \in Sessions, Told(c, NewPeerFrame(s))
      PROVE  \E f \in Frames :
                 /\ Told(c, f)
                 /\ \A kind \in RelayKinds, p \in Sessions :
                       f = RelayFrame(kind, p) =>
                           Take /\ Head(runner) = RelayTask(p, kind, c)
  BY <1>1, FrameKinds, RelayKind
<1>2. ASSUME NEW s \in Sessions, Told(c, RemovePeerFrame(s))
      PROVE  \E f \in Frames :
                 /\ Told(c, f)
                 /\ \A kind \in RelayKinds, p \in Sessions :
                       f = RelayFrame(kind, p) =>
                           Take /\ Head(runner) = RelayTask(p, kind, c)
  BY <1>2, FrameKinds, RelayKind
<1>3. ASSUME NEW ids \in SUBSET Sessions, Told(c, PeersFrame(c, ids))
      PROVE  \E f \in Frames :
                 /\ Told(c, f)
                 /\ \A kind \in RelayKinds, p \in Sessions :
                       f = RelayFrame(kind, p) =>
                           Take /\ Head(runner) = RelayTask(p, kind, c)
  BY <1>3, FrameKinds, RelayKind
<1>4. ASSUME NEW s \in Sessions, NEW k \in RelayKinds, HearsRelay(c, s, k)
      PROVE  \E f \in Frames :
                 /\ Told(c, f)
                 /\ \A kind \in RelayKinds, p \in Sessions :
                       f = RelayFrame(kind, p) =>
                           Take /\ Head(runner) = RelayTask(p, kind, c)
  <2>1. \A kind \in RelayKinds, p \in Sessions :
           RelayFrame(k, s) = RelayFrame(kind, p) => kind = k /\ p = s
    <3> SUFFICES ASSUME NEW kind \in RelayKinds, NEW p \in Sessions,
                        RelayFrame(k, s) = RelayFrame(kind, p)
                 PROVE  kind = k /\ p = s
      OBVIOUS
    <3>1. /\ RelayFrame(k, s).event = k /\ RelayFrame(k, s).socketId = s
          /\ RelayFrame(kind, p).event = kind /\ RelayFrame(kind, p).socketId = p
      BY DEF RelayFrame
    <3> QED BY <3>1
  <2>2. RelayFrame(k, s) \in Frames
    BY RelayKind
  <2> QED BY <1>4, <2>1, <2>2 DEF HearsRelay
<1> QED BY <1>1, <1>2, <1>3, <1>4, OneFrame
        DEF HearsNewcomer, HearsAnswer, HearsLeaver

\* Every step moves such a message on, loses it, or sends it.
LEMMA SentStep ==
    ASSUME CallTypeOK, MembershipInv, [Next]_vars,
           NEW p \in Clients, NEW c \in Clients, NEW kind \in RelayKinds
    PROVE  /\ In(inbox'[c], RelayFrame(kind, p)) =>
                 \/ In(inbox[c], RelayFrame(kind, p))
                 \/ In(runner, RelayTask(p, kind, c))
           /\ Sent(kind, p, c)' =>
                 Sent(kind, p, c) \/ Sends(p, c, Message(kind, c))
           /\ /\ SentOnce(kind, p, c)
              /\ Sends(p, c, Message(kind, c)) => ~Sent(kind, p, c)
              => SentOnce(kind, p, c)'
<1> USE CallAssumption
<1> DEFINE M == Message(kind, c)
           T == RelayTask(p, kind, c)
           F == RelayFrame(kind, p)
<1>1. /\ up[p] \in Seq(Messages) /\ runner \in Seq(Tasks)
      /\ inbox[c] \in Seq(Frames) /\ [ServerNext]_serverVars
  BY CallServerStep DEF CallTypeOK, ClientTypeOK, ServerTypeOK
<1>2. M \in Messages /\ T \in Tasks /\ F \in Frames
  BY RelayKind DEF Message, Messages, RelayTask, Tasks, RelayKinds
<1>3. M.op = kind /\ M.to = c /\ T.op = "relay" /\ T.s = p
  BY DEF Message, RelayTask
<1>4. Carried(p, c)
  BY StepCarries
<1> DEFINE Goal == /\ In(inbox'[c], F) => In(inbox[c], F) \/ In(runner, T)
                   /\ Sent(kind, p, c)' => Sent(kind, p, c) \/ Sends(p, c, M)
                   /\ /\ SentOnce(kind, p, c)
                      /\ Sends(p, c, M) => ~Sent(kind, p, c)
                      => SentOnce(kind, p, c)'
<1>5. /\ Sent(kind, p, c) <=> In(up[p], M) \/ In(runner, T) \/ In(inbox[c], F)
      /\ Sent(kind, p, c)' <=> In(up'[p], M) \/ In(runner', T) \/ In(inbox'[c], F)
      /\ SentOnce(kind, p, c) <=>
            /\ Once(up[p], M) /\ Once(runner, T) /\ Once(inbox[c], F)
            /\ In(up[p], M) => ~In(runner, T) /\ ~In(inbox[c], F)
            /\ In(runner, T) => ~In(inbox[c], F)
      /\ SentOnce(kind, p, c)' <=>
            /\ Once(up'[p], M) /\ Once(runner', T) /\ Once(inbox'[c], F)
            /\ In(up'[p], M) => ~In(runner', T) /\ ~In(inbox'[c], F)
            /\ In(runner', T) => ~In(inbox'[c], F)
  BY DEF Sent, SentOnce
<1> HIDE DEF M, T, F
<1>6. ASSUME Rests(p, c)
      PROVE  Goal
  BY <1>5, <1>6 DEF Rests
<1>7. ASSUME NEW m, Sends(p, c, m)
      PROVE  Goal
  <2>1. /\ m \in Messages /\ runner' = runner /\ inbox'[c] = inbox[c]
        /\ up'[p] = Append(up[p], m)
    BY <1>7 DEF Sends
  <2>2. /\ In(up'[p], M) <=> In(up[p], M) \/ m = M
        /\ Once(up[p], M) /\ (m = M => ~In(up[p], M)) => Once(up'[p], M)
    BY <1>1, <1>2, <2>1, InAppend
  <2> QED BY <1>5, <1>7, <2>1, <2>2
<1>8. ASSUME Drops(p, c)
      PROVE  Goal
  <2>1. ~In(up'[p], M) /\ Once(up'[p], M)
    BY <1>8 DEF Drops, In, Once
  <2> QED BY <1>5, <1>8, <2>1 DEF Drops
<1>9. ASSUME NEW m, NEW task, Arrives(p, c, m, task)
      PROVE  Goal
  <2>1. /\ up[p] # << >> /\ Head(up[p]) = m /\ up'[p] = Tail(up[p])
        /\ task \in Tasks /\ runner' = Append(runner, task)
        /\ inbox'[c] = inbox[c]
    BY <1>9 DEF Arrives
  <2>2. m \in Messages
    BY <1>1, <2>1, TakenQueue
  <2>3. task = T <=> m = M
    <3>1. CASE m.op = "join"
      <4>1. task.op # "relay"
        BY <1>9, <3>1 DEF Arrives
      <4> QED BY <1>3, <3>1, <4>1 DEF RelayKinds
    <3>2. CASE m.op # "join"
      <4>1. task = RelayTask(p, m.op, m.to)
        BY <1>9, <3>2 DEF Arrives
      <4>2. task.kind = m.op /\ task.to = m.to
        BY <4>1 DEF RelayTask
      <4>3. T.kind = kind /\ T.to = c
        BY DEF T, RelayTask
      <4>4. m = [op |-> m.op, to |-> m.to]
        BY <2>2, <3>2 DEF Messages
      <4>5. task = T => m = M
        BY <4>2, <4>3, <4>4 DEF M, Message
      <4>6. m = M => task = T
        BY <1>3, <4>1 DEF T
      <4> QED BY <4>5, <4>6
    <3> QED BY <3>1, <3>2
  <2>4. /\ In(runner', T) <=> In(runner, T) \/ task = T
        /\ Once(runner, T) /\ (task = T => ~In(runner, T)) => Once(runner', T)
    BY <1>1, <1>2, <2>1, InAppend
  <2>5. /\ In(up[p], M) <=> m = M \/ In(up'[p], M)
        /\ Once(up[p], M) => Once(up'[p], M)
        /\ Once(up[p], M) /\ m = M => ~In(up'[p], M)
    BY <1>1, <2>1, InTail
  <2> QED BY <1>5, <2>1, <2>3, <2>4, <2>5
<1>10. ASSUME NEW task, Queues(p, c, task)
       PROVE  Goal
  <2>1. /\ task \in Tasks /\ runner' = Append(runner, task)
        /\ inbox'[c] = inbox[c] /\ up'[p] = up[p] /\ task # T
    BY <1>3, <1>10 DEF Queues
  <2>2. /\ In(runner', T) <=> In(runner, T) \/ task = T
        /\ Once(runner, T) /\ (task = T => ~In(runner, T)) => Once(runner', T)
    BY <1>1, <1>2, <2>1, InAppend
  <2> QED BY <1>5, <2>1, <2>2
<1>11. ASSUME Runs(p, c)
       PROVE  Goal
  <2>1. runner # << >> /\ runner' = Tail(runner) /\ up'[p] = up[p]
    BY <1>11 DEF Runs, Take
  <2>2. /\ In(runner, T) <=> Head(runner) = T \/ In(runner', T)
        /\ Once(runner, T) => Once(runner', T)
        /\ Once(runner, T) /\ Head(runner) = T => ~In(runner', T)
    BY <1>1, <2>1, InTail
  <2>3. ASSUME NotTold(c)
        PROVE  Goal
    BY <1>5, <2>1, <2>2, <2>3 DEF NotTold
  <2>4. ASSUME NEW f \in Frames, Told(c, f), f = F => Head(runner) = T
        PROVE  Goal
    <3>1. /\ In(inbox'[c], F) <=> In(inbox[c], F) \/ f = F
          /\ Once(inbox[c], F) /\ (f = F => ~In(inbox[c], F)) => Once(inbox'[c], F)
      BY <1>1, <1>2, <2>4, InAppend DEF Told
    <3> QED BY <1>5, <2>1, <2>2, <2>4, <3>1
  <2>5. \/ NotTold(c)
        \/ \E f \in Frames : Told(c, f) /\ (f = F => Head(runner) = T)
    <3>1. c \in Sessions /\ p \in Sessions
      OBVIOUS
    <3> QED BY <1>1, <3>1, RelayedFrame DEF F, T
  <2> QED BY <2>3, <2>4, <2>5
<1>12. Goal
  BY <1>4, <1>6, <1>7, <1>8, <1>9, <1>10, <1>11 DEF Carried
<1> QED BY <1>12 DEF M, T, F

-----------------------------------------------------------------------------
(* The callee: an offer finds the connection made for it.                  *)

\* The first n frames of box include f.
HeardIn(box, n, f) == \E k \in 1..n : box[k] = f

Heard(c, f) == HeardIn(inbox[c], seen[c], f)

\* The offer of p has not been run yet.
Undone(c, p) ==
    Heard(c, RelayFrame("offer", p)) => In(exec[c], TaskOf("offer", p))

\* As long as p has not been called and its offer has not run, the connection
\* to it has exchanged nothing.
Fresh(c, p) ==
    ~ListedTo(c, p) /\ Undone(c, p) =>
        peers[c][p] \in {NoPeer, NewPeer} /\ pending[c][p] = << >>

\* A newcomer has its connection until it is removed.
Kept(c, p) ==
    Heard(c, NewPeerFrame(p)) =>
        \/ In(exec[c], TaskOf("new_peer", p))
        \/ webSocket[c] => Has(c, p)
        \/ Heard(c, RemovePeerFrame(p))

\* The offer in the queue is one, has its connection or the newcomer ahead of
\* it, and is not behind the goodbye.
OfferAwaited(c, p) ==
    /\ Once(exec[c], TaskOf("offer", p))
    /\ webSocket[c] /\ ~Has(c, p) =>
          Precedes(exec[c], TaskOf("new_peer", p), TaskOf("offer", p))
    /\ \A i, j \in DOMAIN exec[c] :
          i < j /\ exec[c][i] = TaskOf("remove_peer", p) =>
              exec[c][j] # TaskOf("offer", p)

Receiver(c, p) == Fresh(c, p) /\ Kept(c, p) /\ OfferAwaited(c, p)

\* The names of the frames and the tasks.
LEMMA Names ==
    ASSUME NEW p \in Clients
    PROVE  /\ News("new_peer", p) = NewPeerFrame(p)
           /\ News("remove_peer", p) = RemovePeerFrame(p)
           /\ \A kind \in RelayKinds : News(kind, p) = RelayFrame(kind, p)
           /\ \A op \in PeerOps : /\ TaskOf(op, p) \in ExecTasks
                                  /\ TaskOf(op, p).op = op
                                  /\ TaskOf(op, p).id = p
           /\ RelayKinds \subseteq PeerOps
<1>1. \A op \in PeerOps : TaskOf(op, p).op = op /\ TaskOf(op, p).id = p
  BY DEF TaskOf
<1>2. \A op \in PeerOps : TaskOf(op, p) \in ExecTasks
  BY DEF TaskOf, ExecTasks, PeerOps
<1> QED BY <1>1, <1>2
        DEF News, NewPeerFrame, RemovePeerFrame, RelayFrame, RelayKinds, PeerOps

\* What is in the queue has been heard.
LEMMA TaskHeard ==
    ASSUME NEW q \in Seq(ExecTasks), NEW box \in Seq(Frames), NEW n, NEW st,
           QueueOK(q, box, n, st), NEW op \in PeerOps, NEW p \in Clients,
           In(q, TaskOf(op, p))
    PROVE  HeardIn(box, n, News(op, p))
<1>1. PICK i \in DOMAIN q : q[i] = TaskOf(op, p)
  BY DEF In
<1>2. q[i].op # "exit"
  BY <1>1 DEF TaskOf, PeerOps
<1>3. PICK k \in 1..n : q[i] = TaskFor(box[k])
  BY <1>2 DEF QueueOK
<1>4. k \in DOMAIN box
  BY LenProperties DEF QueueOK
<1>5. PICK f \in Frames : f = box[k]
  BY <1>4, ElementOfSeq
<1>6. f = News(op, p)
  BY <1>1, <1>3, <1>5, TaskFrame
<1> QED BY <1>5, <1>6 DEF HeardIn

\* What has been heard is in the inbox.
LEMMA HeardIsReceived ==
    ASSUME NEW box \in Seq(Frames), NEW n \in Nat, n <= Len(box), NEW f,
           HeardIn(box, n, f)
    PROVE  In(box, f)
<1>1. Len(box) \in Nat /\ DOMAIN box = 1..Len(box)
  BY LenProperties
<1> QED BY <1>1 DEF HeardIn, In

\* More frames on the way, and one frame more received.
LEMMA HeardAfterStep ==
    ASSUME NEW box \in Seq(Frames), NEW box2 \in Seq(Frames), Longer(box, box2),
           NEW n \in Nat, n <= Len(box), NEW f
    PROVE  /\ HeardIn(box2, n, f) <=> HeardIn(box, n, f)
           /\ HeardIn(box, n + 1, f) <=> HeardIn(box, n, f) \/ box[n + 1] = f
<1>1. Len(box) \in Nat
  BY LenProperties
<1>2. \A k \in 1..n : box2[k] = box[k]
  BY <1>1 DEF Longer
<1>3. /\ \A k \in 1..(n + 1) : k \in 1..n \/ k = n + 1
      /\ 1..n \subseteq 1..(n + 1) /\ n + 1 \in 1..(n + 1)
  OBVIOUS
<1> QED BY <1>2, <1>3 DEF HeardIn

\* Whoever was listed stays listed.
LEMMA ListedKept ==
    ASSUME NEW x, NEW y, inbox[x] \in Seq(Frames), inbox'[x] \in Seq(Frames),
           Longer(inbox[x], inbox'[x]), ListedTo(x, y)
    PROVE  ListedTo(x, y)'
<1>1. /\ DOMAIN inbox[x] = 1..Len(inbox[x]) /\ Len(inbox[x]) \in Nat
      /\ DOMAIN inbox'[x] = 1..Len(inbox'[x]) /\ Len(inbox'[x]) \in Nat
  BY LenProperties
<1>2. \A k \in DOMAIN inbox[x] : k \in DOMAIN inbox'[x] /\ inbox'[x][k] = inbox[x][k]
  BY <1>1 DEF Longer
<1> QED BY <1>2 DEF ListedTo

\* The list in the task of join's answer is the list that was received.
LEMMA ListedTask ==
    ASSUME NEW c \in Clients, NEW q \in Seq(ExecTasks), inbox[c] \in Seq(Frames),
           NEW n, NEW st \in BOOLEAN, QueueOK(q, inbox[c], n, st), q # << >>,
           Head(q).op = "peers", NEW p, p \in Head(q).connections
    PROVE  ListedTo(c, p)
<1>1. PICK k \in 1..n : Head(q) = TaskFor(inbox[c][k])
  BY QueueTaken
<1>2. k \in DOMAIN inbox[c]
  BY LenProperties DEF QueueOK
<1>3. PICK f \in Frames : f = inbox[c][k]
  BY <1>2, ElementOfSeq
<1>4. f.event = "_peers" /\ TaskFor(f).connections = f.connections
  BY <1>1, <1>3, TaskEvent
<1> QED BY <1>1, <1>2, <1>3, <1>4 DEF ListedTo

\* The order behind a goodbye, in a queue that loses its head.
LEMMA GoodbyeTail ==
    ASSUME NEW S, NEW q \in Seq(S), q # << >>, NEW a, NEW b,
           \A i, j \in DOMAIN q : i < j /\ q[i] = a => q[j] # b
    PROVE  /\ \A i, j \in DOMAIN Tail(q) :
                 i < j /\ Tail(q)[i] = a => Tail(q)[j] # b
           /\ Head(q) = a => ~In(Tail(q), b)
<1> DEFINE r == Tail(q)
           n == Len(q)
<1>1. /\ Head(q) = q[1] /\ r \in Seq(S)
      /\ n \in Nat /\ n >= 1
      /\ Len(r) = n - 1
      /\ \A i \in 1..(n - 1) : r[i] = q[i + 1]
  BY TakenQueue
<1>2. DOMAIN q = 1..n /\ DOMAIN r = 1..(n - 1)
  BY <1>1, LenProperties
<1> HIDE DEF r, n
<1>3. /\ 1 \in DOMAIN q
      /\ \A i \in DOMAIN r : i + 1 \in DOMAIN q /\ r[i] = q[i + 1] /\ 1 < i + 1
      /\ \A i, j \in DOMAIN r : i < j => i + 1 < j + 1
  BY <1>1, <1>2
<1>4. \A i, j \in DOMAIN r : i < j /\ r[i] = a => r[j] # b
  BY <1>3
<1>5. Head(q) = a => ~In(r, b)
  BY <1>1, <1>3 DEF In
<1> QED BY <1>4, <1>5 DEF r

\* The same when something is added.
LEMMA GoodbyeAppend ==
    ASSUME NEW S, NEW q \in Seq(S), NEW x \in S, NEW a, NEW b,
           \A i, j \in DOMAIN q : i < j /\ q[i] = a => q[j] # b,
           x = b => ~In(q, a)
    PROVE  \A i, j \in DOMAIN Append(q, x) :
              i < j /\ Append(q, x)[i] = a => Append(q, x)[j] # b
<1> DEFINE r == Append(q, x)
           n == Len(q)
<1>1. /\ n \in Nat
      /\ DOMAIN q = 1..n
      /\ DOMAIN r = 1..(n + 1)
      /\ r[n + 1] = x
      /\ \A i \in DOMAIN q : r[i] = q[i]
  BY AppendShape
<1> HIDE DEF r, n
<1>2. \A i, j \in DOMAIN r :
         i < j => i \in DOMAIN q /\ (j \in DOMAIN q \/ j = n + 1)
  BY <1>1
<1>3. \A i, j \in DOMAIN r : i < j /\ r[i] = a => r[j] # b
  BY <1>1, <1>2 DEF In
<1> QED BY <1>3 DEF r

\* Every step keeps what is said of the callee, if the offer is in its inbox
\* once and behind the newcomer.
LEMMA ReceiverStep ==
    ASSUME TasksInv, [Next]_vars, NEW c \in Clients, NEW p \in Clients,
           Receiver(c, p), Once(inbox[c], RelayFrame("offer", p)),
           Precedes(inbox[c], NewPeerFrame(p), RelayFrame("offer", p))
    PROVE  Receiver(c, p)'
<1> USE CallAssumption
<1> DEFINE F == RelayFrame("offer", p)
           O == TaskOf("offer", p)
           N == TaskOf("new_peer", p)
           R == TaskOf("remove_peer", p)
<1>1. /\ CallTypeOK /\ ClientTypeOK /\ MembershipInv /\ HistoryInv
      /\ [ServerNext]_serverVars /\ ServerTypeOK'
  <2>1. CallTypeOK /\ HistoryInv
    BY DEF TasksInv, EndInv
  <2>2. CallTypeOK' /\ [ServerNext]_serverVars
    BY <2>1, CallTypeStep, CallServerStep
  <2> QED BY <2>1, <2>2 DEF CallTypeOK, HistoryInv, NewsInv
<1>2. /\ exec[c] \in Seq(ExecTasks) /\ inbox[c] \in Seq(Frames)
      /\ inbox'[c] \in Seq(Frames) /\ seen[c] \in Nat
      /\ stream[c] \in BOOLEAN /\ webSocket[c] \in BOOLEAN
  BY <1>1 DEF CallTypeOK, ClientTypeOK, ServerTypeOK
<1>3. /\ QueueOK(exec[c], inbox[c], seen[c], stream[c])
      /\ seen[c] <= Len(inbox[c])
      /\ ~stream[c] => peers[c][p] = NoPeer
  BY DEF TasksInv, TasksOK, QueueOK
<1>4. Longer(inbox[c], inbox'[c])
  BY <1>1, InboxGrows
<1>5. ListedTo(c, p) => ListedTo(c, p)'
  BY <1>2, <1>4, ListedKept
<1>6. \A f : HeardIn(inbox'[c], seen[c], f) <=> Heard(c, f)
  BY <1>2, <1>3, <1>4, HeardAfterStep DEF Heard
<1>7. /\ O \in ExecTasks /\ N \in ExecTasks /\ R \in ExecTasks
      /\ O.op = "offer" /\ N.op = "new_peer" /\ R.op = "remove_peer"
  BY Names DEF PeerOps
<1>8. /\ O # N /\ O # R /\ N # R
  BY <1>7
<1>9. /\ In(exec[c], O) => Heard(c, F)
      /\ In(exec[c], R) => Heard(c, RemovePeerFrame(p))
  <2>1. "offer" \in PeerOps /\ "remove_peer" \in PeerOps
    BY DEF PeerOps
  <2>2. News("offer", p) = F /\ News("remove_peer", p) = RemovePeerFrame(p)
    BY Names DEF RelayKinds
  <2>3. In(exec[c], O) => HeardIn(inbox[c], seen[c], News("offer", p))
    BY <1>2, <1>3, <2>1, TaskHeard
  <2>4. In(exec[c], R) => HeardIn(inbox[c], seen[c], News("remove_peer", p))
    BY <1>2, <1>3, <2>1, TaskHeard
  <2> QED BY <2>2, <2>3, <2>4 DEF Heard
<1>10. /\ Once(exec[c], O)
       /\ webSocket[c] /\ ~Has(c, p) => Precedes(exec[c], N, O)
       /\ \A i, j \in DOMAIN exec[c] :
             i < j /\ exec[c][i] = R => exec[c][j] # O
  BY DEF Receiver, OfferAwaited
<1>11. Heard(c, NewPeerFrame(p)) =>
          \/ In(exec[c], N)
          \/ webSocket[c] => Has(c, p)
          \/ Heard(c, RemovePeerFrame(p))
  BY DEF Receiver, Kept
<1>12. ~ListedTo(c, p) /\ (Heard(c, F) => In(exec[c], O)) =>
          peers[c][p] \in {NoPeer, NewPeer} /\ pending[c][p] = << >>
  BY DEF Receiver, Fresh, Undone
<1>13. ASSUME NEW q, exec'[c] = q,
              ~ListedTo(c, p)' /\ (Heard(c, F)' => In(q, O)) =>
                 peers'[c][p] \in {NoPeer, NewPeer} /\ pending'[c][p] = << >>,
              Heard(c, NewPeerFrame(p))' =>
                 \/ In(q, N)
                 \/ webSocket'[c] => Has(c, p)'
                 \/ Heard(c, RemovePeerFrame(p))',
              Once(q, O),
              webSocket'[c] /\ ~Has(c, p)' => Precedes(q, N, O),
              \A i, j \in DOMAIN q : i < j /\ q[i] = R => q[j] # O
       PROVE  Receiver(c, p)'
  BY <1>13 DEF Receiver, Fresh, Undone, Kept, OfferAwaited
<1> HIDE DEF F, O, N, R
<1>14. CASE Idles(c)
  <2>1. /\ exec'[c] = exec[c] /\ \A f : Heard(c, f)' <=> Heard(c, f)
        /\ Has(c, p)' <=> Has(c, p)
        /\ peers'[c][p] = peers[c][p] /\ pending'[c][p] = pending[c][p]
        /\ webSocket'[c] = webSocket[c]
    BY <1>6, <1>14 DEF Idles, AtRest, Heard, Has
  <2> QED BY <1>5, <1>10, <1>11, <1>12, <1>13, <2>1
<1>15. CASE Ends(c)
  <2>1. PICK x \in ExecTasks : x = [op |-> "exit"] /\ x.op = "exit"
    <3>1. [op |-> "exit"] \in [op : {"exit"}] /\ [op |-> "exit"].op = "exit"
      OBVIOUS
    <3> QED BY <3>1 DEF ExecTasks
  <2> DEFINE q == Append(exec[c], x)
  <2>2. /\ exec'[c] = q /\ \A f : Heard(c, f)' <=> Heard(c, f)
        /\ Has(c, p)' <=> Has(c, p)
        /\ peers'[c][p] = peers[c][p] /\ pending'[c][p] = pending[c][p]
        /\ webSocket'[c] = webSocket[c]
    BY <1>6, <1>15, <2>1 DEF Ends, AtRest, Heard, Has
  <2>3. x # O /\ x # N /\ x # R
    BY <1>7, <2>1
  <2>4. /\ In(q, O) <=> In(exec[c], O)
        /\ In(q, N) <=> In(exec[c], N)
        /\ Once(q, O)
    BY <1>2, <1>10, <2>3, InAppend
  <2>5. Precedes(exec[c], N, O) => Precedes(q, N, O)
    BY <1>2, <2>3, PrecedesAppend
  <2>6. \A i, j \in DOMAIN q : i < j /\ q[i] = R => q[j] # O
    BY <1>2, <1>10, <2>3, GoodbyeAppend
  <2> HIDE DEF q
  <2> QED BY <1>5, <1>10, <1>11, <1>12, <1>13, <2>2, <2>4, <2>5, <2>6
<1>16. CASE Receives(c)
  <2> DEFINE n == seen[c]
             f == inbox[c][n + 1]
  <2>1. /\ n < Len(inbox[c]) /\ Len(inbox[c]) \in Nat
        /\ DOMAIN inbox[c] = 1..Len(inbox[c])
    BY <1>2, <1>16, LenProperties DEF Receives
  <2>2. n + 1 \in DOMAIN inbox[c] /\ \A k \in 1..n : k \in DOMAIN inbox[c] /\ k < n + 1
    BY <1>2, <2>1
  <2>3. f \in Frames
    BY <1>2, <2>2, ElementOfSeq
  <2>4. PICK x \in ExecTasks : x = TaskFor(f)
    BY <2>3, TaskForType
  <2>5. /\ x = O <=> f = F
        /\ x = N <=> f = NewPeerFrame(p)
        /\ x = R <=> f = RemovePeerFrame(p)
    <3>1. \A op \in PeerOps : x = TaskOf(op, p) <=> f = News(op, p)
      BY <2>3, <2>4, TaskFrame
    <3>2. /\ x = TaskOf("offer", p) <=> f = News("offer", p)
          /\ x = TaskOf("new_peer", p) <=> f = News("new_peer", p)
          /\ x = TaskOf("remove_peer", p) <=> f = News("remove_peer", p)
      BY <3>1 DEF PeerOps
    <3>3. News("offer", p) = RelayFrame("offer", p)
      BY Names DEF RelayKinds
    <3> QED BY <3>2, <3>3, Names DEF F, O, N, R
  <2> DEFINE q == Append(exec[c], x)
  <2>6. /\ exec'[c] = q /\ inbox' = inbox
        /\ Has(c, p)' <=> Has(c, p)
        /\ peers'[c][p] = peers[c][p] /\ pending'[c][p] = pending[c][p]
        /\ webSocket'[c] = webSocket[c]
        /\ \A g : Heard(c, g)' <=> HeardIn(inbox[c], n + 1, g)
    BY <1>16, <2>4 DEF Receives, AtRest, Heard, Has
  <2>7. \A g : HeardIn(inbox[c], n + 1, g) <=> Heard(c, g) \/ f = g
    BY <1>2, <1>3, <1>4, HeardAfterStep DEF Heard
  <2>8. f = F => ~Heard(c, F)
    BY <2>2 DEF Heard, HeardIn, Once, F
  <2>9. f = F => Heard(c, NewPeerFrame(p))
    <3> SUFFICES ASSUME f = F PROVE Heard(c, NewPeerFrame(p))
      OBVIOUS
    <3>1. PICK k \in DOMAIN inbox[c] : k < n + 1 /\ inbox[c][k] = NewPeerFrame(p)
      BY <2>2 DEF Precedes, F
    <3>2. k \in 1..n
      BY <1>2, <2>1, <3>1
    <3> QED BY <3>1, <3>2 DEF Heard, HeardIn
  <2>10. f = F => ~Heard(c, RemovePeerFrame(p))
    <3> SUFFICES ASSUME f = F, NEW k \in 1..n, inbox[c][k] = RemovePeerFrame(p)
                 PROVE  FALSE
      BY DEF Heard, HeardIn
    <3>1. RemovePeerIsLast
      BY <1>1 DEF HistoryInv, NewsInv
    <3>2. ~About(c, n + 1, p)
      BY <2>2, <3>1 DEF RemovePeerIsLast
    <3>3. f.event # "_peers" /\ f.socketId = p
      BY RelayKind DEF RelayKinds, F
    <3> QED BY <3>2, <3>3 DEF About
  <2>11. /\ In(q, O) <=> In(exec[c], O) \/ x = O
         /\ In(q, N) <=> In(exec[c], N) \/ x = N
    BY <1>2, InAppend
  <2>12. Once(q, O)
    <3>1. x = O => ~In(exec[c], O)
      BY <1>9, <2>5, <2>8
    <3> QED BY <1>2, <1>10, <3>1, InAppend
  <2>13. webSocket[c] /\ ~Has(c, p) => Precedes(q, N, O)
    <3> SUFFICES ASSUME webSocket[c], ~Has(c, p) PROVE Precedes(q, N, O)
      OBVIOUS
    <3>1. x = O => In(exec[c], N)
      BY <1>11, <2>5, <2>9, <2>10
    <3> QED BY <1>2, <1>10, <3>1, PrecedesAppend
  <2>14. \A i, j \in DOMAIN q : i < j /\ q[i] = R => q[j] # O
    <3>1. x = O => ~In(exec[c], R)
      BY <1>9, <2>5, <2>10
    <3> QED BY <1>2, <1>10, <3>1, GoodbyeAppend
  <2>15. ListedTo(c, p)' <=> ListedTo(c, p)
    BY <2>6 DEF ListedTo
  <2> HIDE DEF q, f
  <2>16. (Heard(c, F)' => In(q, O)) => (Heard(c, F) => In(exec[c], O))
    BY <2>5, <2>6, <2>7, <2>8, <2>11
  <2>17. Heard(c, NewPeerFrame(p))' =>
            \/ In(q, N)
            \/ webSocket'[c] => Has(c, p)'
            \/ Heard(c, RemovePeerFrame(p))'
    BY <1>11, <2>5, <2>6, <2>7, <2>11
  <2> QED BY <1>12, <1>13, <2>6, <2>12, <2>13, <2>14, <2>15, <2>16, <2>17
<1>17. CASE Watches(c)
  <2>1. /\ exec' = exec /\ inbox' = inbox /\ seen' = seen /\ webSocket' = webSocket
        /\ SignallingThread(c)
    BY <1>17 DEF Watches, serverVars
  <2>2. /\ \A f : Heard(c, f)' <=> Heard(c, f)
        /\ ListedTo(c, p)' <=> ListedTo(c, p)
    BY <2>1 DEF Heard, ListedTo
  <2>3. Has(c, p)' <=> Has(c, p)
    BY <1>1, <2>1, ObserverSocket
  <2>4. pending[c][p] = << >> => Same(c, p)
    BY <1>1, <2>1, ObserverEffect DEF CallRun, Created, SetDone, CandidateDone
  <2> QED BY <1>10, <1>11, <1>12, <1>13, <2>1, <2>2, <2>3, <2>4 DEF Same
<1>18. CASE Works(c)
  <2>1. inbox' = inbox /\ seen' = seen /\ Executor(c)
    BY <1>18 DEF Works, serverVars
  <2>2. exec[c] # << >> /\ exec'[c] = Tail(exec[c])
    <3>1. exec \in [Clients -> Seq(ExecTasks)]
      BY <1>1 DEF ClientTypeOK
    <3>2. exec[c] # << >> /\ exec' = [exec EXCEPT ![c] = Tail(exec[c])]
      BY <1>1, <2>1, ExecutorSocket, Zenon
    <3> QED BY <3>1, <3>2
  <2> DEFINE q == Tail(exec[c])
             h == Head(exec[c])
  <2>3. /\ h.op = "new_peer" => stream[c]
        /\ h.op = "peers" => ~stream[c]
    BY <1>2, <1>3, <2>2, QueueTaken
  <2>4. h.op = "peers" /\ p \in h.connections => ListedTo(c, p)
    BY <1>2, <1>3, <2>2, ListedTask, Zenon
  <2>5. /\ TaskRun(c, p)
        /\ h.op # "exit" => webSocket'[c] = webSocket[c]
        /\ h.op = "exit" => ~webSocket'[c]
    BY <1>1, <2>1, <2>3, ExecutorEffect
  <2>6. /\ \A f : Heard(c, f)' <=> Heard(c, f)
        /\ ListedTo(c, p)' <=> ListedTo(c, p)
    BY <2>1 DEF Heard, ListedTo
  <2>7. /\ In(exec[c], O) <=> h = O \/ In(q, O)
        /\ In(exec[c], N) <=> h = N \/ In(q, N)
        /\ In(exec[c], R) <=> h = R \/ In(q, R)
        /\ Once(q, O)
        /\ h = O => ~In(q, O)
    BY <1>2, <1>10, <2>2, InTail
  <2>8. /\ \A i, j \in DOMAIN q : i < j /\ q[i] = R => q[j] # O
        /\ h = R => ~In(q, O)
    BY <1>2, <1>10, <2>2, GoodbyeTail
  <2>9. Precedes(exec[c], N, O) /\ h # N => Precedes(q, N, O)
    BY <1>2, <2>2, PrecedesTail
  <2>10. ~In(q, O) => Precedes(q, N, O)
    BY DEF Precedes, In
  <2>11. /\ h = N => Has(c, p)'
         /\ h.op = "exit" \/ h = R \/ (Has(c, p) => Has(c, p)')
    <3>1. /\ O = TaskOf("offer", p) /\ N = TaskOf("new_peer", p)
          /\ R = TaskOf("remove_peer", p)
      BY DEF O, N, R
    <3>2. NewPeer.sig = "stable"
      BY DEF NewPeer
    <3>3. TaskOf("answer", p) # N /\ TaskOf("ice_candidate", p) # N
      BY <1>7 DEF TaskOf
    <3>4. \A op, y : TaskOf(op, y).op = op /\ TaskOf(op, y).id = y
      BY DEF TaskOf
    <3>5. N.id = p
      BY <3>1, <3>4
    <3>6. h = N => Has(c, p)'
      <4> SUFFICES ASSUME h = N PROVE Has(c, p)'
        OBVIOUS
      <4>1. peers'[c][p] = NewPeer
        BY <1>7, <1>8, <2>5, <3>1, <3>3, <3>4, <3>5 DEF TaskRun
      <4> QED BY <3>2, <4>1 DEF Has
    <3>7. ASSUME h.op # "exit", h # R, Has(c, p) PROVE Has(c, p)'
      BY <2>5, <3>1, <3>2, <3>7
         DEF TaskRun, PeersRun, Same, RemoteRun, CandidateRun, Has
    <3> QED BY <3>6, <3>7
  <2> HIDE DEF q, h
  <2>12. webSocket'[c] /\ ~Has(c, p)' => Precedes(q, N, O)
    BY <1>10, <2>5, <2>8, <2>9, <2>10, <2>11
  <2>13. Heard(c, NewPeerFrame(p))' =>
            \/ In(q, N)
            \/ webSocket'[c] => Has(c, p)'
            \/ Heard(c, RemovePeerFrame(p))'
    BY <1>9, <1>11, <2>5, <2>6, <2>7, <2>11
  <2>14. ASSUME ~ListedTo(c, p)', Heard(c, F)' => In(q, O)
         PROVE  peers'[c][p] \in {NoPeer, NewPeer} /\ pending'[c][p] = << >>
    <3>1. /\ ~ListedTo(c, p)
          /\ peers[c][p] \in {NoPeer, NewPeer} /\ pending[c][p] = << >>
      BY <1>12, <2>6, <2>7, <2>14
    <3>2. h # O
      BY <1>9, <2>6, <2>7, <2>14
    <3>3. /\ peers[c][p].sig # "have_local_offer"
          /\ ~peers[c][p].remote
      BY <3>1 DEF NoPeer, NewPeer
    <3>4. h.op = "peers" => p \notin h.connections /\ ~Has(c, p)
      BY <1>3, <2>3, <2>4, <3>1 DEF Has, NoPeer
    <3> QED BY <2>5, <3>1, <3>2, <3>3, <3>4
            DEF TaskRun, PeersRun, Same, Dropped, RemoteRun, CandidateRun, h, O
  <2> QED BY <1>13, <2>2, <2>7, <2>8, <2>12, <2>13, <2>14 DEF q
<1> QED BY <1>1, <1>14, <1>15, <1>16, <1>17, <1>18, ClientMoves

-----------------------------------------------------------------------------
(* The caller: one offer to everyone who was listed.                       *)

\* An Append shows: it is no other step of a queue.
LEMMA AppendShows ==
    ASSUME NEW S, NEW q \in Seq(S), NEW x \in S
    PROVE  /\ Append(q, x) # q /\ Append(q, x) # << >>
           /\ q # << >> => Append(q, x) # Tail(q)
           /\ \A y \in S : Append(q, x) = Append(q, y) => x = y
<1>1. PICK n \in Nat : n = Len(q)
  BY LenProperties
<1>2. Len(Append(q, x)) = n + 1 /\ Append(q, x) # << >>
  BY <1>1, AppendedQueue
<1>3. \A y \in S : Append(q, y)[n + 1] = y
  BY <1>1, AppendedQueue
<1>4. q # << >> => Len(Tail(q)) = n - 1
  BY <1>1, TakenQueue
<1> QED BY <1>1, <1>2, <1>3, <1>4

\* A message to c leaves p only where onSetSuccess and onIceCandidate of the
\* connection to c send it.
LEMMA SendsKind ==
    ASSUME CallTypeOK, [Next]_vars, NEW p \in Clients, NEW c \in Clients,
           NEW kind \in RelayKinds, Sends(p, c, Message(kind, c))
    PROVE  /\ Watches(p)
           /\ kind = "ice_candidate" => CandidateDone(p, c)
           /\ kind # "ice_candidate" =>
                 /\ SetDone(p, c)
                 /\ peers[p][c].sig # "have_remote_offer" /\ Reply(p, c) = kind
<1> DEFINE M == Message(kind, c)
<1>1. /\ ClientTypeOK /\ up \in [Clients -> Seq(Messages)]
      /\ M \in Messages /\ up'[p] = Append(up[p], M)
  BY DEF CallTypeOK, ClientTypeOK, Sends
<1>2. M.op = kind /\ M.to = c /\ kind # "join"
  BY DEF Message, RelayKinds
<1>3. /\ up'[p] # up[p] /\ up'[p] # << >>
      /\ up[p] # << >> => up'[p] # Tail(up[p])
      /\ \A m \in Messages : up'[p] = Append(up[p], m) => m = M
  BY <1>1, AppendShows
<1> HIDE DEF M
<1>4. ASSUME NEW x \in Clients, NEW m \in Messages, Transmit(x, m)
      PROVE  x = p /\ m = M
  <2>1. CASE webSocket[x] /\ ws[x] = "open"
    <3>1. up' = [up EXCEPT ![x] = Append(up[x], m)]
      BY <1>4, <2>1 DEF Transmit
    <3> QED BY <1>1, <1>3, <3>1
  <2>2. CASE ~(webSocket[x] /\ ws[x] = "open")
    <3>1. up' = up
      BY <1>4, <2>2 DEF Transmit, Crash
    <3> QED BY <1>3, <3>1
  <2> QED BY <2>1, <2>2
<1>5. \A k \in RelayKinds, y \in Clients :
         /\ Message(k, y) \in Messages
         /\ Message(k, y) = M => k = kind /\ y = c
  <2> SUFFICES ASSUME NEW k \in RelayKinds, NEW y \in Clients
               PROVE  /\ Message(k, y) \in Messages
                      /\ Message(k, y) = M => k = kind /\ y = c
    OBVIOUS
  <2>1. Message(k, y).op = k /\ Message(k, y).to = y
    BY DEF Message
  <2>2. Message(k, y) \in Messages
    BY DEF Message, Messages, RelayKinds
  <2> QED BY <1>2, <2>1, <2>2
<1>6. ASSUME NEW x \in Clients, ObserverStep(x)
      PROVE  /\ Watches(p)
             /\ kind = "ice_candidate" => CandidateDone(p, c)
             /\ kind # "ice_candidate" =>
                   /\ SetDone(p, c)
                   /\ peers[p][c].sig # "have_remote_offer"
                   /\ Reply(p, c) = kind
  <2>1. /\ SignallingThread(x)
        /\ UNCHANGED <<serverVars, seen, exec, webSocket, stream>>
    BY <1>1, <1>6, ObserverSocket DEF ObserverStep, callVars
  <2>2. CallRun(x, c)
    BY <1>1, <2>1, ObserverEffect
  <2>3. up' # up
    BY <1>3
  <2>4. Reply(x, c) # "nothing" => Reply(x, c) \in RelayKinds
    BY DEF Reply, RelayKinds
  <2>5. CASE SetDone(x, c)
    <3>1. /\ peers[x][c].sig # "have_remote_offer" /\ Reply(x, c) # "nothing"
          /\ Transmit(x, Message(Reply(x, c), c))
      BY <2>3, <2>5 DEF SetDone
    <3>2. x = p /\ Reply(x, c) = kind
      BY <1>4, <1>5, <2>4, <3>1
    <3>3. Reply(x, c) # "ice_candidate"
      BY DEF Reply
    <3> QED BY <2>1, <2>5, <3>1, <3>2, <3>3 DEF Watches
  <2>6. CASE CandidateDone(x, c)
    <3>1. "ice_candidate" \in RelayKinds /\ Transmit(x, Message("ice_candidate", c))
      BY <2>6 DEF CandidateDone, RelayKinds
    <3>2. x = p /\ kind = "ice_candidate"
      BY <1>4, <1>5, <3>1
    <3> QED BY <2>1, <2>6, <3>2 DEF Watches
  <2>7. ASSUME NEW y \in Clients \ {c}, NEW k \in RelayKinds,
               Transmit(x, Message(k, y))
        PROVE  FALSE
    BY <1>4, <1>5, <2>7
  <2> QED BY <2>2, <2>3, <2>5, <2>6, <2>7 DEF CallRun, Created
<1>7. ASSUME NEW x \in Clients, JoinRoom(x) PROVE FALSE
  <2>1. up' = [up EXCEPT ![x] = Append(up[x], [op |-> "join"])]
    BY <1>7 DEF JoinRoom
  <2>2. [op |-> "join"] \in Messages
    BY DEF Messages
  <2>3. [op |-> "join"] = M
    BY <1>1, <1>3, <2>1, <2>2
  <2> QED BY <1>2, <2>3
<1>8. ASSUME NEW x \in Clients, Arrive(x) PROVE FALSE
  <2>1. up[x] # << >> /\ up' = [up EXCEPT ![x] = Tail(up[x])]
    BY <1>8 DEF Arrive
  <2> QED BY <1>1, <1>3, <2>1
<1>9. ASSUME NEW x \in Clients, Lose(x) PROVE FALSE
  <2>1. up' = [up EXCEPT ![x] = << >>]
    BY <1>9 DEF Lose
  <2> QED BY <1>1, <1>3, <2>1
<1>10. ASSUME NEW x \in Clients, ExecutorStep(x) PROVE FALSE
  <2>1. up' = up
    BY <1>10 DEF ExecutorStep, Executor, ExecPeers, ExecNewPeer, ExecRemovePeer,
                 ExecOffer, ExecAnswer, ExecCandidate, ExecExit
  <2> QED BY <1>3, <2>1
<1> QED BY <1>3, <1>6, <1>7, <1>8, <1>9, <1>10
        DEF Next, RunnerStep, Connect, ExitRoom, Deliver, WsOnClose,
            ServerNotices, vars, clientVars

\* The offer from p to c is one, goes to someone who was listed, and arrives
\* behind the news of p.
Offered(p, c) ==
    /\ SentOnce("offer", p, c)
    /\ Sent("offer", p, c) => ListedTo(p, c) /\ stream[p]
    /\ Precedes(inbox[c], NewPeerFrame(p), RelayFrame("offer", p))

\* Before its offer has been sent the caller has the description to make, or to
\* set, and nothing else to do for c.
Caller(p, c) ==
    /\ In(pending[p][c], "offer_created") =>
          /\ pending[p][c] = <<"offer_created">>
          /\ peers[p][c].sig = "stable"
          /\ ~Sent("offer", p, c) /\ ListedTo(p, c)
    /\ peers[p][c].sig = "have_local_offer" =>
          /\ ListedTo(p, c)
          /\ \A i \in DOMAIN pending[p][c] :
                pending[p][c][i] = "set" => i = 1 /\ ~Sent("offer", p, c)

\* What is left of the caller's calls when one has been made.
LEMMA CallerTail ==
    ASSUME NEW q \in Seq(ObserverCalls), q # << >>,
           In(q, "offer_created") => q = <<"offer_created">>
    PROVE  /\ ~In(Tail(q), "offer_created")
           /\ (\A i \in DOMAIN q : q[i] = "set" => i = 1) => ~In(Tail(q), "set")
<1> DEFINE r == Tail(q)
           n == Len(q)
<1>1. /\ Head(q) = q[1] /\ r \in Seq(ObserverCalls)
      /\ n \in Nat /\ n >= 1
      /\ Len(r) = n - 1
      /\ \A i \in 1..(n - 1) : r[i] = q[i + 1]
  BY TakenQueue
<1>2. DOMAIN q = 1..n /\ DOMAIN r = 1..(n - 1)
  BY <1>1, LenProperties
<1>3. q = <<"offer_created">> => n = 1
  OBVIOUS
<1> HIDE DEF r, n
<1>4. \A i \in DOMAIN r : i + 1 \in DOMAIN q /\ r[i] = q[i + 1] /\ i + 1 # 1
  BY <1>1, <1>2
<1>5. n = 1 => DOMAIN r = {}
  BY <1>2
<1>6. ~In(r, "offer_created")
  BY <1>3, <1>4, <1>5 DEF In
<1>7. (\A i \in DOMAIN q : q[i] = "set" => i = 1) => ~In(r, "set")
  BY <1>4 DEF In
<1> QED BY <1>6, <1>7 DEF r

\* setLocalDescription adds no call that makes an offer, and after nothing the
\* first of its calls is the only onSetSuccess.
LEMMA CallerGathers ==
    ASSUME NEW q \in Seq(ObserverCalls), ~In(q, "offer_created")
    PROVE  /\ ~In(q \o <<"set">> \o Gathered, "offer_created")
           /\ q = << >> => \A i \in DOMAIN (q \o <<"set">> \o Gathered) :
                              (q \o <<"set">> \o Gathered)[i] = "set" => i = 1
<1> USE ClientAssumption
<1>1. <<"set">> \in Seq(ObserverCalls) /\ Gathered \in Seq(ObserverCalls)
  BY DEF ObserverCalls, Gathered
<1>2. PICK r \in Seq(ObserverCalls) : r = q \o <<"set">>
  BY <1>1, ConcatProperties
<1>3. ~In(r, "offer_created")
  <2>1. "set" \in ObserverCalls
    BY DEF ObserverCalls
  <2>2. r = Append(q, "set")
    BY <1>2, <2>1, AppendIsConcat
  <2> QED BY <2>1, <2>2, InAppend
<1>4. PICK s \in Seq(ObserverCalls) : s = r \o Gathered
  BY <1>1, ConcatProperties
<1>5. /\ Len(r) \in Nat /\ DOMAIN r = 1..Len(r)
      /\ Len(s) = Len(r) + Candidates
      /\ \A i \in 1..Len(s) :
            s[i] = IF i <= Len(r) THEN r[i] ELSE Gathered[i - Len(r)]
  BY <1>1, <1>4, ConcatProperties, LenProperties DEF Gathered
<1>6. DOMAIN s = 1..(Len(r) + Candidates)
  BY <1>5, LenProperties
<1>7. \A i \in DOMAIN s : (i \in DOMAIN r /\ s[i] = r[i]) \/ s[i] = "candidate"
  <2> SUFFICES ASSUME NEW i \in DOMAIN s
               PROVE  (i \in DOMAIN r /\ s[i] = r[i]) \/ s[i] = "candidate"
    OBVIOUS
  <2>1. CASE i <= Len(r)
    BY <1>5, <1>6, <2>1
  <2>2. CASE ~(i <= Len(r))
    <3>1. i - Len(r) \in 1..Candidates /\ s[i] = Gathered[i - Len(r)]
      BY <1>5, <1>6, <2>2
    <3> QED BY <3>1 DEF Gathered
  <2> QED BY <2>1, <2>2
<1>8. ~In(s, "offer_created")
  BY <1>3, <1>7 DEF In
<1> QED BY <1>2, <1>4, <1>8, Gathering

\* What is known of every pair.
OfferInv ==
    /\ TasksInv
    /\ \A p, c \in Clients : Offered(p, c) /\ Caller(p, c) /\ Receiver(c, p)

\* The invariant about a pair.
LEMMA OfferFacts ==
    ASSUME OfferInv, NEW p \in Clients, NEW c \in Clients
    PROVE  /\ CallTypeOK /\ ClientTypeOK /\ MembershipInv /\ HistoryInv
           /\ Offered(p, c) /\ Caller(p, c) /\ Receiver(c, p)
           /\ Offered(c, p) /\ TasksOK(p) /\ TasksOK(c)
           /\ ListedTo(p, c) => ~ListedTo(c, p) /\ Received(c, NewPeerFrame(p))
           /\ peers[p][c] \in PeerStates
           /\ pending[p][c] \in Seq(ObserverCalls)
           /\ exec[p] \in Seq(ExecTasks) /\ inbox[p] \in Seq(Frames)
           /\ seen[p] \in Nat /\ stream[p] \in BOOLEAN
<1>1. CallTypeOK /\ HistoryInv
  BY DEF OfferInv, TasksInv, EndInv
<1>2. ClientTypeOK /\ MembershipInv /\ ListsAnnounced
  BY <1>1 DEF CallTypeOK, HistoryInv, NewsInv
<1>3. ListedTo(p, c) => ~ListedTo(c, p) /\ Received(c, NewPeerFrame(p))
  BY <1>2, CallAssumption DEF ListsAnnounced
<1>4. /\ peers[p][c] \in PeerStates /\ pending[p][c] \in Seq(ObserverCalls)
      /\ exec[p] \in Seq(ExecTasks) /\ inbox[p] \in Seq(Frames)
      /\ seen[p] \in Nat /\ stream[p] \in BOOLEAN
  BY <1>1, CallAssumption DEF CallTypeOK, ClientTypeOK, ServerTypeOK, PeerStates
<1> QED BY <1>1, <1>2, <1>3, <1>4 DEF OfferInv, TasksInv

\* An offer that is run was sent by someone to whom its receiver was listed.
LEMMA OfferRun ==
    ASSUME OfferInv, NEW p \in Clients, NEW c \in Clients,
           In(exec[p], TaskOf("offer", c))
    PROVE  ListedTo(c, p) /\ ~ListedTo(p, c)
<1>1. /\ exec[p] \in Seq(ExecTasks) /\ inbox[p] \in Seq(Frames) /\ seen[p] \in Nat
      /\ TasksOK(p) /\ Offered(c, p)
  BY OfferFacts
<1>2. "offer" \in PeerOps /\ "offer" \in RelayKinds
  BY DEF PeerOps, RelayKinds
<1>3. QueueOK(exec[p], inbox[p], seen[p], stream[p]) /\ seen[p] <= Len(inbox[p])
  BY <1>1 DEF TasksOK, QueueOK
<1>4. HeardIn(inbox[p], seen[p], News("offer", c))
  BY <1>1, <1>2, <1>3, TaskHeard
<1>5. In(inbox[p], RelayFrame("offer", c))
  BY <1>1, <1>2, <1>3, <1>4, HeardIsReceived, Names
<1>6. ListedTo(c, p)
  BY <1>1, <1>5 DEF Offered, Sent
<1> QED BY <1>6, OfferFacts

\* The stream is there to stay.
LEMMA StreamStays ==
    ASSUME OfferInv, [Next]_vars, NEW p \in Clients, stream[p]
    PROVE  stream'[p]
<1>1. /\ CallTypeOK /\ ClientTypeOK /\ TasksOK(p) /\ exec[p] \in Seq(ExecTasks)
      /\ inbox[p] \in Seq(Frames) /\ stream[p] \in BOOLEAN
  BY OfferFacts
<1>2. CASE Works(p)
  <2>1. Executor(p) /\ exec[p] # << >>
    BY <1>1, <1>2, ExecutorSocket DEF Works
  <2> QED BY <1>1, <2>1, ExecutorEffect
<1> QED BY <1>1, <1>2, ClientMoves DEF Idles, Ends, Receives, Watches, AtRest

\* Every step keeps what is said of the caller.
LEMMA CallerStep ==
    ASSUME OfferInv, [Next]_vars, NEW p \in Clients, NEW c \in Clients
    PROVE  /\ Caller(p, c)'
           /\ Sends(p, c, Message("offer", c)) =>
                 /\ ~Sent("offer", p, c)
                 /\ ListedTo(p, c) /\ stream[p]
<1> USE CallAssumption
<1> DEFINE q == pending[p][c]
           pc == peers[p][c]
           S == Sent("offer", p, c)
<1>1. /\ CallTypeOK /\ ClientTypeOK /\ MembershipInv /\ TasksOK(p)
      /\ pc \in PeerStates /\ q \in Seq(ObserverCalls)
      /\ exec[p] \in Seq(ExecTasks) /\ inbox[p] \in Seq(Frames)
      /\ stream[p] \in BOOLEAN
  BY OfferFacts
<1>2. /\ CallTypeOK' /\ [ServerNext]_serverVars
  BY <1>1, CallTypeStep, CallServerStep
<1>3. ListedTo(p, c) => ListedTo(p, c)'
  <2>1. inbox'[p] \in Seq(Frames)
    BY <1>2 DEF CallTypeOK, ServerTypeOK
  <2> QED BY <1>1, <1>2, <2>1, InboxGrows, ListedKept
<1>4. S' => S \/ Sends(p, c, Message("offer", c))
  BY <1>1, SentStep DEF RelayKinds
<1>5. /\ In(q, "offer_created") =>
            q = <<"offer_created">> /\ pc.sig = "stable" /\ ~S /\ ListedTo(p, c)
      /\ pc.sig = "have_local_offer" =>
            /\ ListedTo(p, c)
            /\ \A i \in DOMAIN q : q[i] = "set" => i = 1 /\ ~S
  BY OfferFacts DEF Caller
<1>6. ~stream[p] => pc = NoPeer /\ q = << >>
  BY <1>1 DEF TasksOK
<1>7. S => stream[p]
  BY OfferFacts DEF Offered
<1>8. q # << >> =>
         /\ ~In(Tail(q), "offer_created") /\ Tail(q) \in Seq(ObserverCalls)
         /\ pc.sig = "have_local_offer" => ~In(Tail(q), "set")
         /\ Head(q) = q[1] /\ 1 \in DOMAIN q
  <2> SUFFICES ASSUME q # << >>
               PROVE  /\ ~In(Tail(q), "offer_created")
                      /\ Tail(q) \in Seq(ObserverCalls)
                      /\ pc.sig = "have_local_offer" => ~In(Tail(q), "set")
                      /\ Head(q) = q[1] /\ 1 \in DOMAIN q
    OBVIOUS
  <2>1. /\ Head(q) = q[1] /\ Tail(q) \in Seq(ObserverCalls)
        /\ Len(q) \in Nat /\ Len(q) >= 1 /\ DOMAIN q = 1..Len(q)
    BY <1>1, TakenQueue, LenProperties
  <2>2. 1 \in DOMAIN q
    BY <2>1
  <2> QED BY <1>1, <1>5, <2>1, <2>2, CallerTail
<1>9. ASSUME pending'[p][c] = q, peers'[p][c].sig = pc.sig, S' => S
      PROVE  Caller(p, c)'
  BY <1>3, <1>5, <1>9 DEF Caller
<1>10. ASSUME pending'[p][c] = << >>, peers'[p][c] = NoPeer
       PROVE  Caller(p, c)'
  BY <1>10 DEF Caller, In, NoPeer
<1>11. ASSUME ~In(pending'[p][c], "offer_created"),
              peers'[p][c].sig # "have_local_offer"
       PROVE  Caller(p, c)'
  BY <1>11 DEF Caller
<1>12. ASSUME q # << >>, pending'[p][c] = Tail(q), peers'[p][c].sig = pc.sig
       PROVE  Caller(p, c)'
  BY <1>3, <1>5, <1>8, <1>12 DEF Caller, In
<1>13. ASSUME Sends(p, c, Message("offer", c))
       PROVE  Caller(p, c)' /\ ~S /\ ListedTo(p, c) /\ stream[p]
  <2>1. SetDone(p, c) /\ pc.sig # "have_remote_offer" /\ Reply(p, c) = "offer"
    BY <1>1, <1>13, SendsKind DEF RelayKinds
  <2>2. pc.sig = "have_local_offer"
    BY <2>1 DEF Reply
  <2>3. q # << >> /\ Head(q) = "set" /\ peers'[p][c] = pc /\ pending'[p][c] = Tail(q)
    BY <2>1 DEF SetDone
  <2>4. ~S /\ ListedTo(p, c)
    BY <1>5, <1>8, <2>2, <2>3
  <2>5. stream[p]
    BY <1>1, <1>6, <2>2 DEF NoPeer
  <2> QED BY <1>12, <2>3, <2>4, <2>5
<1> HIDE DEF q, pc, S
<1>14. ASSUME ~Sends(p, c, Message("offer", c))
       PROVE  Caller(p, c)'
  <2>1. S' => S
    BY <1>4, <1>14
  <2>2. CASE Idles(p) \/ Ends(p) \/ Receives(p)
    <3>1. peers'[p] = peers[p] /\ pending'[p] = pending[p]
      BY <2>2 DEF Idles, Ends, Receives, AtRest
    <3> QED BY <1>9, <2>1, <3>1 DEF q, pc
  <2>3. CASE Watches(p)
    <3>1. CallRun(p, c)
      BY <1>1, <2>3, ObserverEffect DEF Watches
    <3>2. CASE Created(p, c, "offer_created", "stable", "have_local_offer")
      <4>1. q # << >> /\ Head(q) = "offer_created"
        BY <3>2 DEF Created, q
      <4>2. In(q, "offer_created")
        BY <1>8, <4>1 DEF In
      <4>3. /\ q = <<"offer_created">> /\ pc.sig = "stable" /\ ~S /\ ListedTo(p, c)
        BY <1>5, <4>2
      <4>4. Tail(q) = << >>
        BY <4>3
      <4>5. /\ peers'[p][c].sig = "have_local_offer"
            /\ pending'[p][c] = Tail(q) \o <<"set">> \o Gathered
        BY <3>2, <4>3 DEF Created, q, pc
      <4>6. /\ ~In(pending'[p][c], "offer_created")
            /\ \A i \in DOMAIN pending'[p][c] : pending'[p][c][i] = "set" => i = 1
        BY <1>8, <4>1, <4>4, <4>5, CallerGathers
      <4> QED BY <1>3, <2>1, <4>3, <4>5, <4>6 DEF Caller, S
    <3>3. CASE Created(p, c, "answer_created", "have_remote_offer", "stable")
      <4>1. q # << >>
        BY <3>3 DEF Created, q
      <4>2. CASE pc.sig = "have_remote_offer"
        <5>1. /\ peers'[p][c].sig = "stable"
              /\ pending'[p][c] = Tail(q) \o <<"set">> \o Gathered
          BY <3>3, <4>2 DEF Created, q, pc
        <5>2. ~In(pending'[p][c], "offer_created")
          BY <1>8, <4>1, <5>1, CallerGathers
        <5> QED BY <1>11, <5>1, <5>2
      <4>3. CASE pc.sig # "have_remote_offer"
        BY <1>12, <3>3, <4>1, <4>3 DEF Created, q, pc
      <4> QED BY <4>2, <4>3
    <3>4. CASE SetDone(p, c)
      <4>1. q # << >> /\ peers'[p][c] = pc
        BY <3>4 DEF SetDone, q, pc
      <4>2. CASE pc.sig = "have_remote_offer"
        <5>1. pending'[p][c] = Append(Tail(q), "answer_created")
          BY <3>4, <4>2 DEF SetDone, q, pc
        <5>2. "answer_created" \in ObserverCalls
          BY DEF ObserverCalls
        <5>3. ~In(Append(Tail(q), "answer_created"), "offer_created")
          BY <1>8, <4>1, <5>2, InAppend
        <5> QED BY <1>11, <4>1, <4>2, <5>1, <5>3
      <4>3. CASE pc.sig # "have_remote_offer"
        BY <1>12, <3>4, <4>1, <4>3 DEF SetDone, q, pc
      <4> QED BY <4>2, <4>3
    <3>5. CASE CandidateDone(p, c)
      BY <1>12, <3>5 DEF CandidateDone, q, pc
    <3>6. CASE Same(p, c)
      BY <1>9, <2>1, <3>6 DEF Same, q, pc
    <3> QED BY <3>1, <3>2, <3>3, <3>4, <3>5, <3>6 DEF CallRun
  <2>4. CASE Works(p)
    <3>1. Executor(p) /\ exec[p] # << >>
      BY <1>1, <2>4, ExecutorSocket DEF Works
    <3> DEFINE h == Head(exec[p])
    <3>2. QueueOK(exec[p], inbox[p], seen[p], stream[p])
      BY <1>1 DEF TasksOK
    <3>3. /\ h.op = "new_peer" => stream[p]
          /\ h.op = "peers" => ~stream[p]
      BY <1>1, <3>1, <3>2, QueueTaken
    <3>4. h.op = "peers" /\ c \in h.connections => ListedTo(p, c)
      BY <1>1, <3>1, <3>2, ListedTask
    <3>5. TaskRun(p, c)
      BY <1>1, <3>1, <3>3, ExecutorEffect
    <3>6. ASSUME h = TaskOf("offer", c)
          PROVE  ~ListedTo(p, c)
      <4>1. In(exec[p], TaskOf("offer", c))
        BY <1>1, <3>1, <3>6, InTail
      <4> QED BY <4>1, OfferRun
    <3> HIDE DEF h
    <3>7. CASE h.op = "peers" /\ PeersRun(p, c)
      <4>1. pc = NoPeer /\ q = << >> /\ ~S /\ ~Has(p, c)
        BY <1>6, <1>7, <3>3, <3>7 DEF Has, NoPeer, pc
      <4>2. CASE c \in h.connections
        <5>1. /\ peers'[p][c] = NewPeer
              /\ pending'[p][c] = Append(<< >>, "offer_created")
          BY <3>7, <4>1, <4>2 DEF PeersRun, h, q
        <5>2. Append(<< >>, "offer_created") = <<"offer_created">>
          OBVIOUS
        <5>3. peers'[p][c].sig = "stable"
          BY <5>1 DEF NewPeer
        <5> QED BY <1>3, <2>1, <3>4, <3>7, <4>1, <4>2, <5>1, <5>2, <5>3
                DEF Caller, S
      <4>3. CASE c \notin h.connections
        BY <1>10, <3>7, <4>1, <4>3 DEF PeersRun, h, q
      <4> QED BY <4>2, <4>3
    <3>8. CASE Dropped(p, c)
      BY <1>10, <3>8 DEF Dropped
    <3>9. CASE Same(p, c)
      BY <1>9, <2>1, <3>9 DEF Same, q, pc
    <3>10. CASE peers'[p][c] = NewPeer /\ pending'[p][c] = pending[p][c]
      <4>1. peers'[p][c].sig = "stable" /\ pending'[p][c] = q
        BY <3>10 DEF NewPeer, q
      <4> QED BY <1>3, <1>5, <2>1, <4>1 DEF Caller, S
    <3>11. CASE h = TaskOf("offer", c) /\ RemoteRun(p, c, "stable", "have_remote_offer")
      <4>1. CASE pc.sig = "stable"
        <5>1. /\ peers'[p][c].sig = "have_remote_offer"
              /\ pending'[p][c] = Append(q, "set")
          BY <3>11, <4>1 DEF RemoteRun, q, pc
        <5>2. ~In(q, "offer_created")
          BY <1>5, <3>6, <3>11
        <5>3. ~In(pending'[p][c], "offer_created")
          BY <1>1, <5>1, <5>2, InAppend DEF ObserverCalls
        <5> QED BY <1>11, <5>1, <5>3
      <4>2. CASE pc.sig # "stable"
        BY <1>9, <2>1, <3>11, <4>2 DEF RemoteRun, Same, q, pc
      <4> QED BY <4>1, <4>2
    <3>12. CASE RemoteRun(p, c, "have_local_offer", "stable")
      <4>1. CASE pc.sig = "have_local_offer"
        <5>1. /\ peers'[p][c].sig = "stable"
              /\ pending'[p][c] = Append(q, "set")
          BY <3>12, <4>1 DEF RemoteRun, q, pc
        <5>2. ~In(q, "offer_created")
          BY <1>5, <4>1
        <5>3. ~In(pending'[p][c], "offer_created")
          BY <1>1, <5>1, <5>2, InAppend DEF ObserverCalls
        <5> QED BY <1>11, <5>1, <5>3
      <4>2. CASE pc.sig # "have_local_offer"
        BY <1>9, <2>1, <3>12, <4>2 DEF RemoteRun, Same, q, pc
      <4> QED BY <4>1, <4>2
    <3>13. CASE CandidateRun(p, c)
      BY <1>9, <2>1, <3>13 DEF CandidateRun, q, pc
    <3> QED BY <3>5, <3>7, <3>8, <3>9, <3>10, <3>11, <3>12, <3>13
            DEF TaskRun, h
  <2> QED BY <1>1, <2>2, <2>3, <2>4, ClientMoves
<1> QED BY <1>13, <1>14 DEF S

\* Every step keeps the offers one.
LEMMA OfferedStep ==
    ASSUME OfferInv, [Next]_vars, NEW p \in Clients, NEW c \in Clients
    PROVE  Offered(p, c)'
<1> USE CallAssumption
<1> DEFINE F == RelayFrame("offer", p)
           T == RelayTask(p, "offer", c)
           N == NewPeerFrame(p)
<1>1. /\ CallTypeOK /\ MembershipInv /\ Offered(p, c)
      /\ ListedTo(p, c) => Received(c, N)
      /\ inbox[p] \in Seq(Frames)
  BY OfferFacts
<1>2. inbox[c] \in Seq(Frames)
  BY OfferFacts
<1>3. CallTypeOK' /\ [ServerNext]_serverVars
  BY <1>1, CallTypeStep, CallServerStep
<1>4. /\ Sent("offer", p, c)' =>
            Sent("offer", p, c) \/ Sends(p, c, Message("offer", c))
      /\ /\ SentOnce("offer", p, c)
         /\ Sends(p, c, Message("offer", c)) => ~Sent("offer", p, c)
         => SentOnce("offer", p, c)'
  BY <1>1, SentStep DEF RelayKinds
<1>5. Sends(p, c, Message("offer", c)) =>
         ~Sent("offer", p, c) /\ ListedTo(p, c) /\ stream[p]
  BY CallerStep
<1>6. SentOnce("offer", p, c)'
  BY <1>1, <1>4, <1>5 DEF Offered
<1>7. ListedTo(p, c) => ListedTo(p, c)'
  <2>1. inbox'[p] \in Seq(Frames)
    BY <1>3 DEF CallTypeOK, ServerTypeOK
  <2> QED BY <1>1, <1>3, <2>1, InboxGrows, ListedKept
<1>8. Sent("offer", p, c)' => ListedTo(p, c)' /\ stream'[p]
  BY <1>1, <1>4, <1>5, <1>7, StreamStays DEF Offered
<1>9. Precedes(inbox[c], N, F)
  BY <1>1 DEF Offered
<1>10. Precedes(inbox'[c], N, F)
  <2>1. CASE NotTold(c)
    BY <1>9, <2>1 DEF NotTold
  <2>2. ASSUME NEW f \in Frames, Told(c, f),
               f = F => Take /\ Head(runner) = T
        PROVE  Precedes(inbox'[c], N, F)
    <3>1. f = F => In(inbox[c], N)
      <4> SUFFICES ASSUME f = F PROVE In(inbox[c], N)
        OBVIOUS
      <4>1. runner # << >> /\ Head(runner) = T /\ runner \in Seq(Tasks)
        BY <1>1, <2>2 DEF Take, CallTypeOK, ServerTypeOK
      <4>2. In(runner, T)
        BY <4>1, InTail
      <4>3. ListedTo(p, c)
        BY <1>1, <4>2 DEF Offered, Sent
      <4> QED BY <1>1, <4>3 DEF Received, In
    <3>2. Precedes(Append(inbox[c], f), N, F)
      BY <1>2, <1>9, <3>1, PrecedesAppend
    <3> QED BY <2>2, <3>2 DEF Told
  <2>3. \/ NotTold(c)
        \/ \E f \in Frames : Told(c, f) /\ (f = F => Take /\ Head(runner) = T)
    <3>1. c \in Sessions /\ p \in Sessions /\ "offer" \in RelayKinds
      BY DEF RelayKinds
    <3> QED BY <1>1, <1>3, <3>1, RelayedFrame
  <2> QED BY <2>1, <2>2, <2>3
<1> QED BY <1>6, <1>8, <1>10 DEF Offered

\* The invariant about offers is inductive.
LEMMA OfferStep ==
    ASSUME MaxJoins <= 1, OfferInv, [Next]_vars
    PROVE  OfferInv'
<1>1. TasksInv'
  BY TasksStep DEF OfferInv
<1>2. ASSUME NEW p \in Clients, NEW c \in Clients
      PROVE  Offered(p, c)' /\ Caller(p, c)' /\ Receiver(c, p)'
  <2>1. Offered(p, c)' /\ Caller(p, c)'
    BY CallerStep, OfferedStep
  <2>2. /\ TasksInv /\ Receiver(c, p) /\ Once(inbox[c], RelayFrame("offer", p))
        /\ Precedes(inbox[c], NewPeerFrame(p), RelayFrame("offer", p))
    BY DEF OfferInv, Offered, SentOnce
  <2> QED BY <2>1, <2>2, ReceiverStep
<1> QED BY <1>1, <1>2 DEF OfferInv

\* It holds at the start.
LEMMA OfferStart == Init => OfferInv
<1> SUFFICES ASSUME Init PROVE OfferInv
  OBVIOUS
<1> USE CallAssumption
<1>1. TasksInv
  BY TasksStart
<1>2. ASSUME NEW p \in Clients, NEW c \in Clients
      PROVE  Offered(p, c) /\ Caller(p, c) /\ Receiver(c, p)
  <2>1. /\ up[p] = << >> /\ runner = << >> /\ inbox[c] = << >> /\ seen[c] = 0
        /\ exec[c] = << >> /\ pending[p][c] = << >> /\ pending[c][p] = << >>
        /\ peers[p][c] = NoPeer /\ peers[c][p] = NoPeer
    BY DEF Init, ServerInit, ClientInit
  <2>2. ~Sent("offer", p, c) /\ SentOnce("offer", p, c)
    BY <2>1 DEF Sent, SentOnce, In, Once
  <2>3. Offered(p, c)
    BY <2>1, <2>2 DEF Offered, Precedes
  <2>4. Caller(p, c)
    BY <2>1 DEF Caller, In, NoPeer
  <2>5. \A f : ~Heard(c, f)
    BY <2>1 DEF Heard, HeardIn
  <2>6. Receiver(c, p)
    BY <2>1, <2>5 DEF Receiver, Fresh, Kept, OfferAwaited, Once, Precedes
  <2> QED BY <2>3, <2>4, <2>6
<1> QED BY <1>1, <1>2 DEF OfferInv

\* An offer that is run finds its connection as _new_peer made it.
LEMMA OfferMeetsFresh ==
    ASSUME OfferInv
    PROVE  OfferFindsFreshPeer
<1> SUFFICES ASSUME NEW c \in Clients, NEW p \in Clients, NextTask(c, p, "offer")
             PROVE  /\ webSocket[c] => Has(c, p)
                    /\ Has(c, p) => peers[c][p] = NewPeer
  BY DEF OfferFindsFreshPeer, Meets
<1>1. /\ exec[c] \in Seq(ExecTasks) /\ Receiver(c, p) /\ exec[c] # << >>
  BY OfferFacts DEF NextTask
<1>2. Head(exec[c]) = TaskOf("offer", p)
  <2>1. PICK t \in ExecTasks : t = Head(exec[c])
    BY <1>1, TakenQueue
  <2>2. t.op = "offer" /\ t.id = p
    BY <2>1 DEF NextTask
  <2> QED BY <2>1, <2>2 DEF ExecTasks, TaskOf
<1>3. In(exec[c], TaskOf("offer", p))
  BY <1>1, <1>2, InTail
<1>4. webSocket[c] => Has(c, p)
  <2> SUFFICES ASSUME webSocket[c], ~Has(c, p) PROVE FALSE
    OBVIOUS
  <2>1. Precedes(exec[c], TaskOf("new_peer", p), TaskOf("offer", p))
    BY <1>1 DEF Receiver, OfferAwaited
  <2> QED BY <1>1, <1>2, <2>1, PrecedesTail
<1>5. peers[c][p] \in {NoPeer, NewPeer}
  BY <1>1, <1>3, OfferRun DEF Receiver, Fresh, Undone
<1> QED BY <1>4, <1>5 DEF Has, NoPeer

\* However many clients there are and however their frames interleave, an offer
\* always finds the connection that _new_peer prepared for it, still untouched
\* (onReceiveOffer): nobody calls whom it will be called by, the offer is one,
\* and the server, the socket and the executor keep it behind the newcomer.
THEOREM OffersFindFreshPeers ==
    ASSUME MaxJoins <= 1
    PROVE  Spec => []OfferFindsFreshPeer
<1>1. OfferInv /\ [Next]_vars => OfferInv'
  BY OfferStep
<1>2. OfferInv => OfferFindsFreshPeer
  BY OfferMeetsFresh
<1> QED BY <1>1, <1>2, OfferStart, PTL DEF Spec

=============================================================================
