-------------------------- MODULE SignallingServer --------------------------
(***************************************************************************)
(* The signalling server: webrtc_server, SignallingServer.java.            *)
(*                                                                         *)
(* The servlet container calls onOpen, onMessage and onClose on its own    *)
(* threads.  Each of them only submits a task to `runner', a single-thread *)
(* executor, so every access to the four static maps happens inside a task *)
(* and tasks run one at a time, in submission order.  An exception that    *)
(* leaves a task is kept in the Future nobody looks at: the rest of the    *)
(* task is skipped and the runner takes the next one.                      *)
(***************************************************************************)
EXTENDS Naturals, FiniteSets, SequencesExt

CONSTANTS
    Sessions,      \* websocket sessions; Session.getId() is the session itself
    Users,         \* values of the path parameter userId
    Rooms,         \* room numbers, "__default" included
    DefaultRoom,   \* the room "__default"
    NoRoom,        \* null, for a room
    NoSession,     \* null, for a session
    MaxJoins,      \* bound: __join messages per session
    MaxRelays      \* bound: __offer, __answer and __ice_candidate per session

ASSUME ServerAssumption ==
    /\ DefaultRoom \in Rooms
    /\ NoRoom \notin Rooms
    /\ NoSession \notin Sessions
    /\ MaxJoins \in Nat
    /\ MaxRelays \in Nat

VARIABLES
    conn,          \* what the container knows of each session
    runner,        \* the queue of the single-thread executor
    sockets,       \* the sessions in the list `sockets'
    rooms,         \* room -> its sessions, in the order they joined
    roomList,      \* session id -> the room it joined last
    userIds,       \* user id -> the session that opened last with it
    inbox,         \* frames sent to each session, in order
    joins,         \* __join messages the session has sent
    relays,        \* relayed messages the session has sent
    failed         \* <<task, session>>: joins and closes that ended in an exception

serverVars == <<conn, runner, sockets, rooms, roomList, userIds, inbox,
                joins, relays, failed>>

-----------------------------------------------------------------------------
(* Frames and tasks.                                                       *)

RelayKinds == {"ice_candidate", "offer", "answer"}

PeersFrameAnonymous(s, ids) ==            \* mutant: "you" is not put
    [event |-> "_peers", connections |-> ids]

PeersFrame(s, ids) == [event |-> "_peers", you |-> s, connections |-> ids]

NewPeerFrame(s) == [event |-> "_new_peer", socketId |-> s]

RemovePeerFrame(s) == [event |-> "_remove_peer", socketId |-> s]

RelayFrame(kind, s) == [event |-> kind, socketId |-> s]

Frames ==
    [event : {"_peers"}, you : Sessions, connections : SUBSET Sessions]
        \cup [event : {"_new_peer", "_remove_peer"} \cup RelayKinds,
              socketId : Sessions]

OpenTask(s, u) == [op |-> "open", s |-> s, user |-> u]

CloseTask(s) == [op |-> "close", s |-> s]

JoinTask(s, r) == [op |-> "join", s |-> s, room |-> r]

RelayTask(s, kind, to) == [op |-> "relay", s |-> s, kind |-> kind, to |-> to]

Tasks ==
    [op : {"open"}, s : Sessions, user : Users]
        \cup [op : {"close"}, s : Sessions]
        \cup [op : {"join"}, s : Sessions, room : Rooms \cup {NoRoom}]
        \cup [op : {"relay"}, s : Sessions, kind : RelayKinds,
              to : Sessions \cup {NoSession}]

-----------------------------------------------------------------------------
ServerTypeOK ==
    /\ conn \in [Sessions -> {"idle", "open", "closed"}]
    /\ runner \in Seq(Tasks)
    /\ sockets \in SUBSET Sessions
    /\ rooms \in [Rooms -> Seq(Sessions)]
    /\ roomList \in [Sessions -> Rooms \cup {NoRoom}]
    /\ userIds \in [Users -> Sessions \cup {NoSession}]
    /\ inbox \in [Sessions -> Seq(Frames)]
    /\ joins \in [Sessions -> 0..MaxJoins]
    /\ relays \in [Sessions -> 0..MaxRelays]
    /\ failed \in SUBSET ({"join", "close"} \X Sessions)

ServerInit ==
    /\ conn = [s \in Sessions |-> "idle"]
    /\ runner = << >>
    /\ sockets = {}
    /\ rooms = [r \in Rooms |-> << >>]
    /\ roomList = [s \in Sessions |-> NoRoom]
    /\ userIds = [u \in Users |-> NoSession]
    /\ inbox = [s \in Sessions |-> << >>]
    /\ joins = [s \in Sessions |-> 0]
    /\ relays = [s \in Sessions |-> 0]
    /\ failed = {}

-----------------------------------------------------------------------------
(* Container threads.  Each callback hands a task to the runner.           *)

mapVars == <<sockets, rooms, roomList, userIds>>

OnOpen(s, u) ==
    /\ conn[s] = "idle"
    /\ conn' = [conn EXCEPT ![s] = "open"]
    /\ runner' = Append(runner, OpenTask(s, u))
    /\ UNCHANGED <<mapVars, inbox, joins, relays, failed>>

OnCloseFirst(s) ==                        \* mutant: the close overtakes
    /\ conn[s] = "open"
    /\ conn' = [conn EXCEPT ![s] = "closed"]
    /\ runner' = <<CloseTask(s)>> \o runner
    /\ UNCHANGED <<mapVars, inbox, joins, relays, failed>>

OnClose(s) ==
    /\ conn[s] = "open"
    /\ conn' = [conn EXCEPT ![s] = "closed"]
    /\ runner' = Append(runner, CloseTask(s))
    /\ UNCHANGED <<mapVars, inbox, joins, relays, failed>>

\* A __join whose data has no room carries NoRoom.
OnJoinMessage(s, r) ==
    /\ conn[s] = "open"
    /\ joins[s] < MaxJoins
    /\ joins' = [joins EXCEPT ![s] = @ + 1]
    /\ runner' = Append(runner, JoinTask(s, r))
    /\ UNCHANGED <<conn, mapVars, inbox, relays, failed>>

\* NoSession stands for an id that no session has.
OnRelayMessage(s, kind, to) ==
    /\ conn[s] = "open"
    /\ relays[s] < MaxRelays
    /\ relays' = [relays EXCEPT ![s] = @ + 1]
    /\ runner' = Append(runner, RelayTask(s, kind, to))
    /\ UNCHANGED <<conn, mapVars, inbox, joins, failed>>

-----------------------------------------------------------------------------
(* Sending.  getAsyncRemote() on a session the container has closed throws *)
(* IllegalStateException (javax.websocket.Session); on an open one the     *)
(* frame is queued for the client.                                         *)

CanSend(s) == conn[s] = "open"

Send(box, s, frame) ==
    IF CanSend(s) THEN [box EXCEPT ![s] = Append(@, frame)] ELSE box

\* The loops over a room skip `self' and send to the others in list order
\* until a send throws.

SwallowedThrows(members, self) == FALSE   \* mutant: the error is swallowed

BroadcastThrows(members, self) ==
    \E i \in DOMAIN members : members[i] # self /\ ~CanSend(members[i])

ReachedButFirst(members, self) ==         \* mutant: the loop starts at 1
    {i \in DOMAIN members :
        i > 1 /\ \A j \in 1..i : members[j] = self \/ CanSend(members[j])}

Reached(members, self) ==
    {i \in DOMAIN members :
        \A j \in 1..i : members[j] = self \/ CanSend(members[j])}

Copies(members, self, s) ==
    IF s = self THEN 0
    ELSE Cardinality({i \in Reached(members, self) : members[i] = s})

Broadcast(box, members, self, frame) ==
    [s \in Sessions |->
        box[s] \o [k \in 1..Copies(members, self, s) |-> frame]]

-----------------------------------------------------------------------------
(* The tasks, run one at a time by the runner thread.                      *)

Take == runner # << >> /\ runner' = Tail(runner)

\* onOpen's task: addSocket.
AddSocket ==
    /\ Take
    /\ Head(runner).op = "open"
    /\ LET s == Head(runner).s IN
        /\ sockets' = sockets \cup {s}
        /\ userIds' = [userIds EXCEPT ![Head(runner).user] = s]
    /\ UNCHANGED <<conn, rooms, roomList, inbox, joins, relays, failed>>

\* removeSocket of a session that is in no room: rooms.get(null) throws
\* after the session has left `sockets'.
CloseNeverJoined ==
    /\ Take
    /\ Head(runner).op = "close"
    /\ LET s == Head(runner).s IN
        /\ roomList[s] = NoRoom
        /\ sockets' = sockets \ {s}
        /\ failed' = failed \cup {<<"close", s>>}
    /\ UNCHANGED <<conn, rooms, roomList, userIds, inbox, joins, relays>>

\* removeSocket of a session in a room.
RemoveSocketKeepsRoomList(s, room) ==     \* mutant: roomList.remove is missing
    /\ sockets' = sockets \ {s}
    /\ rooms' = [rooms EXCEPT ![room] = RemoveFirst(@, s)]
    /\ UNCHANGED roomList

RemoveSocketKeepsRoom(s, room) ==         \* mutant: the room keeps the session
    /\ sockets' = sockets \ {s}
    /\ roomList' = [roomList EXCEPT ![s] = NoRoom]
    /\ UNCHANGED rooms

RemoveSocket(s, room) ==
    /\ sockets' = sockets \ {s}
    /\ rooms' = [rooms EXCEPT ![room] = RemoveFirst(@, s)]
    /\ roomList' = [roomList EXCEPT ![s] = NoRoom]

\* onClose's task for a session in a room: tell the others, then removeSocket.
\* If the broadcast throws, removeSocket is never reached.
CloseJoined ==
    /\ Take
    /\ Head(runner).op = "close"
    /\ LET s == Head(runner).s
           room == roomList[s]
       IN
        /\ room # NoRoom
        /\ inbox' = Broadcast(inbox, rooms[room], s, RemovePeerFrame(s))
        /\ IF BroadcastThrows(rooms[room], s)
           THEN /\ failed' = failed \cup {<<"close", s>>}
                /\ UNCHANGED <<sockets, rooms, roomList>>
           ELSE RemoveSocket(s, room) /\ UNCHANGED failed
    /\ UNCHANGED <<conn, userIds, joins, relays>>

RoomNumber(r) == IF r = NoRoom THEN DefaultRoom ELSE r

EnterUnrecorded(s, room) ==               \* mutant: roomList.put is missing
    /\ rooms' = [rooms EXCEPT ![room] = Append(@, s)]
    /\ UNCHANGED roomList

Enter(s, room) ==
    /\ rooms' = [rooms EXCEPT ![room] = Append(@, s)]
    /\ roomList' = [roomList EXCEPT ![s] = room]

\* join: announce the newcomer, add it, answer it with those already there.
Join ==
    /\ Take
    /\ Head(runner).op = "join"
    /\ LET s == Head(runner).s
           room == RoomNumber(Head(runner).room)
           curRoom == rooms[room]
           ids == ToSet(curRoom) \ {s}
           announced == Broadcast(inbox, curRoom, s, NewPeerFrame(s))
       IN
        IF BroadcastThrows(curRoom, s)
        THEN /\ inbox' = announced
             /\ failed' = failed \cup {<<"join", s>>}
             /\ UNCHANGED <<rooms, roomList>>
        ELSE /\ Enter(s, room)
             /\ inbox' = Send(announced, s, PeersFrame(s, ids))
             /\ failed' = IF CanSend(s) THEN failed
                          ELSE failed \cup {<<"join", s>>}
    /\ UNCHANGED <<conn, sockets, userIds, joins, relays>>

\* iceCandidate, offer and answer differ only in the event name: the frame
\* goes to the session with that id, with socketId replaced by the sender's.
Relay ==
    /\ Take
    /\ Head(runner).op = "relay"
    /\ LET task == Head(runner) IN
        inbox' = IF task.to \in sockets
                 THEN Send(inbox, task.to, RelayFrame(task.kind, task.s))
                 ELSE inbox
    /\ UNCHANGED <<conn, mapVars, joins, relays, failed>>

-----------------------------------------------------------------------------
Container ==
    \E s \in Sessions :
        \/ \E u \in Users : OnOpen(s, u)
        \/ OnClose(s)
        \/ \E r \in Rooms \cup {NoRoom} : OnJoinMessage(s, r)
        \/ \E kind \in RelayKinds, to \in Sessions \cup {NoSession} :
                OnRelayMessage(s, kind, to)

Runner == AddSocket \/ CloseNeverJoined \/ CloseJoined \/ Join \/ Relay

ServerNext == Container \/ Runner

ServerSpec == ServerInit /\ [][ServerNext]_serverVars

\* For model checking. Sessions and users are interchangeable. The sessions of a
\* run are finite: when each has closed and the runner is idle the server waits
\* for connections that the run does not have.
ServerSymmetry == Permutations(Sessions) \cup Permutations(Users)

ServerRests ==
    /\ runner = << >> /\ \A s \in Sessions : conn[s] = "closed"
    /\ UNCHANGED serverVars

ServerRun == ServerInit /\ [][ServerNext \/ ServerRests]_serverVars

\* Relays are explored with two sessions connected, joins and closes with all:
\* a relay touches no map, so a third session adds nothing to it.
ServerExplored ==
    (\E s \in Sessions : relays[s] > 0)
        => Cardinality({s \in Sessions : conn[s] # "idle"}) <= 2

-----------------------------------------------------------------------------
(* Vocabulary of the properties.                                           *)

\* The tasks of session s that have not run yet.
Pending(s) == {i \in DOMAIN runner : runner[i].s = s}

\* Session s has closed and the runner has nothing left to do for it.
Settled(s) == conn[s] = "closed" /\ Pending(s) = {}

Received(s, frame) == \E i \in DOMAIN inbox[s] : inbox[s][i] = frame

\* s was given other in the list of those already in the room.
ListedTo(s, other) ==
    \E i \in DOMAIN inbox[s] :
        /\ inbox[s][i].event = "_peers"
        /\ other \in inbox[s][i].connections

\* s was told of other, by either of the two.
Introduced(s, other) == Received(s, NewPeerFrame(other)) \/ ListedTo(s, other)

\* The i-th frame of s is about other.
About(s, i, other) ==
    IF inbox[s][i].event = "_peers"
    THEN other \in inbox[s][i].connections
    ELSE inbox[s][i].socketId = other

-----------------------------------------------------------------------------
(* Safety.                                                                 *)

\* The room that roomList gives for a session lists that session, so that
\* rooms.get(room) in onClose and removeSocket is never null and remove()
\* always finds what it removes.  It holds however often a session joins.
RoomListBacked ==
    \A s \in Sessions :
        roomList[s] # NoRoom => s \in ToSet(rooms[roomList[s]])

\* A client that joins once appears once, in the room that roomList gives for
\* it, and its id can be routed to (getSocket finds it): the three structures
\* join and removeSocket update one after the other never drift apart.
OneMembership ==
    \A r \in Rooms : \A i \in DOMAIN rooms[r] :
        /\ roomList[rooms[r][i]] = r
        /\ rooms[r][i] \in sockets
        /\ \A j \in DOMAIN rooms[r] : rooms[r][j] = rooms[r][i] => i = j

\* Of two sessions in a room the earlier one was told _new_peer of the later
\* and never the other way round, and the later one, if it could still be
\* answered, has the earlier one in its _peers list: exactly one of the two is
\* the one that will call.
PairIntroduced ==
    \A r \in Rooms : \A i, j \in DOMAIN rooms[r] :
        i < j =>
            LET early == rooms[r][i]
                late == rooms[r][j]
            IN  /\ Received(early, NewPeerFrame(late))
                /\ ~Received(late, NewPeerFrame(early))
                /\ ~ListedTo(early, late)
                /\ conn[late] = "open" => ListedTo(late, early)

\* _remove_peer is the last thing anyone hears of a session: no offer, answer,
\* candidate or introduction of it follows in the same inbox.
RemovePeerIsLast ==
    \A s, other \in Sessions : \A i, j \in DOMAIN inbox[s] :
        /\ i < j
        /\ inbox[s][i] = RemovePeerFrame(other)
        => ~About(s, j, other)

\* A session still connected that was introduced to one that has left has been
\* told so, unless the leaver's own task ended with an exception.
LeaveAnnounced ==
    \A s, other \in Sessions :
        /\ conn[s] = "open"
        /\ Introduced(s, other)
        /\ roomList[s] # NoRoom
        /\ Settled(other)
        /\ failed \cap {<<"join", other>>, <<"close", other>>} = {}
        => Received(s, RemovePeerFrame(other))

\* A closed session stays in a room only if its close task threw.
GhostsHaveFailedClose ==
    \A r \in Rooms : \A s \in ToSet(rooms[r]) :
        Settled(s) => <<"close", s>> \in failed

-----------------------------------------------------------------------------
(* What the comments promise and the code does not keep.                   *)

\* onClose deletes the session from its room (removeSocket: "when the client
\* disconnects, delete everything of the connection").
ClosedLeavesRoom ==
    \A s \in Sessions : Settled(s) => \A r \in Rooms : s \notin ToSet(rooms[r])

\* The same for the map from user ids to sessions.
ClosedLeavesUserIds ==
    \A s \in Sessions : Settled(s) => \A u \in Users : userIds[u] # s

\* join returns the people already in the room to the client that asked.
JoinAnswered ==
    \A s \in Sessions :
        /\ conn[s] = "open"
        /\ joins[s] > 0
        /\ Pending(s) = {}
        => \E i \in DOMAIN inbox[s] : inbox[s][i].event = "_peers"

=============================================================================
