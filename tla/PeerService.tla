---------------------------- MODULE PeerService ----------------------------
(***************************************************************************)
(* The client's end of a call: PeerService.java with the socket of         *)
(* WsServiceImpl.java.                                                     *)
(*                                                                         *)
(* Two threads of each client meet here.  The single-thread `executor'     *)
(* runs what the signalling messages and the user ask for, in order.  The  *)
(* signalling thread of the WebRTC library calls the SdpObserver and       *)
(* PeerConnection.Observer methods of a Peer some time after the operation *)
(* that caused them.  Both use the fields of PeerService without a lock.   *)
(* connectionIdArray and connectionPeerDic always hold the same ids here;  *)
(* `peers' stands for both.                                                *)
(***************************************************************************)
EXTENDS Naturals, Sequences

CONSTANTS
    Clients,       \* the clients; a client's id is the id of its session
    Candidates     \* ICE candidates gathered for each local description

ASSUME ClientAssumption == Candidates \in Nat

VARIABLES
    ws,            \* the websocket, as the client's end of it is
    up,            \* messages sent on it that the server has not received
    exec,          \* the queue of `executor'
    role,          \* one field for all the peers
    webSocket,     \* the field webSocket is not null
    factory,       \* peerFactory is not null
    stream,        \* localStream is not null
    camera,        \* captureAndroid is not null: the camera is capturing
    peers,         \* connectionPeerDic, with the state of each PeerConnection
    pending,       \* observer calls the library still has to make, per peer
    crashed        \* an exception left the executor or the signalling thread

clientVars == <<ws, up, exec, role, webSocket, factory, stream, camera, peers,
                pending, crashed>>

mediaVars == <<factory, stream, camera>>

-----------------------------------------------------------------------------
NoPeer == [sig |-> "none", remote |-> FALSE, candidates |-> 0]

NewPeer == [sig |-> "stable", remote |-> FALSE, candidates |-> 0]

SignalingStates == {"none", "stable", "have_local_offer", "have_remote_offer"}

ObserverCalls == {"offer_created", "answer_created", "set", "candidate"}

Messages ==
    [op : {"join"}]
        \cup [op : {"offer", "answer", "ice_candidate"}, to : Clients]

ExecTasks ==
    [op : {"peers"}, connections : SUBSET Clients]
        \cup [op : {"new_peer", "remove_peer", "offer", "answer",
                    "ice_candidate"}, id : Clients]
        \cup [op : {"exit"}]

ClientTypeOK ==
    /\ ws \in [Clients -> {"idle", "open", "cut", "closing", "closed"}]
    /\ up \in [Clients -> Seq(Messages)]
    /\ exec \in [Clients -> Seq(ExecTasks)]
    /\ role \in [Clients -> {"none", "Caller", "Receiver"}]
    /\ webSocket \in [Clients -> BOOLEAN]
    /\ factory \in [Clients -> BOOLEAN]
    /\ stream \in [Clients -> BOOLEAN]
    /\ camera \in [Clients -> BOOLEAN]
    /\ peers \in [Clients -> [Clients -> [sig : SignalingStates,
                                          remote : BOOLEAN,
                                          candidates : Nat]]]
    /\ pending \in [Clients -> [Clients -> Seq(ObserverCalls)]]
    /\ crashed \in [Clients -> BOOLEAN]

ClientInit ==
    /\ ws = [c \in Clients |-> "idle"]
    /\ up = [c \in Clients |-> << >>]
    /\ exec = [c \in Clients |-> << >>]
    /\ role = [c \in Clients |-> "none"]
    /\ webSocket = [c \in Clients |-> TRUE]
    /\ factory = [c \in Clients |-> FALSE]
    /\ stream = [c \in Clients |-> FALSE]
    /\ camera = [c \in Clients |-> FALSE]
    /\ peers = [c \in Clients |-> [p \in Clients |-> NoPeer]]
    /\ pending = [c \in Clients |-> [p \in Clients |-> << >>]]
    /\ crashed = [c \in Clients |-> FALSE]

-----------------------------------------------------------------------------
(* The fields of one client.                                               *)

Has(c, p) == peers[c][p].sig # "none"

SetPeer(c, p, pc) == peers' = [peers EXCEPT ![c][p] = pc]

Notify(c, p, calls) == pending' = [pending EXCEPT ![c][p] = @ \o calls]

\* An exception nothing catches: on the executor thread (execute, not submit)
\* and in an observer call it ends the process, and with it the connection.
Crash(c) ==
    /\ crashed' = [crashed EXCEPT ![c] = TRUE]
    /\ ws' = [ws EXCEPT ![c] = IF @ = "open" THEN "cut" ELSE @]

\* webSocket.sendX(): a null field and a socket that is not open both throw.
Transmit(c, message) ==
    IF webSocket[c] /\ ws[c] \in {"open", "cut"}
    THEN /\ up' = IF ws[c] = "open" THEN [up EXCEPT ![c] = Append(@, message)]
                  ELSE up
         /\ UNCHANGED <<ws, crashed>>
    ELSE Crash(c) /\ UNCHANGED up

-----------------------------------------------------------------------------
(* The executor thread.                                                    *)

TakeTask(c, op) ==
    /\ ~crashed[c]
    /\ exec[c] # << >>
    /\ Head(exec[c]).op = op
    /\ exec' = [exec EXCEPT ![c] = Tail(@)]

CreateConnectionFactory(c) == factory' = [factory EXCEPT ![c] = TRUE]

\* createLocalStream if there is none: the stream, and the camera with it.
CreateLocalStream(c) ==
    /\ stream' = [stream EXCEPT ![c] = TRUE]
    /\ camera' = [camera EXCEPT ![c] = @ \/ ~stream[c]]

\* createPeerConnections, addStreams and createOffers: a new connection for
\* every id in the list, and an offer on each.
CallAll(c, ids) ==
    /\ peers' = [peers EXCEPT ![c] =
                    [p \in Clients |-> IF p \in ids THEN NewPeer ELSE NoPeer]]
    /\ pending' = [pending EXCEPT ![c] =
                      [p \in Clients |->
                          IF p \in ids THEN @[p] \o <<"offer_created">>
                          ELSE @[p]]]
    /\ role' = IF ids = {} THEN role ELSE [role EXCEPT ![c] = "Caller"]

ExecPeersLazy(c) ==     \* mutant: an empty room returns early, with no stream
    /\ TakeTask(c, "peers")
    /\ UNCHANGED <<ws, up, role, webSocket, mediaVars, peers, pending, crashed>>

\* onJoinToRoom: call everyone who was already there.
ExecPeers(c) ==
    /\ TakeTask(c, "peers")
    /\ CreateConnectionFactory(c)
    /\ CreateLocalStream(c)
    /\ CallAll(c, Head(exec[c]).connections \cup {p \in Clients : Has(c, p)})
    /\ UNCHANGED <<ws, up, webSocket, crashed>>

\* onRemoteJoinToRoom: createLocalStream needs the factory that onJoinToRoom
\* makes; new Peer() makes one if there is none.
ExecNewPeer(c) ==
    /\ TakeTask(c, "new_peer")
    /\ IF ~stream[c] /\ ~factory[c]
       THEN /\ Crash(c)
            /\ UNCHANGED <<mediaVars, peers>>
       ELSE /\ SetPeer(c, Head(exec[c]).id, NewPeer)
            /\ CreateConnectionFactory(c)
            /\ CreateLocalStream(c)
            /\ UNCHANGED <<ws, crashed>>
    /\ UNCHANGED <<up, role, webSocket, pending>>

ExecRemovePeerKeeps(c) ==     \* mutant: connectionPeerDic.remove is missing
    /\ TakeTask(c, "remove_peer")
    /\ pending' = [pending EXCEPT ![c][Head(exec[c]).id] = << >>]
    /\ UNCHANGED <<ws, up, role, webSocket, mediaVars, peers, crashed>>

\* closePeerConnection.  A closed connection makes no calls.
ClosePeerConnection(c, p) ==
    /\ SetPeer(c, p, NoPeer)
    /\ pending' = [pending EXCEPT ![c][p] = << >>]

\* onRemoteOutRoom.
ExecRemovePeer(c) ==
    /\ TakeTask(c, "remove_peer")
    /\ ClosePeerConnection(c, Head(exec[c]).id)
    /\ UNCHANGED <<ws, up, role, webSocket, mediaVars, crashed>>

\* setRemoteDescription takes effect if the description fits the state, else
\* it ends in onSetFailure, which does nothing.
SetRemote(c, p, from, to) ==
    IF peers[c][p].sig = from
    THEN /\ SetPeer(c, p, [peers[c][p] EXCEPT !.sig = to, !.remote = TRUE])
         /\ Notify(c, p, <<"set">>)
    ELSE UNCHANGED <<peers, pending>>

ExecOfferKeepsRole(c) ==     \* mutant: the role is not set
    /\ TakeTask(c, "offer")
    /\ SetRemote(c, Head(exec[c]).id, "stable", "have_remote_offer")
    /\ UNCHANGED <<ws, up, role, webSocket, mediaVars, crashed>>

ExecOffer(c) ==
    /\ TakeTask(c, "offer")
    /\ role' = [role EXCEPT ![c] = "Receiver"]
    /\ SetRemote(c, Head(exec[c]).id, "stable", "have_remote_offer")
    /\ UNCHANGED <<ws, up, webSocket, mediaVars, crashed>>

ExecAnswer(c) ==
    /\ TakeTask(c, "answer")
    /\ SetRemote(c, Head(exec[c]).id, "have_local_offer", "stable")
    /\ UNCHANGED <<ws, up, role, webSocket, mediaVars, crashed>>

\* addIceCandidate drops a candidate that comes before a remote description.
ExecCandidate(c) ==
    /\ TakeTask(c, "ice_candidate")
    /\ LET p == Head(exec[c]).id IN
        IF Has(c, p) /\ peers[c][p].remote
        THEN SetPeer(c, p, [peers[c][p] EXCEPT !.candidates = @ + 1])
        ELSE UNCHANGED peers
    /\ UNCHANGED <<ws, up, role, webSocket, mediaVars, pending, crashed>>

\* exitRoom's task.  localStream keeps its value.
ExecExit(c) ==
    /\ TakeTask(c, "exit")
    /\ peers' = [peers EXCEPT ![c] = [p \in Clients |-> NoPeer]]
    /\ pending' = [pending EXCEPT ![c] = [p \in Clients |-> << >>]]
    /\ camera' = [camera EXCEPT ![c] = FALSE]
    /\ factory' = [factory EXCEPT ![c] = FALSE]
    /\ ws' = [ws EXCEPT ![c] =
                 IF webSocket[c] /\ @ \in {"open", "cut"} THEN "closing" ELSE @]
    /\ webSocket' = [webSocket EXCEPT ![c] = FALSE]
    /\ UNCHANGED <<up, role, stream, crashed>>

-----------------------------------------------------------------------------
(* The signalling thread of the WebRTC library.                            *)

TakeCall(c, p, call) ==
    /\ ~crashed[c]
    /\ pending[c][p] # << >>
    /\ Head(pending[c][p]) = call

Gathered == [i \in 1..Candidates |-> "candidate"]

OnCreateSuccessTrickles(c, p, call, from, to) ==  \* mutant: candidates first
    /\ TakeCall(c, p, call)
    /\ SetPeer(c, p, [peers[c][p] EXCEPT !.sig = to])
    /\ pending' = [pending EXCEPT ![c][p] = Tail(@) \o Gathered \o <<"set">>]
    /\ UNCHANGED <<ws, up, exec, role, webSocket, mediaVars, crashed>>

\* onCreateSuccess: setLocalDescription.  When it fits, onSetSuccess follows,
\* and after it onIceCandidate for each candidate.
OnCreateSuccess(c, p, call, from, to) ==
    /\ TakeCall(c, p, call)
    /\ IF peers[c][p].sig = from
       THEN /\ SetPeer(c, p, [peers[c][p] EXCEPT !.sig = to])
            /\ pending' = [pending EXCEPT ![c][p] =
                              Tail(@) \o <<"set">> \o Gathered]
       ELSE /\ pending' = [pending EXCEPT ![c][p] = Tail(@)]
            /\ UNCHANGED peers
    /\ UNCHANGED <<ws, up, exec, role, webSocket, mediaVars, crashed>>

\* What onSetSuccess sends, given the state the connection is in and the role
\* at the time of the call.
Reply(c, p) ==
    CASE peers[c][p].sig = "have_local_offer" /\ role[c] = "Receiver" -> "answer"
      [] peers[c][p].sig = "have_local_offer" /\ role[c] = "Caller" -> "offer"
      [] peers[c][p].sig = "stable" /\ role[c] = "Receiver" -> "answer"
      [] OTHER -> "nothing"

OnSetSuccess(c, p) ==
    /\ TakeCall(c, p, "set")
    /\ IF peers[c][p].sig = "have_remote_offer"
       THEN /\ pending' = [pending EXCEPT ![c][p] =
                              Tail(@) \o <<"answer_created">>]
            /\ UNCHANGED <<ws, up, crashed>>
       ELSE /\ pending' = [pending EXCEPT ![c][p] = Tail(@)]
            /\ IF Reply(c, p) = "nothing" THEN UNCHANGED <<ws, up, crashed>>
               ELSE Transmit(c, [op |-> Reply(c, p), to |-> p])
    /\ UNCHANGED <<exec, role, webSocket, mediaVars, peers>>

OnIceCandidate(c, p) ==
    /\ TakeCall(c, p, "candidate")
    /\ pending' = [pending EXCEPT ![c][p] = Tail(@)]
    /\ Transmit(c, [op |-> "ice_candidate", to |-> p])
    /\ UNCHANGED <<exec, role, webSocket, mediaVars, peers>>

-----------------------------------------------------------------------------
Executor(c) ==
    \/ ExecPeers(c)
    \/ ExecNewPeer(c)
    \/ ExecRemovePeer(c)
    \/ ExecOffer(c)
    \/ ExecAnswer(c)
    \/ ExecCandidate(c)
    \/ ExecExit(c)

SignallingThread(c) ==
    \E p \in Clients :
        \/ OnCreateSuccess(c, p, "offer_created", "stable", "have_local_offer")
        \/ OnCreateSuccess(c, p, "answer_created", "have_remote_offer", "stable")
        \/ OnSetSuccess(c, p)
        \/ OnIceCandidate(c, p)

=============================================================================
