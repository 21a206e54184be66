------------------------------- MODULE TurnTcp -------------------------------
(* TCP relaying (RFC 6062) of one allocation: connections to and from peers,  *)
(* the client's data connections that are bound to them by an id, the two     *)
(* timers of a connection and the buffer that keeps the peer's data until the *)
(* client is bound.  A tcp_connection is an object of the heap: tcs numbers   *)
(* the objects in the order of their creation and says which are not freed.   *)
EXTENDS Integers, Sequences

CONSTANTS
  Peer,          \* addresses of peers, with their ports
  Denied,        \* those that good_peer_addr refuses
  TcId,          \* connection ids (24 random bits in the code)
  DataSocket,    \* connections a client may open to bind
  None,
  MAX_UNSENT_BUFFER_SIZE,
  MaxTc,         \* bound: connections ever created
  MaxSent        \* bound: buffers a peer sends on a connection

TcpAssumption == /\ MAX_UNSENT_BUFFER_SIZE \in Nat /\ MaxTc \in Nat /\ MaxSent \in Nat
                        /\ Denied \subseteq Peer /\ None \notin Peer \cup DataSocket

VARIABLES
  valid,             \* the allocation is valid
  tcs,               \* the objects, in the order of creation
  live,              \* those that are not freed: the list allocation.tcs
  tcp_connections,   \* the server's map from an id to an object
  timers,            \* pending events <<"peer_conn" or "conn_bind", object>>
  connecting,        \* objects whose peer socket waits for its connection
  sub_session,       \* the object behind a data socket of the client
  postponed,         \* binds that wait for the user's key
  told,              \* history: ids the client knows, with their object
  answers,           \* history: responses to the Connect of an object
  collided,          \* history: an id was given twice
  tried              \* history: objects a bind was decided for

tcpVars == <<valid, tcs, live, tcp_connections, timers, connecting, sub_session, postponed,
             told, answers, collided, tried>>

Tc == DOMAIN tcs
TcState == {"UNKNOWN", "CLIENT_TO_PEER_CONNECTING", "PEER_CONNECTED", "READY", "FAILED"}

TcpInit ==
  /\ valid = TRUE
  /\ tcs = <<>> /\ live = {}
  /\ tcp_connections = [id \in TcId |-> 0]
  /\ timers = {} /\ connecting = {} /\ postponed = {}
  /\ sub_session = [s \in DataSocket |-> 0]
  /\ told = {} /\ answers = <<>> /\ collided = FALSE /\ tried = {}

-----------------------------------------------------------------------------
get_tcp_connection_by_peer(peer) == {t \in live : tcs[t].peer = peer}

New == Len(tcs) + 1

(* The new object and its id, which no entry of the map has.                  *)
create_tcp_connection(peer, id, state, open) ==
  /\ Len(tcs) < MaxTc
  /\ tcp_connections[id] = 0
  /\ tcs' = Append(tcs, [id |-> id, peer |-> peer, state |-> state, client_s |-> None,
                         peer_s |-> open, sent |-> 0, bufs |-> <<>>, got |-> <<>>, full |-> FALSE])
  /\ live' = live \cup {New}
  /\ tcp_connections' = [tcp_connections EXCEPT ![id] = New]
  /\ collided' = (collided \/ \E t \in live : tcs[t].id = id)

(* Mutant: the timer that asks for the client's connection is forgotten.      *)
delete_tcp_connection_timer(t) ==
  /\ live' = live \ {t}
  /\ timers' = timers \ {<<"peer_conn", t>>}
  /\ connecting' = connecting \ {t}
  /\ tcp_connections' = [tcp_connections EXCEPT ![tcs[t].id] = 0]
  /\ sub_session' = [s \in DataSocket |-> IF sub_session[s] = t THEN 0 ELSE sub_session[s]]

(* Both timers, the entry of the id, the two sockets, and with the peer's     *)
(* socket its pending connection.                                             *)
delete_tcp_connection(t) ==
  /\ live' = live \ {t}
  /\ timers' = timers \ {<<"peer_conn", t>>, <<"conn_bind", t>>}
  /\ connecting' = connecting \ {t}
  /\ tcp_connections' = [tcp_connections EXCEPT ![tcs[t].id] = 0]
  /\ sub_session' = [s \in DataSocket |-> IF sub_session[s] = t THEN 0 ELSE sub_session[s]]

-----------------------------------------------------------------------------
(* CONNECT of the client.                                                     *)

(* 446 for a peer with a connection.  A relay socket that cannot start the    *)
(* connection (500) deletes the new object at once: a step without effect.    *)
tcp_start_connection_to_peer(peer, id) ==
  /\ get_tcp_connection_by_peer(peer) = {}
  /\ create_tcp_connection(peer, id, "CLIENT_TO_PEER_CONNECTING", TRUE)
  /\ timers' = timers \cup {<<"peer_conn", New>>}
  /\ connecting' = connecting \cup {New}

handle_turn_connect(peer, id) ==
  /\ valid /\ peer \notin Denied
  /\ tcp_start_connection_to_peer(peer, id)
  /\ answers' = Append(answers, 0)
  /\ UNCHANGED <<valid, sub_session, postponed, told, tried>>

Fail(t) == tcs' = [tcs EXCEPT ![t].state = "FAILED"]

(* The end of the attempt: the response to CONNECT, with the id to bind or    *)
(* with 447, 500.  A connection that failed is deleted after the response.    *)
tcp_peer_connection_completed_callback(t, success) ==
  /\ answers' = [answers EXCEPT ![t] = @ + 1]
  /\ \/ /\ success
        /\ tcs' = [tcs EXCEPT ![t].state = "PEER_CONNECTED"]
        /\ told' = told \cup {<<tcs[t].id, t>>}
        /\ connecting' = connecting \ {t}
        /\ timers' = (timers \ {<<"peer_conn", t>>}) \cup {<<"conn_bind", t>>}
        /\ UNCHANGED <<live, tcp_connections, sub_session>>
     \/ ~success /\ Fail(t) /\ delete_tcp_connection(t) /\ UNCHANGED told
  /\ UNCHANGED <<valid, postponed, collided, tried>>

(* libevent reports the connection, or that there is none (also the failure   *)
(* to register the input callback of a peer that did connect).                *)
connect_eventcb(t) ==
  /\ t \in connecting
  /\ \E success \in BOOLEAN : tcp_peer_connection_completed_callback(t, success)

(* Mutant: the attempt is given up without a response.                        *)
tcp_peer_conn_timeout_handler_silent(t) ==
  /\ <<"peer_conn", t>> \in timers
  /\ delete_tcp_connection(t)
  /\ UNCHANGED <<valid, tcs, postponed, told, answers, collided, tried>>

tcp_peer_conn_timeout_handler(t) ==
  /\ <<"peer_conn", t>> \in timers
  /\ tcp_peer_connection_completed_callback(t, FALSE)

-----------------------------------------------------------------------------
(* A peer connects to the relayed address.                                    *)

(* The callback for the peer's data may fail to be registered: the socket is  *)
(* closed and the object stays in the list, without a timer.  There is no     *)
(* request to answer.                                                         *)
tcp_peer_accept_connection(peer, id) ==
  /\ valid
  /\ get_tcp_connection_by_peer(peer) = {}
  /\ peer \notin Denied
  /\ \/ /\ create_tcp_connection(peer, id, "PEER_CONNECTED", TRUE)
        /\ timers' = timers \cup {<<"conn_bind", New>>}
        /\ told' = told \cup {<<id, New>>}
     \/ /\ create_tcp_connection(peer, id, "UNKNOWN", FALSE)
        /\ UNCHANGED <<timers, told>>
  /\ answers' = Append(answers, 1)
  /\ UNCHANGED <<valid, connecting, sub_session, postponed, tried>>

-----------------------------------------------------------------------------
(* CONNECTION-BIND on a new connection s of the client.                       *)

(* Everything that waited is sent, oldest first; at most one buffer more than *)
(* the limit goes in one call, so nothing is left.                            *)
tcp_deliver_delayed_buffer(t) == [tcs[t] EXCEPT !.got = @ \o tcs[t].bufs, !.bufs = <<>>]

Decided(id, s) ==
  /\ tcp_connections' = [tcp_connections EXCEPT ![id] = 0]
  /\ postponed' = postponed \ {<<id, s>>}
  /\ tried' = tried \cup {tcp_connections[id]}

Postponed(id, s) ==
  /\ <<id, s>> \notin postponed
  /\ postponed' = postponed \cup {<<id, s>>}
  /\ UNCHANGED <<tcs, sub_session, timers, tcp_connections, tried>>

(* The lookup of the user's key may postpone the reply.  Otherwise the id     *)
(* leaves the map, whether the bind succeeds or not; a connection that has    *)
(* its client socket is refused with 400, other failures are 401, 438, 404.   *)
turnserver_accept_tcp_client_data_connection(id, s) ==
  LET t == tcp_connections[id]
  IN  /\ sub_session[s] = 0
      /\ t # 0
      /\ \/ /\ tcs[t].state # "READY" /\ tcs[t].client_s = None
            /\ tcs' = [tcs EXCEPT ![t] = [tcp_deliver_delayed_buffer(t) EXCEPT !.state = "READY", !.client_s = s]]
            /\ sub_session' = [sub_session EXCEPT ![s] = t]
            /\ timers' = timers \ {<<"conn_bind", t>>}
            /\ Decided(id, s)
         \/ /\ Decided(id, s)
            /\ UNCHANGED <<tcs, sub_session, timers>>
         \/ Postponed(id, s)
      /\ UNCHANGED <<valid, live, connecting, told, answers, collided>>

(* Nothing has the id any more: 400, and the socket is closed.                *)
BindRefused(id, s) ==
  /\ <<id, s>> \in postponed /\ tcp_connections[id] = 0
  /\ postponed' = postponed \ {<<id, s>>}
  /\ UNCHANGED <<valid, tcs, live, tcp_connections, timers, connecting, sub_session, told, answers, collided, tried>>

(* A client binds an id it was told; a postponed bind is taken up again with  *)
(* the id alone, whatever has become of the connection.                       *)
handle_turn_connection_bind(id, s) ==
  /\ \/ \E t \in Tc : <<id, t>> \in told /\ ~\E i \in TcId : <<i, s>> \in postponed
     \/ <<id, s>> \in postponed
  /\ turnserver_accept_tcp_client_data_connection(id, s)

tcp_conn_bind_timeout_handler(t) ==
  /\ <<"conn_bind", t>> \in timers
  /\ delete_tcp_connection(t)
  /\ UNCHANGED <<valid, tcs, postponed, told, answers, collided, tried>>

-----------------------------------------------------------------------------
(* Data.  A full buffer drops what comes.                                     *)

add_unsent_buffer(tc, b) ==
  IF Len(tc.bufs) >= MAX_UNSENT_BUFFER_SIZE THEN [tc EXCEPT !.full = TRUE]
  ELSE [tc EXCEPT !.bufs = Append(@, b)]

tcp_peer_input_handler(t) ==
  /\ t \in live /\ tcs[t].peer_s /\ t \notin connecting
  /\ tcs[t].sent < MaxSent
  /\ LET b == tcs[t].sent + 1
         tc == [tcs[t] EXCEPT !.sent = b]
     IN  tcs' = [tcs EXCEPT ![t] = IF tc.state # "READY" \/ tc.client_s = None
                                   THEN add_unsent_buffer(tc, b)
                                   ELSE [tc EXCEPT !.got = Append(@, b)]]
  /\ UNCHANGED <<valid, live, tcp_connections, timers, connecting, sub_session, postponed, told, answers, collided, tried>>

(* Either socket of a connection breaks.                                      *)
close_ioa_socket_after_processing_if_necessary(t) ==
  /\ t \in live /\ t \notin connecting /\ tcs[t].peer_s
  /\ delete_tcp_connection(t)
  /\ UNCHANGED <<valid, tcs, postponed, told, answers, collided, tried>>

(* The end of the allocation deletes every connection of the list.            *)
clear_allocation_tcp ==
  /\ valid /\ valid' = FALSE
  /\ live' = {}
  /\ timers' = {} /\ connecting' = {}
  /\ tcp_connections' = [id \in TcId |->
       IF \E t \in live : tcs[t].id = id THEN 0 ELSE tcp_connections[id]]
  /\ sub_session' = [s \in DataSocket |-> IF sub_session[s] \in live THEN 0 ELSE sub_session[s]]
  /\ UNCHANGED <<tcs, postponed, told, answers, collided, tried>>

TcpNext ==
  \/ \E peer \in Peer, id \in TcId : \/ handle_turn_connect(peer, id)
                                     \/ tcp_peer_accept_connection(peer, id)
  \/ \E t \in Tc : \/ connect_eventcb(t)
                   \/ tcp_peer_conn_timeout_handler(t)
                   \/ tcp_conn_bind_timeout_handler(t)
                   \/ tcp_peer_input_handler(t)
                   \/ close_ioa_socket_after_processing_if_necessary(t)
  \/ \E id \in TcId, s \in DataSocket : handle_turn_connection_bind(id, s) \/ BindRefused(id, s)
  \/ clear_allocation_tcp

(* The engine's events come: timers fire, and a connection attempt ends.      *)
TcpFairness ==
  \A t \in 1..MaxTc : /\ WF_tcpVars(t \in Tc /\ tcp_peer_conn_timeout_handler(t))
                      /\ WF_tcpVars(t \in Tc /\ tcp_conn_bind_timeout_handler(t))

TcpSpec == TcpInit /\ [][TcpNext]_tcpVars /\ TcpFairness

-----------------------------------------------------------------------------
(* Types of the connection objects (tcp_connection) and of the tables.        *)
TcpTypeOK ==
  /\ live \subseteq Tc /\ connecting \subseteq Tc
  /\ tcp_connections \in [TcId -> 0..Len(tcs)]
  /\ sub_session \in [DataSocket -> 0..Len(tcs)]
  /\ timers \subseteq {"peer_conn", "conn_bind"} \X Tc
  /\ \A t \in Tc : /\ tcs[t].state \in TcState
                   /\ tcs[t].client_s \in DataSocket \cup {None}
                   /\ Len(tcs[t].bufs) =< MAX_UNSENT_BUFFER_SIZE

(* No callback of the engine can reach an object that was freed: neither a    *)
(* timer, nor the end of a connection attempt, nor a data socket.             *)
NoCallbackToFreed ==
  /\ \A e \in timers : e[2] \in live
  /\ connecting \subseteq live
  /\ \A s \in DataSocket : sub_session[s] # 0 => /\ sub_session[s] \in live
                                                /\ tcs[sub_session[s]].client_s = s

(* An id of the server's map leads to a connection that is not freed, and to  *)
(* the one that has this id.                                                  *)
IdsLeadToLive ==
  \A id \in TcId : tcp_connections[id] # 0 =>
    tcp_connections[id] \in live /\ tcs[tcp_connections[id]].id = id

(* At most one connection per peer (446), whoever opened it.                  *)
OneConnectionPerPeer ==
  \A t, u \in live : tcs[t].peer = tcs[u].peer => t = u

(* The client gets the peer's bytes in order and without a hole, from before  *)
(* and from after the bind, as long as the buffer did not overflow.           *)
StreamInOrder ==
  \A t \in Tc : ~tcs[t].full =>
    tcs[t].got \o tcs[t].bufs = [n \in 1..tcs[t].sent |-> n]

(* A connection without its client always has a timer that will remove it,    *)
(* except one whose callback could not be registered.                         *)
UnboundIsTimed ==
  \A t \in live : tcs[t].client_s = None /\ tcs[t].state # "UNKNOWN" =>
    \E kind \in {"peer_conn", "conn_bind"} : <<kind, t>> \in timers

(* CONNECT has one response at most, though the timeout races the result.     *)
AnsweredOnce == \A t \in Tc : answers[t] =< 1

(* While no id is given twice, a connection the client was told about can be  *)
(* bound: its id leads to it until a bind was decided or it is gone.          *)
ToldIsBindable ==
  ~collided => \A e \in told : e[2] \in live \ tried => tcp_connections[e[1]] = e[2]

(* The connections of a TCP relay are sound though timeouts, results, binds   *)
(* and the end of the allocation race: nothing calls a freed object, ids lead *)
(* to the live connection that has them, a peer has one, the stream has no    *)
(* hole, a connection without its client is timed, CONNECT has one answer,    *)
(* and what the client was told of can be bound.                              *)
TcpConnectionsSound ==
  /\ TcpTypeOK
  /\ NoCallbackToFreed
  /\ IdsLeadToLive
  /\ OneConnectionPerPeer
  /\ StreamInOrder
  /\ UnboundIsTimed
  /\ AnsweredOnce
  /\ ToldIsBindable

(* Every CONNECT is answered, or the allocation has ended.                    *)
ConnectAnswered ==
  \A t \in 1..MaxTc : (t \in Tc /\ answers[t] = 0) ~> (~valid \/ (t \in Tc /\ answers[t] = 1))

(* Every connection that is not bound to a client comes to an end.            *)
UnboundEnds ==
  \A t \in 1..MaxTc : (t \in live /\ tcs[t].state \notin {"UNKNOWN", "READY"})
                     ~> (t \notin live \/ tcs[t].state = "READY")
=============================================================================
