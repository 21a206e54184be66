----------------------------- MODULE UdpListener -----------------------------
(* The UDP and DTLS listener of a relay thread: its socket, the child sockets *)
(* that share the socket's descriptor and are found by the client's address,  *)
(* sockets of their own that detach_ioa_socket or the listener makes for one  *)
(* client, and the sessions behind them.  Sockets and sessions are objects of *)
(* the heap, numbered in the order of their creation.  A message is what its  *)
(* handler makes of it: nothing, the end of the session, or the move of the   *)
(* socket to another session (mobility).  A closed descriptor's number is     *)
(* free and the lowest free number is given out next, as the kernel does; no  *)
(* other thread takes numbers.                                                *)
EXTENDS Integers, Sequences, FiniteSets, FiniteSetsExt

CONSTANTS
  Client,        \* remote addresses
  Options,       \* ways the server may be run: see opt
  MaxSocket,     \* bound: sockets ever created
  MaxReopen      \* bound: times the listener is reopened

ListenerAssumption ==
  /\ Options \subseteq [SocketEach : BOOLEAN, no_udp : BOOLEAN, Failures : BOOLEAN]
  /\ MaxSocket \in Nat /\ MaxReopen \in Nat

VARIABLES
  opt,           \* fixed when the server starts.  SocketEach: the listener has a connect_cb, one
                 \* connected socket per client; Failures: system calls on a client's socket may fail
  st,            \* the state of the listener's thread: see ListenerInit
  reopened       \* times the listener was reopened

listenerVars == <<opt, st, reopened>>

NoFd == 0
Fd == 1 .. MaxSocket + 2
Free == [kind |-> "free", addr |-> <<>>]

(* listen: the listener's descriptor and whether its event is set.  fds: the  *)
(* kernel's table.  children: children_ss.  ss: the client socket of each     *)
(* session, 0 when it has none; ended sessions are gone.                      *)
ListenerInit ==
  /\ st = [fd |-> 1, ev |-> TRUE,
           fds |-> [f \in Fd |-> IF f = 1 THEN [kind |-> "listen", addr |-> <<>>] ELSE Free],
           socks |-> <<>>,
           children |-> [c \in Client |-> 0],
           ss |-> <<>>, ended |-> {}]
  /\ reopened = 0 /\ opt \in Options

Live(x) == {s \in DOMAIN x.socks : x.socks[s].live}
NextFd(x) == Min({f \in Fd : x.fds[f].kind = "free"})

-----------------------------------------------------------------------------
(* The socket leaves the listener's map (whatever is there for its address),  *)
(* its parent, whose descriptor it does not close, and its session.           *)
close_ioa_socket(x, s) ==
  [x EXCEPT !.socks[s] = [@ EXCEPT !.live = FALSE, !.container = FALSE],
            !.children = [c \in Client |-> IF x.socks[s].container /\ c = x.socks[s].addr THEN 0 ELSE @[c]],
            !.fds = [f \in Fd |-> IF ~x.socks[s].child /\ f = x.socks[s].fd THEN Free ELSE @[f]],
            !.ss = [n \in DOMAIN x.ss |-> IF n = x.socks[s].session /\ @[n] = s THEN 0 ELSE @[n]]]

(* The session ends and its client socket, if it has one, is closed.          *)
shutdown_client_connection(x, n) ==
  LET y == IF x.ss[n] = 0 THEN x ELSE close_ioa_socket(x, x.ss[n])
  IN  [y EXCEPT !.ended = @ \cup {n}]

Closed(x, s) ==
  IF x.socks[s].session = 0 THEN close_ioa_socket(x, s)
  ELSE shutdown_client_connection(x, x.socks[s].session)

(* A new socket, not in any map, without a session.                           *)
create_ioa_socket(x, c, fd, child, ssl) ==
  [x EXCEPT !.socks = Append(@, [live |-> TRUE, addr |-> c, fd |-> fd, child |-> child, container |-> FALSE,
                                 tobeclosed |-> FALSE, ssl |-> ssl, session |-> 0])]

(* A descriptor bound to the listener's address and connected to c.           *)
connected_fd(x, c) == [x EXCEPT !.fds[NextFd(x)] = [kind |-> "conn", addr |-> c]]

(* Mutant: the old socket keeps the descriptor that was moved.                *)
detach_ioa_socket_keeps(x, s) ==
  LET o == x.socks[s]
      y == IF o.child THEN connected_fd(x, o.addr) ELSE x
      fd == IF o.child THEN NextFd(x) ELSE o.fd
      z == [y EXCEPT !.children = [c \in Client |-> IF o.container /\ c = o.addr THEN 0 ELSE @[c]],
                     !.socks[s] = [o EXCEPT !.tobeclosed = TRUE, !.container = FALSE, !.child = FALSE,
                                            !.ssl = FALSE]]
  IN  create_ioa_socket(z, o.addr, fd, FALSE, o.ssl)

(* The descriptor (a new one for a child) and the TLS state go to a new       *)
(* socket; the old one is left to be closed, outside the map.                 *)
detach_ioa_socket(x, s) ==
  LET o == x.socks[s]
      y == IF o.child THEN connected_fd(x, o.addr) ELSE x
      fd == IF o.child THEN NextFd(x) ELSE o.fd
      z == [y EXCEPT !.children = [c \in Client |-> IF o.container /\ c = o.addr THEN 0 ELSE @[c]],
                     !.socks[s] = [o EXCEPT !.tobeclosed = TRUE, !.container = FALSE, !.child = FALSE,
                                            !.fd = NoFd, !.ssl = FALSE]]
  IN  create_ioa_socket(z, o.addr, fd, FALSE, o.ssl)

(* The session n gives up its client socket for s.                            *)
attach_socket_to_session(x, s, n) ==
  LET y == IF x.ss[n] = 0 THEN x ELSE close_ioa_socket(x, x.ss[n])
  IN  [y EXCEPT !.ss[n] = s, !.socks[s].session = n]

(* What the session behind socket s may do with a message: nothing, end (also *)
(* when detaching fails), or go on as another session's socket.               *)
client_input_handler(x, s) ==
  {x, [x EXCEPT !.socks[s].tobeclosed = TRUE]}
  \cup (IF Len(x.socks) < MaxSocket
        THEN {attach_socket_to_session(detach_ioa_socket(x, s), Len(x.socks) + 1, n) :
                n \in {k \in DOMAIN x.ss \ x.ended : k # x.socks[s].session /\ x.ss[k] # 0}}
        ELSE {})

AfterProcessing(x, s) ==
  IF x.socks[s].live /\ x.socks[s].tobeclosed THEN Closed(x, s) ELSE x

-----------------------------------------------------------------------------
add_socket_to_map(x, s) ==
  [x EXCEPT !.children[x.socks[s].addr] = s, !.socks[s].container = TRUE]

(* The new session handles the first message, when there is one (a DTLS       *)
(* handshake gives none).  The socket may be left marked.                     *)
open_client_connection_session(x, s, message) ==
  LET y == [x EXCEPT !.ss = Append(@, s), !.socks[s].session = Len(x.ss) + 1]
  IN  IF message /\ opt.Failures THEN client_input_handler(y, s)
      ELSE IF message THEN client_input_handler(y, s) \ {[y EXCEPT !.socks[s].tobeclosed = TRUE]}
      ELSE {y}

Known(x, c) == x.children[c] # 0 /\ ~x.socks[x.children[c]].tobeclosed /\ x.socks[x.children[c]].container

(* What a datagram is for a socket: data for the session, part of a handshake *)
(* (its bytes are passed on, and the session makes nothing of them), or the   *)
(* end of the DTLS connection.                                                *)
ssl_read(ssl) == IF ssl THEN {"data", "handshake", "error"} ELSE {"data"}

(* A packet from an address the map knows.                                    *)
KnownClient(x, c) ==
  LET s == x.children[c]
      after(r) == CASE r = "data" -> {AfterProcessing(y, s) : y \in client_input_handler(x, s)}
                    [] r = "handshake" -> {x}
                    [] r = "error" -> {[Closed(x, s) EXCEPT !.children[c] = 0]}
  IN  UNION {after(r) : r \in ssl_read(x.socks[s].ssl)}

(* A packet from another address.  A DTLS handshake that fails, or that is    *)
(* refused its cookie, leaves a plain UDP child.                              *)
NewChild(x, c, ssl, message) ==
  LET s == Len(x.socks) + 1
      y == create_ioa_socket(x, c, x.fd, TRUE, ssl)
  IN  open_client_connection_session(add_socket_to_map(y, s), s, message)

UnknownClient(x, c, hello) ==
  (IF hello THEN NewChild(x, c, TRUE, FALSE) ELSE {})
  \cup (IF opt.no_udp THEN {x} ELSE NewChild(x, c, FALSE, ~hello))

handle_udp_packet(x, c, hello) ==
  IF Known(x, c) THEN KnownClient(x, c)
  ELSE IF Len(x.socks) < MaxSocket THEN UnknownClient(x, c, hello) ELSE {}

(* The new socket goes to a relay thread, which opens its session; a failure  *)
(* to bind or connect closes the descriptor.                                  *)
create_new_connected_udp_socket(x, c, hello) ==
  LET s == Len(x.socks) + 1
      y == create_ioa_socket(connected_fd(x, c), c, NextFd(x), FALSE, hello)
  IN  IF Len(x.socks) < MaxSocket
      THEN open_client_connection_session(y, s, ~hello)
           \cup (IF opt.Failures \/ hello THEN {x} ELSE {})
      ELSE {}

(* A packet reaches the listener when no connected socket claims it.          *)
udp_server_input_handler(c, hello) ==
  /\ st.ev /\ \A f \in Fd : ~(st.fds[f].kind = "conn" /\ st.fds[f].addr = c)
  /\ st' \in (IF opt.SocketEach THEN create_new_connected_udp_socket(st, c, hello)
              ELSE handle_udp_packet(st, c, hello))
  /\ UNCHANGED <<opt, reopened>>

socket_input_worker(x, s) ==
  LET after(r) == CASE r = "data" -> client_input_handler(x, s)
                    [] r = "handshake" -> {x}
                    [] r = "error" -> {[x EXCEPT !.socks[s].tobeclosed = TRUE]}
  IN  IF x.socks[s].tobeclosed THEN {x} ELSE UNION {after(r) : r \in ssl_read(x.socks[s].ssl)}

(* A packet on a socket of its own.                                           *)
socket_input_handler(s) ==
  /\ s \in Live(st) /\ ~st.socks[s].child /\ st.socks[s].fd # NoFd
  /\ st' \in {AfterProcessing(x, s) : x \in socket_input_worker(st, s)}
  /\ UNCHANGED <<opt, reopened>>

(* Sending what a peer sent fails.                                            *)
send_data_from_ioa_socket_nbh(s) ==
  /\ opt.Failures /\ s \in Live(st) /\ ~st.socks[s].tobeclosed
  /\ st' = [st EXCEPT !.socks[s].tobeclosed = TRUE]
  /\ UNCHANGED <<opt, reopened>>

(* A timer of the session ends it.                                            *)
session_timeout(n) ==
  /\ n \in DOMAIN st.ss \ st.ended
  /\ st' = shutdown_client_connection(st, n)
  /\ UNCHANGED <<opt, reopened>>

(* The listener's descriptor is closed and opened again: with success it has  *)
(* the old number; without a socket, or when the address cannot be bound, the *)
(* listener is left without its event.                                        *)
reopen_server_socket(x) ==
  LET y == [x EXCEPT !.fds[x.fd] = Free, !.ev = FALSE]
      z == [y EXCEPT !.fds[NextFd(y)] = [kind |-> "listen", addr |-> <<>>], !.fd = NextFd(y)]
  IN  {[z EXCEPT !.ev = TRUE], z, [y EXCEPT !.fd = NoFd]}

(* A reset that a datagram to a client caused is read from the listener.      *)
connreset ==
  /\ st.ev /\ reopened < MaxReopen
  /\ reopened' = reopened + 1
  /\ st' \in reopen_server_socket(st)
  /\ UNCHANGED opt

ListenerNext ==
  \/ \E c \in Client : \E hello \in BOOLEAN : udp_server_input_handler(c, hello)
  \/ \E s \in DOMAIN st.socks : socket_input_handler(s) \/ send_data_from_ioa_socket_nbh(s)
  \/ \E n \in DOMAIN st.ss : session_timeout(n)
  \/ connreset

ListenerSpec == ListenerInit /\ [][ListenerNext]_listenerVars

(* Every session has a timer that ends it if nothing else does.               *)
ListenerFairness == \A n \in 1 .. MaxSocket : WF_listenerVars(session_timeout(n))
FairListenerSpec == ListenerSpec /\ ListenerFairness

-----------------------------------------------------------------------------
(* The state is what the structures of the code can hold.                     *)
ListenerTypeOK ==
  /\ st.fd \in Fd \cup {NoFd} /\ st.ev \in BOOLEAN
  /\ \A f \in Fd : st.fds[f].kind \in {"free", "listen", "conn"}
  /\ Len(st.socks) <= MaxSocket
  /\ st.children \in [Client -> 0 .. Len(st.socks)]
  /\ \A n \in DOMAIN st.ss : st.ss[n] \in 0 .. Len(st.socks)
  /\ \A s \in DOMAIN st.socks : st.socks[s].session \in 0 .. Len(st.ss)

(* Each descriptor that is open belongs to the listener or to one live        *)
(* socket, and no socket uses one that was closed: neither a child nor the    *)
(* old half of a detached socket closes what it does not own                  *)
(* (delete_socket_from_parent, detach_ioa_socket, reopen_server_socket).      *)
DescriptorsOwned ==
  LET own == {s \in Live(st) : ~st.socks[s].child /\ st.socks[s].fd # NoFd}
  IN  /\ \A f \in Fd : st.fds[f].kind = "listen" <=> f = st.fd
      /\ \A s \in own : st.fds[st.socks[s].fd].kind = "conn"
      /\ \A f \in Fd : st.fds[f].kind = "conn" => Cardinality({s \in own : st.socks[s].fd = f}) = 1

(* A session that has not ended and its client socket know each other and     *)
(* nobody else: the timers of a session never meet a socket that was freed,   *)
(* and no socket speaks for a session that ended or has another one           *)
(* (attach_socket_to_session, close_ioa_socket).                              *)
SessionSocketAlive ==
  /\ \A n \in DOMAIN st.ss \ st.ended :
       st.ss[n] # 0 => st.socks[st.ss[n]].live /\ st.socks[st.ss[n]].session = n
  /\ \A s \in Live(st) :
       st.socks[s].session # 0 => st.socks[s].session \notin st.ended /\ st.ss[st.socks[s].session] = s

(* What the listener's map holds is a live child for that address that knows  *)
(* it is in the map: the messages "wrong socket magic" and "wrong socket      *)
(* container" of handle_udp_packet never appear.                              *)
MapHoldsChildren ==
  \A c \in Client : st.children[c] # 0 =>
    LET s == st.socks[st.children[c]] IN s.live /\ s.child /\ s.container /\ s.addr = c

(* A client's packets reach its session: without failing calls a session      *)
(* whose socket is a healthy child is the one the map leads to                *)
(* (handle_udp_packet, add_socket_to_map).  With them the code does not keep  *)
(* this (README).                                                             *)
SessionReachable ==
  ~opt.Failures => \A s \in Live(st) :
    st.socks[s].child /\ ~st.socks[s].tobeclosed => st.children[st.socks[s].addr] = s

(* Each open descriptor belongs to the listener or to one live socket, also   *)
(* after a failed call; a session and its client socket know each other and   *)
(* nobody else; the listener's map holds live children; and without failing   *)
(* calls a client's packets reach its session, the one the map leads to       *)
(* (handle_udp_packet, detach_ioa_socket, close_ioa_socket,                   *)
(* reopen_server_socket).                                                     *)
ListenerSound ==
  /\ ListenerTypeOK
  /\ DescriptorsOwned
  /\ SessionSocketAlive
  /\ MapHoldsChildren
  /\ SessionReachable

(* A socket that is to be closed is closed in the end.                        *)
MarkedIsClosed ==
  \A s \in 1 .. MaxSocket :
    (s \in Live(st) /\ st.socks[s].tobeclosed) ~> (s \notin Live(st))
=============================================================================
