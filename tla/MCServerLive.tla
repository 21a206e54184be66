---------------------------- MODULE MCServerLive ----------------------------
(***************************************************************************)
(* What must come to happen in the TURN server, for the parts whose        *)
(* threads and timers see to it: each on a small instance of its own, a    *)
(* behaviour being one of the part that part names while the others stay   *)
(* where they start. The fairness of a part is that of its module; in its  *)
(* first state none of it is due, so the parts that do not run are not     *)
(* held to anything. The client that follows its challenges and the one    *)
(* that starts TLS could go on at once: their steps are fair only when     *)
(* they are the part that runs (the network delivers what is sent, and the *)
(* event loop serves its callbacks).                                       *)
(***************************************************************************)
EXTENDS Integers, Sequences

VARIABLE part   \* the instance this behaviour is of

VARIABLES valid, tcs, live, tcp_connections, timers, connecting, sub_session, postponed,
          told, answers, collided, tried
VARIABLES srv, tickets
VARIABLES read_threads, write_level, write_thread, at, asleep
VARIABLES opt, ss, req, inq, outq, counter, db, changes, served, granted
VARIABLES honestOpt, honestSs, honestReq, honestInq, honestOutq, honestCounter, honestDb,
          honestChanges, honestServed, honestGranted
VARIABLES open, in, out, enabled, wcb, eof, given, taken
VARIABLES how, sent, arrived, pos, socket_type, ready, cycle, got, spent
VARIABLES listenerOpt, listenerSt, reopened
VARIABLES free, os, reserved, relay, job, due, locked

tcpVars == <<valid, tcs, live, tcp_connections, timers, connecting, sub_session, postponed,
              told, answers, collided, tried>>
sessionVars == <<srv, tickets>>
lockVars == <<read_threads, write_level, write_thread, at, asleep>>
authVars == <<opt, ss, req, inq, outq, counter, db, changes, served, granted>>
honestVars == <<honestOpt, honestSs, honestReq, honestInq, honestOutq, honestCounter,
                 honestDb, honestChanges, honestServed, honestGranted>>
pumpVars == <<open, in, out, enabled, wcb, eof, given, taken>>
streamVars == <<how, sent, arrived, pos, socket_type, ready, cycle, got, spent>>
listenerVars == <<listenerOpt, listenerSt, reopened>>
relayVars == <<free, os, reserved, relay, job, due, locked>>

vars == <<part, tcpVars, sessionVars, lockVars, authVars, honestVars, pumpVars, streamVars,
          listenerVars, relayVars>>


Waiting ==
  [methods |-> {"ALLOCATE", "BINDING"}, oauth |-> FALSE, secrets |-> FALSE, static |-> {}, originRealm |-> "d",
   kidRealm |-> "norealm", checkOrigin |-> FALSE, secureStun |-> FALSE, creds |-> {1, 2}, changes |-> 0]
Following == [Waiting EXCEPT !.methods = {"ALLOCATE", "CREATE_PERMISSION"}, !.originRealm = "o"]

Short == {[kind |-> "stun", data |-> 0], [kind |-> "channel", data |-> 1]}

-----------------------------------------------------------------------------
(* Two connections to a peer, one of the peers denied. *)
Tcp == INSTANCE TurnTcp WITH Peer <- {"p", "d"}, Denied <- {"d"}, TcId <- {1, 2},
  DataSocket <- {"s1"}, None <- "none", MAX_UNSENT_BUFFER_SIZE <- 1, MaxTc <- 2,
  MaxSent <- 1

(* Two sessions, which lose their clients and get them back. *)
Orphans == INSTANCE TurnSession WITH User <- {"u"}, Realm <- {"r"}, NoUser <- "nobody",
  Ticket <- {1, 2, 3}, Family <- {4}, UserQuota <- 1, TotalQuota <- 0, Bps <- {0},
  BpsCapacity <- 0, MaxSession <- 2

(* Three threads at the lock of the SQLite driver. *)
Lock == INSTANCE SqliteLock WITH Threads <- {1, 2, 3}, NullThread <- 0

(* A request that waits for the authentication thread. *)
Auth == INSTANCE StunAuth WITH User <- {"a", "b"}, NoUser <- "nobody", Realm <- {"d"},
  NoRealm <- "norealm", DefaultRealm <- "d", Cred <- {1, 2}, Options <- {Waiting},
  Slot <- {"x"}, AuthServers <- 2, MaxSession <- 1, MaxNonce <- 2

(* A client that follows the challenges it is sent. *)
Honest == INSTANCE StunAuth WITH User <- {"a"}, NoUser <- "nobody", Realm <- {"d", "o"},
  NoRealm <- "norealm", DefaultRealm <- "d", Cred <- {1, 2}, Options <- {Following},
  Slot <- {"x", "y"}, AuthServers <- 3, MaxSession <- 2, MaxNonce <- 8, opt <- honestOpt,
  ss <- honestSs, req <- honestReq, inq <- honestInq, outq <- honestOutq,
  counter <- honestCounter, db <- honestDb, changes <- honestChanges,
  served <- honestServed, granted <- honestGranted

(* A client that sends more than its peer reads. *)
Pump == INSTANCE TcpPump WITH STUN_BUFFER_SIZE <- 1, BUFFEREVENT_HIGH_WATERMARK <- 2,
  BUFFEREVENT_MAX_TCP_TO_TCP_WRITE <- 3, Talking <- {"client_s"}, MaxSent <- 5

(* Three short messages of a client over TLS. *)
Stream == INSTANCE StunStream WITH
  Connections <- {[client |-> "tls", sends |-> Short, fragments |-> FALSE]}, MaxMessage <- 3,
  Wrap <- 64, BufferSize <- 40, HttpAsChannel <- 32, MaxCycle <- 3

(* Two clients of a listener that fails, with a socket for each. *)
Listener == INSTANCE UdpListener WITH Client <- {1, 2},
  Options <- {[SocketEach |-> TRUE, no_udp |-> TRUE, Failures |-> TRUE]}, MaxSocket <- 3,
  MaxReopen <- 1, opt <- listenerOpt, st <- listenerSt

(* Two threads that reserve and bind the same two ports. *)
Relay == INSTANCE RelaySockets WITH Threads <- {1, 2}, Ports <- {2, 3}, Tokens <- {11, 12},
  Timeout <- 0, MaxTokenDel <- 2, MaxTry <- 2, Foreign <- TRUE

(* A component that this behaviour does not run: its variables keep one value. *)
tcpOff == Tcp!TcpInit
sessionOff == Orphans!SessionInit
lockOff == Lock!LockInit
authOff == Auth!AuthInit
honestOff == Honest!AuthInit
pumpOff == Pump!PumpInit
streamOff == Stream!StreamInit
listenerOff == Listener!ListenerInit
relayOff == Relay!RelayInit

(* The assumptions of the instances, evaluated by TLC.                        *)
ASSUME /\ Tcp!TcpAssumption /\ Orphans!SessionAssumption /\ Lock!LockAssumption
       /\ Auth!AuthAssumption /\ Honest!AuthAssumption /\ Pump!PumpAssumption
       /\ Stream!StreamAssumption /\ Listener!ListenerAssumption /\ Relay!RelayAssumption

-----------------------------------------------------------------------------
Init ==
  \/ part = "tcp" /\ Tcp!TcpInit /\ sessionOff /\ lockOff /\ authOff /\ honestOff /\ pumpOff
       /\ streamOff /\ listenerOff /\ relayOff
  \/ part = "session" /\ Orphans!SessionInit /\ tcpOff /\ lockOff /\ authOff /\ honestOff /\
       pumpOff /\ streamOff /\ listenerOff /\ relayOff
  \/ part = "lock" /\ Lock!LockInit /\ tcpOff /\ sessionOff /\ authOff /\ honestOff /\
       pumpOff /\ streamOff /\ listenerOff /\ relayOff
  \/ part = "auth" /\ Auth!AuthInit /\ tcpOff /\ sessionOff /\ lockOff /\ honestOff /\
       pumpOff /\ streamOff /\ listenerOff /\ relayOff
  \/ part = "honest" /\ Honest!AuthInit /\ tcpOff /\ sessionOff /\ lockOff /\ authOff /\
       pumpOff /\ streamOff /\ listenerOff /\ relayOff
  \/ part = "pump" /\ Pump!PumpInit /\ tcpOff /\ sessionOff /\ lockOff /\ authOff /\
       honestOff /\ streamOff /\ listenerOff /\ relayOff
  \/ part = "stream" /\ Stream!StreamInit /\ tcpOff /\ sessionOff /\ lockOff /\ authOff /\
       honestOff /\ pumpOff /\ listenerOff /\ relayOff
  \/ part = "listener" /\ Listener!ListenerInit /\ tcpOff /\ sessionOff /\ lockOff /\
       authOff /\ honestOff /\ pumpOff /\ streamOff /\ relayOff
  \/ part = "relay" /\ Relay!RelayInit /\ tcpOff /\ sessionOff /\ lockOff /\ authOff /\
       honestOff /\ pumpOff /\ streamOff /\ listenerOff

Next ==
  /\ UNCHANGED part
  /\ \/ part = "tcp" /\ Tcp!TcpNext /\ UNCHANGED <<sessionVars, lockVars, authVars,
          honestVars, pumpVars, streamVars, listenerVars, relayVars>>
     \/ part = "session" /\ Orphans!SessionNext /\ UNCHANGED <<tcpVars, lockVars, authVars,
          honestVars, pumpVars, streamVars, listenerVars, relayVars>>
     \/ part = "lock" /\ Lock!LockNext /\ UNCHANGED <<tcpVars, sessionVars, authVars,
          honestVars, pumpVars, streamVars, listenerVars, relayVars>>
     \/ part = "auth" /\ Auth!AuthNext /\ UNCHANGED <<tcpVars, sessionVars, lockVars,
          honestVars, pumpVars, streamVars, listenerVars, relayVars>>
     \/ part = "honest" /\ Honest!HonestNext(Honest!HonestUser) /\ UNCHANGED <<tcpVars,
          sessionVars, lockVars, authVars, pumpVars, streamVars, listenerVars, relayVars>>
     \/ part = "pump" /\ Pump!PumpNext /\ UNCHANGED <<tcpVars, sessionVars, lockVars,
          authVars, honestVars, streamVars, listenerVars, relayVars>>
     \/ part = "stream" /\ Stream!StreamNext /\ UNCHANGED <<tcpVars, sessionVars, lockVars,
          authVars, honestVars, pumpVars, listenerVars, relayVars>>
     \/ part = "listener" /\ Listener!ListenerNext /\ UNCHANGED <<tcpVars, sessionVars,
          lockVars, authVars, honestVars, pumpVars, streamVars, relayVars>>
     \/ part = "relay" /\ Relay!RelayNext /\ UNCHANGED <<tcpVars, sessionVars, lockVars,
          authVars, honestVars, pumpVars, streamVars, listenerVars>>

Spec == Init /\ [][Next]_vars

Fairness ==
  /\ Tcp!TcpFairness /\ Orphans!SessionFairness /\ Lock!LockFairness /\ Auth!ServerFair
  /\ Pump!PumpFairness /\ Listener!ListenerFairness /\ Relay!RelayFairness
  /\ WF_streamVars(part = "stream" /\ Stream!Arrive)
  /\ WF_streamVars(part = "stream" /\ (Stream!tentative_tcp \/ Stream!socket_input_handler_bev))
  /\ Honest!ServerFair
  /\ WF_honestVars(part = "honest" /\ Honest!OpenSession)
  /\ WF_honestVars(part = "honest" /\ Honest!HonestTries(Honest!HonestUser))

LiveSpec == Spec /\ Fairness

-----------------------------------------------------------------------------
(* What has a time limit ends: every CONNECT is answered and a connection     *)
(* that nobody binds is removed, a session that lost its client ends or gets  *)
(* a new one, a socket marked for closing is closed, a reservation is used or *)
(* given back (tcp_peer_conn_timeout_handler, tcp_conn_bind_timeout_handler,  *)
(* client_to_be_allocated_timeout_handler, timeout_check).                    *)
TimersExpire ==
  /\ Tcp!ConnectAnswered
  /\ Tcp!UnboundEnds
  /\ Orphans!OrphanEnds
  /\ Listener!MarkedIsClosed
  /\ Relay!ReservationEnds

(* Who waits goes on: a sleeping reader of the SQLite lock wakes, a request   *)
(* that waits for its key is answered or its session ends, a client that      *)
(* follows the challenges gets in, a request for a relay socket comes to an   *)
(* end, reading that stopped for congestion resumes, and every message that   *)
(* has arrived is handed over (sqlite_unlock_write,                           *)
(* resume_processing_after_username_check, create_challenge_response,         *)
(* create_relay_ioa_sockets, bufferevent callbacks).                          *)
WaitersGoOn ==
  /\ Lock!SleepingReaderWakes
  /\ Auth!RequestSettles
  /\ part = "honest" => Honest!HonestGetsIn
  /\ Relay!AllocateEnds
  /\ Pump!ReadingResumes
  /\ Stream!AllHandedOver
=============================================================================
