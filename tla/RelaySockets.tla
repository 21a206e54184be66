----------------------------- MODULE RelaySockets -----------------------------
(* How a relay port becomes a socket of a session, and how it comes back.     *)
(* Relay threads run create_relay_ioa_sockets (ns_ioalib_engine_impl.c): they *)
(* take a port, or an even port with the one after it, from the pool they all *)
(* share, bind sockets to them, and leave the second one under a token in the *)
(* reservation map of server/ns_turn_maps_rtcp.c, where the session that      *)
(* presents the token finds it.  A timer of the listener's thread closes the  *)
(* reservations nobody came for.  A port goes back to the pool before its     *)
(* socket is closed, so that for a moment a port of the pool cannot be bound. *)
(*                                                                            *)
(* A bound socket is its port.  The pool is the set of its free ports (what   *)
(* TurnPorts implements), a token is one nobody has at the moment (the code   *)
(* takes 32 random bits and two ports).  The engine has one relay address.    *)
EXTENDS Integers, Sequences, FiniteSets, SequencesExt

CONSTANTS
  Threads,       \* relay threads, each with a session of its own
  Ports,         \* the range of relay ports
  Tokens,
  Timeout,       \* RTCP_TIMEOUT, in ticks of the clock
  MaxTokenDel,   \* MAX_TOKEN_DEL
  MaxTry,        \* 0xFFFF, the tries to find a port that can be bound
  Foreign        \* whether another process may have any port of the range

RelayAssumption ==
  /\ Ports \subseteq Nat \ {0} /\ Timeout \in Nat /\ MaxTokenDel \in Nat \ {0} /\ MaxTry \in Nat \ {0} /\ Foreign \in BOOLEAN

VARIABLES
  free,          \* the ports in the pool
  os,            \* the ports a socket of the process is bound to
  reserved,      \* the reservation map: token -> its port and its age
  relay,         \* each session's relay socket, 0 if it has none
  job,           \* what each thread is doing
  due,           \* tokens the timer has found too old and not yet deleted
  locked         \* the port of the reservation the timer is closing, with the map locked

relayVars == <<free, os, reserved, relay, job, due, locked>>

IsEven(p) == p % 2 = 0
Release(p) == [op |-> "release", port |-> p]
Shut(p) == [op |-> "shut", port |-> p]

NoJob == [at |-> "idle", even |-> -1, port |-> 0, rtcp |-> 0, token |-> 0, tries |-> 0, todo |-> <<>>, next |-> "idle"]

RelayInit ==
  /\ free = Ports /\ os = {} /\ reserved = [t \in {} |-> 0]
  /\ relay = [th \in Threads |-> 0] /\ job = [th \in Threads |-> NoJob]
  /\ due = <<>> /\ locked = 0

-----------------------------------------------------------------------------
(* The reservation map: ur_map_put, ur_map_get and ur_map_del.                *)
ur_map_put(t, v) == [u \in DOMAIN reserved \cup {t} |-> IF u = t THEN v ELSE reserved[u]]
ur_map_del(t) == [u \in DOMAIN reserved \ {t} |-> reserved[u]]

(* close_ioa_socket of a bound relay socket.                                  *)
close_ioa_socket(p) == <<Release(p), Shut(p)>>

(* The thread has these calls to make, and goes on with next: another try or  *)
(* the end.                                                                   *)
Undo(th, calls, next) ==
  job' = [job EXCEPT ![th] =
            IF next = "port" THEN [NoJob EXCEPT !.at = "undo", !.even = job[th].even, !.tries = job[th].tries + 1, !.todo = calls, !.next = "port"]
            ELSE [NoJob EXCEPT !.at = "undo", !.todo = calls]]

(* A session asks for a relay socket: any port, an even one, or an even one   *)
(* and the next one reserved.                                                 *)
Allocate(th, even) ==
  /\ job[th] = NoJob /\ relay[th] = 0
  /\ job' = [job EXCEPT ![th] = [NoJob EXCEPT !.at = "port", !.even = even]]
  /\ UNCHANGED <<free, os, reserved, relay, due, locked>>

Fresh(t) == t \notin DOMAIN reserved /\ t \notin Range(due) /\ \A th \in Threads : job[th].token # t

Fits(p, even) == p \in free /\ (even >= 0 => IsEven(p)) /\ (even = 1 => p + 1 \in free)

MoreTries(j) == j.tries < MaxTry

(* turnipports_allocate and turnipports_allocate_even, or nothing fits or     *)
(* was bound in as many tries.                                                *)
TakePort(th) ==
  /\ job[th].at = "port" /\ MoreTries(job[th])
  /\ \E p \in Ports :
       /\ Fits(p, job[th].even)
       /\ IF job[th].even = 1
          THEN /\ free' = free \ {p, p + 1}
               /\ \E t \in {u \in Tokens : Fresh(u)} :
                    job' = [job EXCEPT ![th].at = "rtcp", ![th].port = p, ![th].token = t]
          ELSE /\ free' = free \ {p}
               /\ job' = [job EXCEPT ![th].at = "rtp", ![th].port = p]
  /\ UNCHANGED <<os, reserved, relay, due, locked>>

NoPort(th) ==
  /\ job[th].at = "port"
  /\ ~MoreTries(job[th]) \/ ~\E p \in Ports : Fits(p, job[th].even)
  /\ job' = [job EXCEPT ![th] = NoJob]
  /\ UNCHANGED <<free, os, reserved, relay, due, locked>>

(* bind_ioa_socket: a port that a socket of the process still has cannot be   *)
(* bound, nor one that another process has.                                   *)
Binds(p) == p \notin os
Refused(p) == p \in os \/ Foreign

(* The socket for the reserved port.                                          *)
BindRtcp(th) ==
  LET p == job[th].port
  IN /\ job[th].at = "rtcp"
     /\ \/ /\ Binds(p + 1) /\ os' = os \cup {p + 1}
           /\ job' = [job EXCEPT ![th].at = "rtp", ![th].rtcp = p + 1]
        \/ /\ Refused(p + 1)
           /\ Undo(th, <<Release(p), Release(p + 1)>>, "port")
           /\ UNCHANGED os
        \/ \* no socket
           /\ Undo(th, <<Release(p), Release(p + 1)>>, "idle")
           /\ UNCHANGED os
     /\ UNCHANGED <<free, reserved, relay, due, locked>>

(* Mutant: the reserved port is given back again after its socket was closed. *)
rtp_failed_twice(j) ==
  IF j.rtcp = 0 THEN <<Release(j.port)>> ELSE close_ioa_socket(j.rtcp) \o <<Release(j.port), Release(j.rtcp)>>

(* What a failed relay socket undoes: the reserved socket is closed, and gives *)
(* its port back itself since it is bound.                                     *)
rtp_failed(j) == (IF j.rtcp = 0 THEN <<>> ELSE close_ioa_socket(j.rtcp)) \o <<Release(j.port)>>

(* The relay socket.                                                          *)
BindRtp(th) ==
  LET p == job[th].port
  IN /\ job[th].at = "rtp"
     /\ \/ /\ Binds(p) /\ os' = os \cup {p}
           /\ IF job[th].rtcp # 0
              THEN job' = [job EXCEPT ![th].at = "put"] /\ UNCHANGED relay
              ELSE job' = [job EXCEPT ![th] = NoJob] /\ relay' = [relay EXCEPT ![th] = p]
        \/ Refused(p) /\ Undo(th, rtp_failed(job[th]), "port") /\ UNCHANGED <<os, relay>>
        \/ \* no socket
           Undo(th, rtp_failed(job[th]), "idle") /\ UNCHANGED <<os, relay>>
     /\ UNCHANGED <<free, reserved, due, locked>>

(* rtcp_map_put, or no memory for the entry.                                  *)
rtcp_map_put(th) ==
  /\ job[th].at = "put" /\ locked = 0
  /\ \/ /\ reserved' = ur_map_put(job[th].token, [port |-> job[th].rtcp, age |-> 0])
        /\ relay' = [relay EXCEPT ![th] = job[th].port]
        /\ job' = [job EXCEPT ![th] = NoJob]
     \/ /\ Undo(th, close_ioa_socket(job[th].port) \o close_ioa_socket(job[th].rtcp), "idle")
        /\ UNCHANGED <<reserved, relay>>
  /\ UNCHANGED <<free, os, due, locked>>

(* The next call a thread has to make.                                        *)
UndoStep(th) ==
  /\ job[th].at = "undo"
  /\ LET j == job[th]
         c == Head(j.todo)
     IN /\ free' = IF c.op = "release" THEN free \cup {c.port} ELSE free
        /\ os' = IF c.op = "shut" THEN os \ {c.port} ELSE os
        /\ job' = [job EXCEPT ![th] = IF Len(j.todo) = 1 THEN [j EXCEPT !.at = j.next, !.todo = <<>>, !.next = "idle"]
                                      ELSE [j EXCEPT !.todo = Tail(j.todo)]]
  /\ UNCHANGED <<reserved, relay, due, locked>>

(* rtcp_map_get: the socket and its reservation are taken in one.             *)
rtcp_map_get(th, t) ==
  /\ locked = 0 /\ t \in DOMAIN reserved
  /\ relay' = [relay EXCEPT ![th] = reserved[t].port]
  /\ reserved' = ur_map_del(t)

(* A session that presents a token; one nobody knows is answered with 508.    *)
AllocateReserved(th, t) ==
  /\ job[th] = NoJob /\ relay[th] = 0
  /\ rtcp_map_get(th, t)
  /\ UNCHANGED <<free, os, job, due, locked>>

EndSession(th) ==
  /\ job[th] = NoJob /\ relay[th] # 0
  /\ Undo(th, close_ioa_socket(relay[th]), "idle")
  /\ relay' = [relay EXCEPT ![th] = 0]
  /\ UNCHANGED <<free, os, reserved, due, locked>>

-----------------------------------------------------------------------------
Tick ==
  /\ \E t \in DOMAIN reserved : reserved[t].age <= Timeout
  /\ reserved' = [t \in DOMAIN reserved |-> [reserved[t] EXCEPT !.age = IF @ > Timeout THEN @ ELSE @ + 1]]
  /\ UNCHANGED <<free, os, relay, job, due, locked>>

timeout_check(t) == reserved[t].age > Timeout

(* rtcp_map_timeout_handler: the tokens that are too old are collected under  *)
(* the lock, at most MaxTokenDel of them ...                                  *)
rtcp_map_timeout_handler ==
  LET old == {t \in DOMAIN reserved : timeout_check(t)}
  IN /\ due = <<>> /\ locked = 0 /\ old # {}
     /\ \E s \in SUBSET old :
          /\ Cardinality(s) = IF Cardinality(old) <= MaxTokenDel THEN Cardinality(old) ELSE MaxTokenDel
          /\ due' = SetToSeq(s)
     /\ UNCHANGED <<free, os, reserved, relay, job, locked>>

(* ... and deleted one by one under the lock, if they are still there.  The   *)
(* lock is held while the socket is closed.                                   *)
rtcp_map_del(t) ==
  IF t \in DOMAIN reserved
  THEN free' = free \cup {reserved[t].port} /\ locked' = reserved[t].port /\ UNCHANGED <<reserved, due>>
  ELSE due' = Tail(due) /\ UNCHANGED <<free, reserved, locked>>

DeleteOld ==
  /\ due # <<>> /\ locked = 0
  /\ rtcp_map_del(Head(due))
  /\ UNCHANGED <<os, relay, job>>

(* rtcp_alloc_free ends: the descriptor is closed, the entry and the lock go. *)
rtcp_alloc_free ==
  /\ locked # 0
  /\ os' = os \ {locked} /\ reserved' = ur_map_del(Head(due))
  /\ due' = Tail(due) /\ locked' = 0
  /\ UNCHANGED <<free, relay, job>>

Thread(th) == TakePort(th) \/ NoPort(th) \/ BindRtcp(th) \/ BindRtp(th) \/ rtcp_map_put(th) \/ UndoStep(th)
Timer == rtcp_map_timeout_handler \/ DeleteOld \/ rtcp_alloc_free

RelayNext ==
  \/ Timer \/ Tick
  \/ \E th \in Threads :
       Thread(th) \/ EndSession(th) \/ (\E even \in {-1, 0, 1} : Allocate(th, even)) \/ (\E t \in Tokens : AllocateReserved(th, t))

RelaySpec == RelayInit /\ [][RelayNext]_relayVars

(* Threads, the timer and the clock go on; sessions come and go as they like. *)
RelayFairness == WF_relayVars(Timer) /\ WF_relayVars(Tick) /\ \A th \in Threads : WF_relayVars(Thread(th))
RelayFairSpec == RelaySpec /\ RelayFairness

-----------------------------------------------------------------------------
(* The ports a thread has taken from the pool and not given back yet, and the *)
(* ports it has sockets on: those it works on and those it is to close.       *)
PortsOf(j) ==
  {p \in Ports :
     \/ j.at \in {"rtcp", "rtp", "put"} /\ (p = j.port \/ (j.even = 1 /\ p = j.port + 1))
     \/ \E i \in DOMAIN j.todo : j.todo[i] = Release(p)}
SocketsOf(j) ==
  {p \in Ports :
     \/ p = j.rtcp
     \/ j.at = "put" /\ p = j.port
     \/ \E i \in DOMAIN j.todo : j.todo[i] = Shut(p)}

JobPorts == [th \in Threads |-> PortsOf(job[th])]
JobSockets == [th \in Threads |-> SocketsOf(job[th])]

(* The ports of the reservations; the timer gives the port of one back while  *)
(* it still has the entry (locked).                                           *)
EntrySockets == [t \in DOMAIN reserved |-> reserved[t].port]
EntryPorts == [t \in {u \in DOMAIN reserved : reserved[u].port # locked} |-> reserved[t].port]

(* p is left, or one thread has it, or one session, or one reservation.       *)
OneHas(p, left, jobs, entries) ==
  (IF p \in left THEN 1 ELSE 0) + Cardinality({th \in Threads : p \in jobs[th]})
    + Cardinality({th \in Threads : relay[th] = p}) + Cardinality({t \in DOMAIN entries : entries[t] = p}) = 1

(* A port is in the pool, or in the hands of one thread, one session or one   *)
(* reservation: whatever failed, raced or ran out on the way, it is never     *)
(* given to two and never lost.                                               *)
PortHasOneOwner == \A p \in Ports : OneHas(p, free, JobPorts, EntryPorts)

(* A socket that is open is a session's, a reservation's, or in the hands of  *)
(* one thread that will use or close it; none of them has one that is closed. *)
SocketHasOneOwner == \A p \in Ports : OneHas(p, Ports \ os, JobSockets, EntrySockets)

(* A reservation nobody takes comes to an end.                                *)
ReservationEnds == \A t \in Tokens : t \in DOMAIN reserved ~> t \notin DOMAIN reserved

(* A request for a relay socket comes to an end, also when no port can be     *)
(* bound and when the timer has the map.                                      *)
AllocateEnds == \A th \in Threads : job[th].at # "idle" ~> job[th].at = "idle"

(* Types of the pool, the map and the threads' work.                          *)
RelayTypeOK ==
  /\ free \subseteq Ports /\ os \subseteq Ports
  /\ DOMAIN reserved \subseteq Tokens
  /\ \A t \in DOMAIN reserved : reserved[t].port \in Ports /\ reserved[t].age \in 0 .. Timeout + 1
  /\ relay \in [Threads -> Ports \cup {0}]
  /\ \A th \in Threads : job[th].at \in {"idle", "port", "rtcp", "rtp", "put", "undo"} /\ job[th].tries \in 0 .. MaxTry
  /\ locked \in Ports \cup {0}

(* Ports and sockets of the relay have one owner, through failed binds,       *)
(* sockets that cannot be had, expired reservations and other programs that   *)
(* hold ports (create_relay_ioa_sockets, close_ioa_socket, the timer of       *)
(* ns_turn_maps_rtcp.c).                                                      *)
PortsOwned == RelayTypeOK /\ PortHasOneOwner /\ SocketHasOneOwner
=============================================================================
