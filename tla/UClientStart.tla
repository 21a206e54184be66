----------------------------- MODULE UClientStart -----------------------------
(* The start of a session of the test client turnutils_uclient over UDP: a    *)
(* probe, then one or two real connections or, client to client, two ends,    *)
(* each connected, allocated, refreshed and given its channel or permission.  *)
(* Every call is a transaction over a network that loses, doubles, delays and *)
(* reorders datagrams: the request is repeated while no answer comes.  The    *)
(* server is external and does what the client can rely on: it challenges a   *)
(* request without its current nonce and answers a repeated one as before.    *)
(* Left out are the options that make the client break the protocol (dos,     *)
(* negative tests), mobility, dual allocation and TLS.                        *)
EXTENDS Integers, Sequences, FiniteSets, Bags

CONSTANTS
  C2C,          \* client to client
  Rtcp,         \* not no_rtcp
  Channel,      \* not do_not_use_channel
  Extra, Before,\* extra_requests: channels and permissions nobody needs, and when
  Redirect,     \* the first server sends its clients to an alternate one
  Chans,        \* channel numbers
  MaxWait,      \* MAX_LISTENING_CYCLE_NUMBER, 7 in the code
  MaxCycle,     \* 32 in the code
  MaxLost, MaxDouble, MaxStale, \* bounds: datagrams lost and doubled, nonces changed
  MaxEarly      \* bound: timeouts while the answer is still on its way

UClientStartAssumption ==
  /\ {C2C, Rtcp, Channel, Redirect, Extra, Before} \subseteq BOOLEAN
  /\ Chans \subseteq Nat \ {0} /\ Chans # {}
  /\ {MaxWait, MaxCycle, MaxLost, MaxDouble, MaxStale, MaxEarly} \subseteq Nat

VARIABLES
  pc,           \* the step of the script the client is in
  fate,         \* "running", "exit" or "ready"
  phase,        \* of the call: "begin", "allocate", "refresh", "receive"
  req,          \* the request whose answer is awaited
  waits, cycle, \* the cycles of recv_buffer and of clnet_allocate
  sock,         \* the socket of each connection, 0 before it has one
  nonce,        \* of each connection, 0 before the first challenge
  relay,        \* of each connection, the relay address it learnt
  chn,          \* of each connection, its channel number, and chni
  token,        \* current_reservation_token
  allocate_rtcp,\* every second allocation asks for the reserved port
  reopen_socket,
  server,       \* where the next connection goes: 1, or 2 after a redirection
  sockets,      \* of each socket opened so far, its server
  tids,         \* transactions begun
  net,          \* the datagrams on their way
  lost, doubled, early, stale,
  srv,          \* the servers: of each socket its nonce, allocation and bindings
  free          \* reservation tokens not used yet

client == <<pc, fate, phase, req, waits, cycle, sock, nonce, relay, chn, token, allocate_rtcp, reopen_socket, server, sockets, tids>>
faults == <<lost, doubled, early, stale>>
startVars == <<client, net, faults, srv, free>>

Conns == {"probe", "rtp", "rtcp", "rtp2", "rtcp2"}

Methods == {"ALLOCATE", "REFRESH", "CHANNEL_BIND", "CREATE_PERMISSION"}

-----------------------------------------------------------------------------
(* The scripts.  A step names the call, the connection, the peer and whether  *)
(* the client exits when the call fails.                                      *)
Step(call, conn, peer, must) == [call |-> call, conn |-> conn, peer |-> peer, must |-> must, slot |-> conn]
Connect(conn) == Step("connect", conn, "none", TRUE)
Allocate(conn) == Step("allocate", conn, "none", TRUE)
Bind(conn, peer) == Step("bind", conn, peer, TRUE)
Fresh(conn) == Step("fresh", conn, "none", TRUE)      \* *chn = 0
Permit(conn, peer) == Step("permit", conn, peer, TRUE)
Probe == <<Connect("probe"), Step("allocate", "probe", "none", FALSE)>>
WithRtcp(s) == IF Rtcp THEN s ELSE <<>>

(* Requests for an arbitrary address whose results nobody looks at; chni is   *)
(* the number of the extra channel.                                           *)
Extras(calls) ==
  IF ~Extra THEN <<>>
  ELSE (IF "bind" \in calls THEN <<[Step("bind", "rtp", "other", FALSE) EXCEPT !.slot = "chni"]>> ELSE <<>>)
       \o (IF "permit" \in calls THEN <<Step("permit", "rtp", "other", FALSE)>> ELSE <<>>)

(* The channels or the permissions of a connection to the peer.               *)
connection_peers ==
  IF Channel
    THEN <<Bind("rtp", "peer_rtcp"), Bind("rtp", "peer_rtcp"), Fresh("rtp"), Bind("rtp", "peer"), Bind("rtp", "peer")>>
         \o Extras({"bind"}) \o WithRtcp(<<Bind("rtcp", "peer_rtcp")>>) \o Extras({"permit"})
    ELSE (IF Before THEN <<>> ELSE Extras({"permit"}))
         \o <<Permit("rtp", "peer"), Permit("rtp", "peer_rtcp")>>
         \o (IF Before THEN Extras({"permit"}) ELSE <<>>)
         \o WithRtcp(<<Permit("rtcp", "peer_rtcp"), Permit("rtcp", "peer")>>)

start_connection ==
  Probe \o <<Connect("rtp")>> \o WithRtcp(<<Connect("rtcp")>>)
  \o <<Allocate("rtp")>> \o WithRtcp(<<Allocate("rtcp")>>)
  \o connection_peers

(* The channels or the permissions of two ends to each other.                 *)
c2c_peers ==
  LET Peer(conn, peer) == IF Channel THEN Bind(conn, peer) ELSE Permit(conn, peer)
  IN <<Peer("rtp", "rtp2")>> \o Extras(IF Channel THEN {"bind", "permit"} ELSE {"permit"})
     \o WithRtcp(<<Peer("rtcp", "rtcp2")>>)
     \o <<Peer("rtp2", "rtp")>> \o WithRtcp(<<Peer("rtcp2", "rtcp")>>)

(* A call for each connection of the two ends.                                *)
Each(call) ==
  LET For(conn) == Step(call, conn, "none", TRUE)
  IN <<For("rtp")>> \o WithRtcp(<<For("rtcp")>>) \o <<For("rtp2")>> \o WithRtcp(<<For("rtcp2")>>)

start_c2c_connection == Probe \o Each("connect") \o Each("allocate") \o c2c_peers

Script == IF C2C THEN start_c2c_connection ELSE start_connection
Now == Script[pc]

(* An address: a fixed peer's, or what the named connection learnt.           *)
Address(peer) == IF peer \in Conns THEN relay[peer] ELSE CASE peer = "peer" -> -1 [] peer = "peer_rtcp" -> -2 [] peer = "other" -> -3

-----------------------------------------------------------------------------
NoRequest == [sock |-> 0, tid |-> 0, method |-> "none", nonce |-> 0, token |-> 0, even |-> FALSE, peer |-> 0, chn |-> 0]
NewSrv(s) == [nonce |-> 10 * s, tid |-> 0, relay |-> 0, token |-> 0, peers |-> {}, bound |-> {}]

StartInit ==
  /\ pc = 1 /\ fate = "running" /\ phase = "begin" /\ req = NoRequest /\ waits = 0 /\ cycle = 0
  /\ sock = [c \in Conns |-> 0] /\ nonce = [c \in Conns |-> 0] /\ relay = [c \in Conns |-> 0] /\ chn = [c \in Conns \cup {"chni"} |-> 0]
  /\ token = 0 /\ allocate_rtcp = FALSE /\ reopen_socket = FALSE /\ server = 1 /\ sockets = <<>> /\ tids = 0
  /\ net = EmptyBag /\ lost = 0 /\ doubled = 0 /\ early = 0 /\ stale = 0
  /\ srv = <<>> /\ free = {}

Running(p) == fate = "running" /\ phase = p

(* The call is over; the next step of the script begins, or none is left.     *)
Return ==
  /\ phase' = "begin" /\ req' = NoRequest /\ waits' = 0 /\ cycle' = 0
  /\ pc' = pc + 1
  /\ fate' = IF pc = Len(Script) THEN "ready" ELSE "running"

Exit == fate' = "exit" /\ req' = NoRequest /\ waits' = 0 /\ UNCHANGED <<phase, cycle, pc>>

(* The call returned -1: the probe's result is not looked at.                 *)
Fail == IF Now.must THEN Exit ELSE Return

(* A new socket for a connection, at the given server.                        *)
Open(c, at) ==
  /\ sockets' = Append(sockets, at)
  /\ sock' = [sock EXCEPT ![c] = Len(sockets) + 1]
  /\ srv' = Append(srv, NewSrv(Len(sockets) + 1))

clnet_connect ==
  /\ Running("begin") /\ Now.call = "connect"
  /\ Open(Now.conn, server)
  /\ Return
  /\ UNCHANGED <<nonce, relay, chn, token, allocate_rtcp, reopen_socket, server, tids, net, faults, free>>

fresh_channel ==
  /\ Running("begin") /\ Now.call = "fresh"
  /\ chn' = [chn EXCEPT ![Now.conn] = 0]
  /\ Return
  /\ UNCHANGED <<sock, nonce, relay, token, allocate_rtcp, reopen_socket, server, sockets, tids, net, faults, srv, free>>

(* A datagram of this transaction is under way.                               *)
Pending(tid) == \E d \in BagToSet(net) : d.tid = tid

Put(d) == net' = net (+) SetToBag({d})
Datagram(r) == [to |-> "server", sock |-> r.sock, tid |-> r.tid, method |-> r.method, r |-> r]

(* A request with a new transaction id and the connection's nonce             *)
(* (add_integrity signs once there is one), sent for the first time.          *)
Request(m, s, r) ==
  \E new \in {[r EXCEPT !.sock = s, !.tid = tids + 1, !.method = m, !.nonce = nonce[Now.conn]]} :
    /\ tids' = tids + 1 /\ req' = new /\ waits' = 0
    /\ Put(Datagram(new))
    /\ phase' = "receive"

(* clnet_allocate up to the send: at most MaxCycle requests, the next one     *)
(* after a 437 on a new socket; for the reserved port, or for an even one.    *)
SendAllocate ==
  /\ (Running("begin") /\ Now.call = "allocate") \/ Running("allocate")
  /\ IF cycle >= MaxCycle
       THEN Exit /\ UNCHANGED <<sock, sockets, srv, reopen_socket, tids, net>>
       ELSE /\ cycle' = cycle + 1 /\ reopen_socket' = FALSE
            /\ IF reopen_socket
                 THEN Open(Now.conn, sockets[sock[Now.conn]])
                 ELSE UNCHANGED <<sock, sockets, srv>>
            /\ Request("ALLOCATE", IF reopen_socket THEN Len(sockets) + 1 ELSE sock[Now.conn],
                       IF Rtcp /\ allocate_rtcp THEN [NoRequest EXCEPT !.token = token] ELSE [NoRequest EXCEPT !.even = Rtcp])
            /\ UNCHANGED <<pc, fate>>
  /\ UNCHANGED <<nonce, relay, chn, token, allocate_rtcp, server, faults, free>>

(* The refresh that ends clnet_allocate.                                      *)
SendRefresh ==
  /\ Running("refresh")
  /\ IF cycle > MaxCycle
       THEN Exit /\ UNCHANGED <<tids, net>>
       ELSE cycle' = cycle + 1 /\ Request("REFRESH", sock[Now.conn], NoRequest) /\ UNCHANGED <<pc, fate>>
  /\ UNCHANGED <<sock, nonce, relay, chn, token, allocate_rtcp, reopen_socket, server, sockets, faults, srv, free>>

(* The number is chosen once and kept when the request is made again.         *)
turn_channel_bind ==
  /\ Running("begin") /\ Now.call = "bind"
  /\ \E n \in IF chn[Now.slot] = 0 THEN Chans ELSE {chn[Now.slot]} :
       /\ chn' = [chn EXCEPT ![Now.slot] = n]
       /\ Request("CHANNEL_BIND", sock[Now.conn], [NoRequest EXCEPT !.peer = Address(Now.peer), !.chn = n])
  /\ UNCHANGED <<pc, fate, cycle, sock, nonce, relay, token, allocate_rtcp, reopen_socket, server, sockets, faults, srv, free>>

turn_create_permission ==
  /\ Running("begin") /\ Now.call = "permit"
  /\ Request("CREATE_PERMISSION", sock[Now.conn], [NoRequest EXCEPT !.peer = Address(Now.peer)])
  /\ UNCHANGED <<pc, fate, cycle, sock, nonce, relay, chn, token, allocate_rtcp, reopen_socket, server, sockets, faults, srv, free>>

(* Half a second, then one, two, four ... pass without an answer; or, seldom, *)
(* with the answer already under way.                                         *)
Waited ==
  \/ ~Pending(req.tid) /\ UNCHANGED early
  \/ early < MaxEarly /\ early' = early + 1

(* recv_buffer waits in vain and sends the same request again; after MaxWait  *)
(* of these it only listens.                                                  *)
wait_fd ==
  /\ Running("receive") /\ waits < MaxWait
  /\ waits' = waits + 1 /\ Waited /\ Put(Datagram(req))
  /\ UNCHANGED <<pc, fate, phase, req, cycle, sock, nonce, relay, chn, token, allocate_rtcp, reopen_socket, server, sockets, tids, lost, doubled, stale, srv, free>>

(* recv_buffer: an answer with another method or transaction id is skipped    *)
(* and the waiting starts again.                                              *)
Matches(d) == d.method = req.method /\ d.tid = req.tid

(* The branches after recv_buffer.  A success ends the request; a challenge   *)
(* stores the nonce and the request is made again; an error ends the call,    *)
(* but for an allocation's 437.                                               *)
Success(d) ==
  IF req.method # "ALLOCATE"
    THEN Return /\ UNCHANGED <<relay, token, allocate_rtcp>>
    ELSE /\ relay' = [relay EXCEPT ![Now.conn] = d.r.relay]
         /\ token' = d.r.token
         /\ allocate_rtcp' = ~allocate_rtcp
         /\ phase' = "refresh" /\ cycle' = 0 /\ req' = NoRequest /\ waits' = 0 /\ UNCHANGED <<pc, fate>>

Again == CASE req.method = "ALLOCATE" -> "allocate" [] req.method = "REFRESH" -> "refresh" [] OTHER -> "begin"

Challenge(d) ==
  /\ nonce' = [nonce EXCEPT ![Now.conn] = d.r.nonce]
  /\ phase' = Again /\ req' = NoRequest /\ waits' = 0
  /\ UNCHANGED <<pc, fate, cycle>>

Error(d) ==
  IF req.method = "ALLOCATE" /\ d.r.code = 437
    THEN /\ reopen_socket' = TRUE /\ phase' = "allocate" /\ req' = NoRequest /\ waits' = 0
         /\ UNCHANGED <<pc, fate, cycle, token, server>>
    ELSE /\ token' = IF req.method = "ALLOCATE" THEN 0 ELSE token
         /\ server' = IF req.method = "ALLOCATE" /\ d.r.code = 300 /\ Now.conn = "probe" THEN 2 ELSE server
         /\ Fail /\ UNCHANGED reopen_socket

Receive(d) ==
  /\ Running("receive") /\ d \in BagToSet(net) /\ d.to = "client" /\ d.sock = req.sock
  /\ net' = net (-) SetToBag({d})
  /\ IF ~Matches(d)
       THEN waits' = 0 /\ UNCHANGED <<pc, fate, phase, req, cycle, nonce, relay, token, allocate_rtcp, reopen_socket, server>>
       ELSE \/ d.r.kind = "success" /\ Success(d) /\ UNCHANGED <<nonce, reopen_socket, server>>
            \/ d.r.kind = "challenge" /\ Challenge(d) /\ UNCHANGED <<relay, token, allocate_rtcp, reopen_socket, server>>
            \/ d.r.kind = "error" /\ Error(d) /\ UNCHANGED <<nonce, relay, allocate_rtcp>>
  /\ UNCHANGED <<sock, chn, sockets, tids, faults, srv, free>>

-----------------------------------------------------------------------------
(* The server, as far as its clients see it.                                  *)
Answer(k) == [kind |-> k, nonce |-> 0, relay |-> 0, token |-> 0, code |-> 0]
Refuse(n) == [Answer("error") EXCEPT !.code = n]
Granted(s) == [Answer("success") EXCEPT !.relay = srv[s].relay, !.token = srv[s].token]

Reply(q, a) == net' = (net (-) SetToBag({q})) (+) SetToBag({[to |-> "client", sock |-> q.sock, tid |-> q.tid, method |-> q.method, r |-> a]})

Grant(q, s) ==
  /\ srv' = [srv EXCEPT ![s].tid = q.tid, ![s].relay = q.tid, ![s].token = IF q.r.even THEN q.tid ELSE 0]
  /\ free' = (free \cup (IF q.r.even THEN {q.tid} ELSE {})) \ {q.r.token}
  /\ Reply(q, [Answer("success") EXCEPT !.relay = q.tid, !.token = IF q.r.even THEN q.tid ELSE 0])

Serve(q) ==
  LET s == q.sock
      Deny(n) == Reply(q, Refuse(n)) /\ UNCHANGED <<srv, free>>
      Do(entry) == srv' = [srv EXCEPT ![s] = entry] /\ Reply(q, Answer("success")) /\ UNCHANGED free
      clash == \E b \in srv[s].bound : (b[1] = q.r.chn) # (b[2] = q.r.peer)
  IN /\ q \in BagToSet(net) /\ q.to = "server"
     /\ CASE q.r.nonce # srv[s].nonce ->
               Reply(q, [Answer("challenge") EXCEPT !.nonce = srv[s].nonce]) /\ UNCHANGED <<srv, free>>
          [] q.r.nonce = srv[s].nonce /\ q.method = "ALLOCATE" ->
               IF Redirect /\ sockets[s] = 1 THEN Deny(300)
               ELSE IF srv[s].tid = q.tid THEN Reply(q, Granted(s)) /\ UNCHANGED <<srv, free>>
               ELSE IF srv[s].tid # 0 THEN Deny(437)
               ELSE IF q.r.token # 0 /\ q.r.token \notin free THEN Deny(508)
               ELSE Grant(q, s)
          [] q.r.nonce = srv[s].nonce /\ q.method # "ALLOCATE" ->
               IF srv[s].tid = 0 THEN Deny(437)
               ELSE IF q.method = "CHANNEL_BIND"
                      THEN IF clash THEN Deny(400) ELSE Do([srv[s] EXCEPT !.bound = @ \cup {<<q.r.chn, q.r.peer>>}])
               ELSE IF q.method = "CREATE_PERMISSION" THEN Do([srv[s] EXCEPT !.peers = @ \cup {q.r.peer}])
               ELSE Do(srv[s])
     /\ UNCHANGED <<client, faults>>

(* Its nonces grow old.                                                       *)
Stale ==
  /\ stale < MaxStale /\ stale' = stale + 1
  /\ \E s \in DOMAIN srv : srv' = [srv EXCEPT ![s].nonce = @ + 1]
  /\ UNCHANGED <<client, net, lost, doubled, early, free>>

Lose == 
  /\ lost < MaxLost /\ lost' = lost + 1
  /\ \E d \in BagToSet(net) : net' = net (-) SetToBag({d})
  /\ UNCHANGED <<client, doubled, early, stale, srv, free>>

Double ==
  /\ doubled < MaxDouble /\ doubled' = doubled + 1
  /\ \E d \in BagToSet(net) : net' = net (+) SetToBag({d})
  /\ UNCHANGED <<client, lost, early, stale, srv, free>>

ClientStep == clnet_connect \/ fresh_channel \/ SendAllocate \/ SendRefresh \/ turn_channel_bind \/ turn_create_permission
AnyReceive == \E d \in BagToSet(net) : Receive(d)
AnyServe == \E q \in BagToSet(net) : Serve(q)

StartNext == ClientStep \/ AnyReceive \/ wait_fd \/ AnyServe \/ Stale \/ Lose \/ Double

(* The program runs on, its timeouts pass, the socket is read and the server  *)
(* answers what reaches it.                                                   *)
StartSpec == StartInit /\ [][StartNext]_startVars
FairStartSpec == StartSpec /\ WF_startVars(ClientStep) /\ WF_startVars(AnyReceive) /\ WF_startVars(wait_fd) /\ WF_startVars(AnyServe)

-----------------------------------------------------------------------------
(* The calls in the order of the script keep their shape.                     *)
StartTypeOK ==
  /\ pc \in 1 .. Len(Script) + 1 /\ fate \in {"running", "exit", "ready"}
  /\ phase \in {"begin", "allocate", "refresh", "receive"}
  /\ phase = "receive" /\ fate = "running" => req.tid = tids /\ req.sock = sock[Now.conn] /\ waits <= MaxWait
  /\ Len(srv) = Len(sockets) /\ \A c \in Conns : sock[c] \in 0 .. Len(sockets)

(* What the client holds done was done: a connection's relay address is that  *)
(* of its socket's allocation, and every channel and permission of the        *)
(* finished steps exists at the server.                                       *)
BelievedIsDone ==
  /\ \A c \in Conns : relay[c] # 0 => srv[sock[c]].relay = relay[c]
  /\ \A i \in 1 .. pc - 1 :
       LET st == Script[i]
       IN /\ st.call = "bind" /\ st.must => \E b \in srv[sock[st.conn]].bound : b[2] = Address(st.peer)
          /\ st.call = "permit" /\ st.must => Address(st.peer) \in srv[sock[st.conn]].peers
          /\ st.call = "allocate" /\ st.must => relay[st.conn] # 0

(* Allocations no connection of the client knows of.                          *)
Unclaimed == {s \in DOMAIN srv : srv[s].relay # 0 /\ \A c \in Conns : ~(sock[c] = s /\ relay[c] = srv[s].relay)}

(* An allocation is left behind unclaimed only when its nonce grew old        *)
(* between a request and its repetition; a call that is over leaves none.     *)
UnclaimedOnlyWhenStale ==
  /\ Cardinality(Unclaimed \ {req.sock}) <= stale
  /\ stale = 0 /\ phase = "begin" => Unclaimed = {}

(* The client exits only when an allocation was left behind, or when the      *)
(* number drawn for the peer was already its other peer's.                    *)
ExitsForCause ==
  fate = "exit" =>
    \/ Unclaimed # {}
    \/ Now.call = "bind" /\ \E b \in srv[sock[Now.conn]].bound : b[1] = chn[Now.slot] /\ b[2] # Address(Now.peer)

(* With no more losses than the waiting allows for, the client gets ready or  *)
(* exits.                                                                     *)
StartEnds == <>(fate # "running")
=============================================================================
