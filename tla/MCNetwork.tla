----------------------------- MODULE MCNetwork ------------------------------
(***************************************************************************)
(* The parts of the TURN server and of its tools that face the network,    *)
(* each on small instances of its own: a message and its attributes, the   *)
(* stream that carries messages, the pump between two TCP connections, the *)
(* UDP listener, and the NAT discovery tool. They share no state in the    *)
(* code, so a behaviour here is a behaviour of one of them, which part     *)
(* names. UdpListener, StunStream and TcpPump are extended: their          *)
(* constants are those of the configuration.                               *)
(***************************************************************************)
EXTENDS UdpListener, StunStream, TcpPump

VARIABLE part   \* the instance this behaviour is of

VARIABLES buf, added, signed, calls, wire, changes, seen
VARIABLES nat, net, lost, pc, cli

msgVars == <<buf, added, signed, calls, wire, changes, seen>>
natVars == <<nat, net, lost, pc, cli>>

vars == <<part, listenerVars, msgVars, streamVars, pumpVars, natVars>>


(* What the clients of a stream send: a request with and without attributes,  *)
(* channel data that needs no padding, a little and much, an HTTP request.    *)
Sent(kind, data) == [kind |-> kind, data |-> data]
AllKinds == {Sent("stun", 0), Sent("stun", 8), Sent("channel", 0), Sent("channel", 5),
             Sent("channel", 7), Sent("http", 6)}
Short == {Sent("stun", 0), Sent("channel", 1)}

(* A plain connection that carries every kind of message, one behind a proxy  *)
(* with the binary header, both in pieces; one over TLS and one behind a      *)
(* proxy with the text header, whose first bytes come together.               *)
Connection(client, sends, fragments) == [client |-> client, sends |-> sends, fragments |-> fragments]
Streams == {Connection("plain", AllKinds, TRUE), Connection("proxy2", Short, TRUE),
            Connection("tls", Short, FALSE), Connection("proxy1", Short, FALSE)}

(* How the listener is run: on one socket, without and with system calls that *)
(* fail, and with a socket for each client, DTLS only, with such calls.       *)
Run(each, noUdp, fail) == [SocketEach |-> each, no_udp |-> noUdp, Failures |-> fail]
Runs == {Run(FALSE, FALSE, FALSE), Run(FALSE, FALSE, TRUE), Run(TRUE, TRUE, TRUE)}

-----------------------------------------------------------------------------
(* Messages of up to three attributes, up to the limit of the size, that arrive unchanged. *)
Build == INSTANCE StunMsg WITH Class <- {"request"}, Method <- {1, 3}, AttrLen <- {0, 5, 8},
  Key <- {"k1"}, MAX_STUN_MESSAGE_SIZE <- 97, MaxAttr <- 3, MaxChange <- 0

(* Messages of up to two attributes, one word of which is changed on the way. *)
Changed == INSTANCE StunMsg WITH Class <- {"request"}, Method <- {3}, AttrLen <- {0, 5},
  Key <- {"k1", "k2"}, MAX_STUN_MESSAGE_SIZE <- 120, MaxAttr <- 2, MaxChange <- 1

(* Every class with methods on both sides of every bit group of the type. *)
Types == INSTANCE StunMsg WITH Class <- {"request", "indication", "success", "error"},
  Method <- {0, 1, 2, 3, 4, 6, 7, 8, 9, 10, 15, 16, 31, 32, 63, 64, 112, 127, 128, 255, 896, 1023, 1024, 3072, 2048, 4095},
  AttrLen <- {}, Key <- {"k1"}, MAX_STUN_MESSAGE_SIZE <- 24, MaxAttr <- 0, MaxChange <- 0

(* A server of two addresses of each family, without losses. *)
Discovery == INSTANCE NatDiscovery WITH Listener <- <<6, 4, 6, 4>>, Family <- 4,
  Asked <- {2}, Tests <- {"t", "H", "m", "f", "c"}, Padding <- FALSE, Losses <- 0,
  Kind <- {"independent", "address", "address_port"}

(* A component that this behaviour does not run: its variables keep one value. *)
udpOff == ListenerInit /\ opt = Run(FALSE, FALSE, FALSE)
msgOff == buf = 0 /\ added = 0 /\ signed = 0 /\ calls = 0 /\ wire = 0 /\ changes = 0
          /\ seen = 0
streamOff == StreamInit /\ how = Connection("plain", AllKinds, TRUE)
pumpOff == PumpInit
natOff == nat = 0 /\ net = 0 /\ lost = 0 /\ pc = 0 /\ cli = 0

(* The assumptions of the instances, evaluated by TLC.                        *)
ASSUME /\ Build!MsgAssumption /\ Changed!MsgAssumption /\ Types!MsgAssumption
       /\ StreamAssumption /\ MessagesFit /\ PumpAssumption /\ ListenerAssumption /\ Discovery!NatAssumption

-----------------------------------------------------------------------------
MCInit ==
  \/ part = "build" /\ Build!MsgInit /\ udpOff /\ streamOff /\ pumpOff /\ natOff
  \/ part = "changed" /\ Changed!MsgInit /\ udpOff /\ streamOff /\ pumpOff /\ natOff
  \/ part = "types" /\ Types!MsgInit /\ udpOff /\ streamOff /\ pumpOff /\ natOff
  \/ part = "stream" /\ StreamInit /\ udpOff /\ msgOff /\ pumpOff /\ natOff
  \/ part = "pump" /\ PumpInit /\ udpOff /\ msgOff /\ streamOff /\ natOff
  \/ part = "udp" /\ ListenerInit /\ msgOff /\ streamOff /\ pumpOff /\ natOff
  \/ part = "nat" /\ Discovery!NatInit /\ udpOff /\ msgOff /\ streamOff /\ pumpOff

MCNext ==
  /\ UNCHANGED part
  /\ \/ part = "build" /\ Build!MsgNext /\ UNCHANGED <<listenerVars, streamVars, pumpVars,
          natVars>>
     \/ part = "changed" /\ Changed!MsgNext /\ UNCHANGED <<listenerVars, streamVars, pumpVars,
          natVars>>
     \/ part = "types" /\ Types!MsgNext /\ UNCHANGED <<listenerVars, streamVars, pumpVars,
          natVars>>
     \/ part = "stream" /\ StreamNext /\ UNCHANGED <<listenerVars, msgVars, pumpVars, natVars>>
     \/ part = "pump" /\ PumpNext /\ UNCHANGED <<listenerVars, msgVars, streamVars,
          natVars>>
     \/ part = "udp" /\ ListenerNext /\ UNCHANGED <<msgVars, streamVars, pumpVars, natVars>>
     \/ part = "nat" /\ Discovery!NatNext /\ UNCHANGED <<listenerVars, msgVars, streamVars,
          pumpVars>>

MCSpec == MCInit /\ [][MCNext]_vars

-----------------------------------------------------------------------------
(* A message is read as it was built and accepted, and a message changed on   *)
(* the way is never taken for intact: the loops over its attributes stay in   *)
(* it, a fingerprint or digest that is accepted was made over what is read,   *)
(* the check writes the length back on every path, and class and method are   *)
(* read back (ns_turn_msg.c).                                                 *)
MessageReadAsBuilt ==
  /\ part = "build" => Build!MsgTypeOK
  /\ part = "build" => Build!ReadsWhatWasAdded
  /\ part = "build" => Build!UnchangedIsAccepted
  /\ part = "changed" => Changed!WalkInBounds
  /\ part = "changed" => Changed!FingerprintIsRight
  /\ part = "changed" => Changed!IntegrityIsAuthentic
  /\ part = "changed" => Changed!CheckRestores
  /\ part = "types" => Types!MethodAndClass

(* What the tool prints about mapping and filtering is what the NAT does, and *)
(* it answers both questions when it is asked both (main of natdiscovery.c).  *)
NatRight ==
  /\ part = "nat" => Discovery!NatTypeOK
  /\ part = "nat" => Discovery!MappingRight
  /\ part = "nat" => Discovery!FilteringRight
  /\ part = "nat" => Discovery!SaysEverything
=============================================================================
