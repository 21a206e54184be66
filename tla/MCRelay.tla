------------------------------ MODULE MCRelay -------------------------------
(***************************************************************************)
(* What an allocation is made of, each part on small instances of its own: *)
(* the port pool, the relay sockets with their reservations, the           *)
(* permissions and channels of an allocation, its TCP connections, and the *)
(* sessions with their quotas, bandwidth and tickets. A behaviour here is  *)
(* a behaviour of one of them, which part names. They are extended: their  *)
(* constants are those of the configuration.                               *)
(***************************************************************************)
EXTENDS TurnPorts, TurnTcp, RelaySockets, TurnPeers, TurnSession, TLC

VARIABLE part   \* the instance this behaviour is of

portsVars == <<status, low, high, ports, held, evenLoop>>

vars == <<part, portsVars, tcpVars, relayVars, peersVars, sessionVars>>


(* Two peers are interchangeable, and so are x1 and x2, which are the data    *)
(* connections of a client, the relay threads, and the users with sessions.   *)
CONSTANTS peer1, peer2, x1, x2
RelaySymmetry == Permutations({peer1, peer2}) \cup Permutations({x1, x2})

(* One peer at a time sends: the buffers of a connection touch no other.      *)
Explored == Cardinality({t \in DOMAIN tcs : tcs[t].sent > 0}) <= 1

-----------------------------------------------------------------------------
(* A component that this behaviour does not run: its variables keep one value. *)
portsOff == low = Start /\ high = End + 1 /\ ports = [i \in Port |-> i]
            /\ status = [i \in Port |-> IF i \in PortRange THEN i ELSE TPS_OUT_OF_RANGE]
            /\ held = [i \in PortRange |-> 0] /\ evenLoop = Idle
tcpOff == TcpInit
relayOff == RelayInit
peersOff == PeersInit
sessionOff == SessionInit

(* The assumptions of the instances, evaluated by TLC.                        *)
ASSUME /\ RelayAssumption /\ PeersAssumption /\ TcpAssumption

-----------------------------------------------------------------------------
MCInit ==
  \/ part = "ports" /\ turnports_init /\ tcpOff /\ relayOff /\ peersOff /\ sessionOff
  \/ part = "relay" /\ RelayInit /\ portsOff /\ tcpOff /\ peersOff /\ sessionOff
  \/ part = "peers" /\ PeersInit /\ portsOff /\ tcpOff /\ relayOff /\ sessionOff
  \/ part = "tcp" /\ TcpInit /\ portsOff /\ relayOff /\ peersOff /\ sessionOff
  \/ part = "session" /\ SessionInit /\ portsOff /\ tcpOff /\ relayOff /\ peersOff

MCNext ==
  /\ UNCHANGED part
  /\ \/ part = "ports" /\ Next /\ UNCHANGED <<tcpVars, relayVars, peersVars, sessionVars>>
     \/ part = "relay" /\ RelayNext /\ UNCHANGED <<portsVars, tcpVars, peersVars, sessionVars>>
     \/ part = "peers" /\ PeersNext /\ UNCHANGED <<portsVars, tcpVars, relayVars, sessionVars>>
     \/ part = "tcp" /\ TcpNext /\ UNCHANGED <<portsVars, relayVars, peersVars, sessionVars>>
     \/ part = "session" /\ SessionNext /\ UNCHANGED <<portsVars, tcpVars, relayVars, peersVars>>

MCSpec == MCInit /\ [][MCNext]_vars

=============================================================================
