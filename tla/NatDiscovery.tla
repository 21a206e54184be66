---------------------------- MODULE NatDiscovery ----------------------------
(* turnutils_natdiscovery asks a STUN server, through a NAT, from which        *)
(* addresses it is seen and reached, and names the kind of the NAT.  The       *)
(* client runs its tests one after the other, each on a socket of its own on   *)
(* the same local port; the server answers BINDING, also from its other        *)
(* address and port (RFC 5780); the NAT maps and filters.  A packet may be     *)
(* lost.                                                                       *)
EXTENDS Integers, Sequences, FiniteSets, SequencesExt, FiniteSetsExt

CONSTANTS
  Listener,    \* families of the listening addresses, in their order
  Family,      \* family that the client uses
  Asked,       \* listening addresses that the client may be told to ask
  Tests,       \* subset of {"t", "H", "m", "f", "c"}: the flags it is called with
  Padding,     \* -P
  Losses,      \* bound: packets that get lost
  Kind         \* what a NAT may do

NatAssumption ==
  /\ Listener \in Seq({4, 6}) /\ \A i \in Asked : i \in DOMAIN Listener /\ Listener[i] = Family
  /\ Tests \subseteq {"t", "H", "m", "f", "c"} /\ Losses \in Nat /\ Padding \in BOOLEAN
  /\ Kind \subseteq {"independent", "address", "address_port"}

VARIABLES
  nat,     \* external: its kind and the packets it has let out, in their order
  net,     \* packets on their way back
  lost,    \* packets lost so far
  pc,      \* where main() is: the test and its step
  cli      \* the client's variables, see NatInit

natVars == <<nat, net, lost, pc, cli>>

-----------------------------------------------------------------------------
(* The server.  Addresses are <<index of the listening address, 1 or 2>>: the  *)
(* listening port and the alternative one.                                     *)
NoAddr == <<0, 0>>
Rfc5780 == Len(Listener) >= 2

(* Mutant: the alternative address keeps the port.                             *)
get_alt_addr_port(a) ==
  LET n == Len(Listener)
      index == SelectInSeq(Listener, LAMBDA f : f = Listener[a[1]])
      same == {i \in 1..n : Listener[1 + ((index + i - 1) % n)] = Listener[a[1]]}
  IN  IF ~Rfc5780 THEN NoAddr ELSE <<1 + ((index + Min(same) - 1) % n), a[2]>>

(* The other port, and the address after the first one of the family - not the *)
(* one after the address that was asked; with one address it is that address.  *)
get_alt_addr(a) ==
  LET n == Len(Listener)
      index == SelectInSeq(Listener, LAMBDA f : f = Listener[a[1]])
      same == {i \in 1..n : Listener[1 + ((index + i - 1) % n)] = Listener[a[1]]}
  IN  IF ~Rfc5780 THEN NoAddr ELSE <<1 + ((index + Min(same) - 1) % n), 3 - a[2]>>

(* Attributes that are refused: a change without RFC 5780, and padding         *)
(* together with a response port.                                              *)
Refused(q) == ((q.change_ip \/ q.change_port) /\ ~Rfc5780) \/ (q.padding /\ q.response_port # 0)

(* The answer to a request that reached address a from the external port e:    *)
(* where it comes from, the port it goes to, and what it says.                 *)
handle_turn_binding(a, e, q) ==
  LET other == get_alt_addr(a)
      origin == IF other = NoAddr THEN a
                ELSE <<IF q.change_ip THEN other[1] ELSE a[1], IF q.change_port THEN other[2] ELSE a[2]>>
  IN  IF Refused(q)
      THEN [kind |-> "error", from |-> a, to |-> e, mapped |-> 0, other |-> NoAddr]
      ELSE [kind |-> "success", from |-> origin, mapped |-> e, other |-> other,
            to |-> IF other # NoAddr /\ q.response_port # 0 THEN q.response_port ELSE e]

(* An answer from another address is sent by the listener that has it.         *)
udp_services == [k \in 0..(2 * Len(Listener) - 1) |-> <<1 + (k \div 2), 1 + (k % 2)>>]

listener_receive_message(origin) == \E k \in DOMAIN udp_services : udp_services[k] = origin

-----------------------------------------------------------------------------
(* The NAT.  External ports are numbers from 11; without a NAT the local ports *)
(* 1, 2, ... are seen.  A mapping is made by the first packet of its key.      *)
MapKey(lp, dst) ==
  CASE nat.mapping = "independent"  -> <<lp, 0, 0>>
    [] nat.mapping = "address"      -> <<lp, dst[1], 0>>
    [] nat.mapping = "address_port" -> <<lp, dst[1], dst[2]>>

Keys(out) == [i \in DOMAIN out |-> out[i].key]
ExternalOf(out, key) == IF ~nat.present THEN key[1] ELSE 10 + SelectInSeq(Keys(out), LAMBDA k : k = key)

(* A packet that comes in finds its mapping and has to pass the filter.        *)
PassesFilter(p) ==
  \E i \in DOMAIN nat.out :
     /\ ExternalOf(nat.out, nat.out[i].key) = p.to
     /\ \/ nat.filtering = "independent"
        \/ nat.filtering = "address" /\ nat.out[i].dst[1] = p.from[1]
        \/ nat.out[i].dst = p.from

LocalPort(to) == LET i == CHOOSE i \in DOMAIN nat.out : ExternalOf(nat.out, nat.out[i].key) = to
                 IN  nat.out[i].key[1]

-----------------------------------------------------------------------------
(* The client.                                                                 *)
Order == <<"t", "H", "m", "f", "c">>

(* The next test after t that is asked for; "done" after the last.             *)
NextTest(k) == LET later == {j \in k..5 : Order[j] \in Tests}
               IN  IF later = {} THEN "done" ELSE Order[Min(later)]
Position(t) == IF t = "start" THEN 0 ELSE SelectInSeq(Order, LAMBDA o : o = t)

NoRequest == [change_ip |-> FALSE, change_port |-> FALSE, padding |-> Padding, response_port |-> 0]

NatInit ==
  /\ \E mp \in Kind, ft \in Kind, present \in BOOLEAN :
       nat = [present |-> present, mapping |-> IF present THEN mp ELSE "independent", filtering |-> ft, out |-> <<>>]
  /\ net = {} /\ lost = 0
  /\ pc = [test |-> NextTest(1), step |-> 1, waits |-> FALSE]
  /\ cli \in [server : {<<i, 1>> : i \in Asked}, remote_addr : {NoAddr}, local : {1}, second : {0},
              reflexive : {0}, tmp : {0}, other : {NoAddr}, rfc5780 : {FALSE}, ret : {0}, verdict : {{}},
              open : {{}}]

(* init(): a new local port, the server that was asked for.                    *)
Fresh == [cli EXCEPT !.local = 2 * Position(pc.test) - 1, !.second = 2 * Position(pc.test),
                     !.rfc5780 = FALSE, !.remote_addr = cli.server]

(* Where step k of a test sends, from which port, and what it asks.  A test    *)
(* starts at the server; mapping goes on to the other address, first with the  *)
(* port of the server, then with its own.                                      *)
Target(c) ==
  CASE pc.test = "m" /\ pc.step = 2 -> <<c.other[1], c.server[2]>>
    [] pc.test = "m" /\ pc.step = 3 -> c.other
    [] OTHER -> c.remote_addr

Asks(c) ==
  CASE pc.test = "f" /\ pc.step = 2 -> [NoRequest EXCEPT !.change_ip = TRUE, !.change_port = TRUE]
    [] pc.test = "f" /\ pc.step = 3 -> [NoRequest EXCEPT !.change_port = TRUE]
    [] pc.test = "t" /\ pc.step = 2 -> [NoRequest EXCEPT !.response_port = c.reflexive]
    [] OTHER -> NoRequest

SendsFrom(c) == IF pc.step = 2 /\ pc.test \in {"t", "H", "c"} THEN c.second ELSE c.local

(* The hairpin test sends its second request to its own external port.         *)
Hairpin == pc.test = "H" /\ pc.step = 2

stunclient_send ==
  LET c == IF pc.step = 1 THEN Fresh ELSE cli
      lp == SendsFrom(c)
      dst == IF Hairpin THEN <<0, c.reflexive>> ELSE Target(c)
      out == Append(nat.out, [key |-> MapKey(lp, dst), dst |-> dst])
      e == ExternalOf(out, MapKey(lp, dst))
      p == IF Hairpin THEN [kind |-> "request", from |-> <<0, e>>, to |-> c.reflexive, mapped |-> 0, other |-> NoAddr]
           ELSE handle_turn_binding(dst, e, Asks(c))
  IN  /\ pc.test # "done" /\ ~pc.waits
      /\ pc' = [pc EXCEPT !.waits = TRUE]
      /\ nat' = [nat EXCEPT !.out = out]
      /\ cli' = [c EXCEPT !.open = @ \cup {lp}, !.tmp = IF pc.test = "m" /\ pc.step > 1 THEN c.reflexive ELSE @]
      /\ \/ /\ p.kind = "request" \/ listener_receive_message(p.from)
            /\ net' = net \cup {p} /\ UNCHANGED lost
         \/ /\ lost < Losses
            /\ lost' = lost + 1 /\ UNCHANGED net

-----------------------------------------------------------------------------
(* main() after a test step has come back with cli.ret.                        *)
Verdicts(c) ==
  CASE pc.test = "m" /\ pc.step = 1 -> IF c.reflexive = c.local THEN {"no_nat"} ELSE {}
    [] pc.test = "m" /\ pc.step = 2 -> IF c.tmp = c.reflexive THEN {"map_independent"} ELSE {}
    [] pc.test = "m" /\ pc.step = 3 -> IF c.tmp = c.reflexive THEN {"map_address"} ELSE {"map_address_port"}
    [] pc.test = "f" /\ pc.step = 1 -> IF c.reflexive = c.local THEN {"no_nat"} ELSE {}
    [] pc.test = "f" /\ pc.step = 2 -> IF c.ret = 0 THEN {"filter_independent"} ELSE {}
    [] pc.test = "f" /\ pc.step = 3 -> IF c.ret = 0 THEN {"filter_address"} ELSE {"filter_address_port"}
    [] OTHER -> {}

Goes_on(c) ==
  CASE pc.test \in {"m", "f"} /\ pc.step = 1 -> c.rfc5780 /\ c.other # NoAddr
    [] pc.test \in {"m", "f"} /\ pc.step = 2 -> Verdicts(c) = {}
    [] pc.test \in {"t", "H", "c"} -> pc.step = 1
    [] OTHER -> FALSE

(* The sockets of a test that has two stay open until it ends.                 *)
main(c) ==
  /\ pc' = IF Goes_on(c) THEN [test |-> pc.test, step |-> pc.step + 1, waits |-> FALSE]
           ELSE [test |-> NextTest(Position(pc.test) + 1), step |-> 1, waits |-> FALSE]
  /\ cli' = [c EXCEPT !.verdict = @ \cup Verdicts(c),
                      !.open = IF pc.test \in {"t", "H"} /\ pc.step = 1 THEN @ ELSE {}]

(* What comes in is read by the socket of its port, whichever request it       *)
(* answers: transaction ids are not compared.  The second socket of the        *)
(* lifetime test is not read at all.                                           *)
stunclient_receive(p) ==
  /\ p \in net /\ net' = net \ {p}
  /\ IF pc.waits /\ PassesFilter(p) /\ LocalPort(p.to) \in cli.open
        /\ ~(pc.test = "t" /\ LocalPort(p.to) = cli.second)
     THEN main([cli EXCEPT !.ret = 0,
                           !.reflexive = IF p.kind = "success" THEN p.mapped ELSE @,
                           !.rfc5780 = @ \/ p.other # NoAddr,
                           !.other = IF p.other # NoAddr THEN p.other ELSE @])
     ELSE UNCHANGED <<pc, cli>>
  /\ UNCHANGED <<nat, lost>>

(* Three seconds without a packet; what the last answers said is left as it is.*)
STUN_receive_timeout ==
  /\ pc.waits /\ net = {}
  /\ main([cli EXCEPT !.ret = 1])
  /\ UNCHANGED <<nat, net, lost>>

NatNext ==
  \/ stunclient_send
  \/ \E p \in net : stunclient_receive(p)
  \/ STUN_receive_timeout

NatSpec == NatInit /\ [][NatNext]_natVars /\ WF_natVars(NatNext)

-----------------------------------------------------------------------------
(* Addresses and ports are of the server, the client or the NAT.               *)
NatTypeOK ==
  /\ pc.test \in {"t", "H", "m", "f", "c", "done"} /\ pc.step \in 1..3
  /\ cli.other \in {NoAddr} \cup ((1..Len(Listener)) \X {1, 2})
  /\ cli.reflexive \in Nat /\ cli.open \subseteq 1..10

(* What main() prints about the mapping is what the NAT does.                  *)
MappingRight ==
  /\ "map_independent" \in cli.verdict => nat.mapping = "independent"
  /\ "map_address" \in cli.verdict => nat.mapping = "address"
  /\ "map_address_port" \in cli.verdict => nat.mapping = "address_port"
  /\ "no_nat" \in cli.verdict => ~nat.present

(* What main() prints about the filtering is what the NAT does.                *)
FilteringRight ==
  /\ "filter_independent" \in cli.verdict => nat.filtering = "independent"
  /\ "filter_address" \in cli.verdict => nat.filtering = "address"
  /\ "filter_address_port" \in cli.verdict => nat.filtering = "address_port"

(* A tool that is asked about mapping and filtering says which they are.       *)
SaysEverything ==
  pc.test = "done" /\ lost = 0 =>
     /\ "m" \in Tests => cli.verdict \cap {"map_independent", "map_address", "map_address_port"} # {}
     /\ "f" \in Tests => cli.verdict \cap {"filter_independent", "filter_address", "filter_address_port"} # {}

(* The server offers CHANGE_REQUEST, by an OTHER-ADDRESS, only to a client     *)
(* that asks one of several listening addresses of its family.                 *)
(* The code does not keep this (README).                                       *)
OtherNeedsTwo ==
  cli.rfc5780 => Cardinality({i \in DOMAIN Listener : Listener[i] = Family}) > 1

(* All tests end, whatever is lost (the receive timeout of 3 seconds).         *)
DiscoveryEnds == <>(pc.test = "done")
=============================================================================
