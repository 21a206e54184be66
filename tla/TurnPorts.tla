----------------------------- MODULE TurnPorts ------------------------------
(***************************************************************************)
(* The pool of relay ports of one address (turn_ports.c): a ring of ports  *)
(* with two counters that only grow, and for every port either its place   *)
(* in the ring or a mark that it is taken.  All operations hold the mutex  *)
(* of the pool; the loop of turnports_allocate_even holds it from its      *)
(* first step to its last, so the others wait while evenLoop is not Idle.  *)
(***************************************************************************)
EXTENDS Integers, FiniteSets

CONSTANTS
    PortsSize,      \* PORTS_SIZE, 0xFFFF + 1 in the code
    CounterSize,    \* 2^32: low, high and the places are uint32_t
    Start, End,     \* range_start and range_stop
    MaxHigh         \* bound of the model on the counter high

ASSUME TurnPortsAssumption ==
    /\ PortsSize \in Nat /\ CounterSize \in Nat /\ MaxHigh \in Nat
    /\ Start \in Nat /\ End \in Nat
    /\ Start <= End
    /\ End < PortsSize
    /\ End < MaxHigh /\ MaxHigh < CounterSize - 4

TPS_OUT_OF_RANGE == CounterSize - 1
TPS_TAKEN_SINGLE == CounterSize - 2
TPS_TAKEN_EVEN   == CounterSize - 3
TPS_TAKEN_ODD    == CounterSize - 4

Port == 0 .. PortsSize - 1
PortRange == Start .. End
Idle == [left |-> 0, rtcp |-> FALSE]

VARIABLES
    status,     \* Port -> place in the ring, or one of the four marks
    low, high,  \* the ring's entries are those at low .. high - 1
    ports,      \* the ring: position -> port
    held,       \* port -> how many callers were given it and have not released it
    evenLoop    \* Idle, or the rounds left of the loop and whether a pair is wanted

tpVars == <<status, low, high, ports, held, evenLoop>>

is_taken(s) == s \in {TPS_TAKEN_SINGLE, TPS_TAKEN_EVEN, TPS_TAKEN_ODD}

\* turnports_init writes the identity and turnports_randomize swaps entries of
\* the range, each time in both tables: any order, with status its inverse.
turnports_init ==
    /\ low = Start /\ high = End + 1
    /\ \E port, place \in [PortRange -> PortRange] :
         /\ \A i \in PortRange : place[port[i]] = i /\ port[place[i]] = i
         /\ ports = [i \in Port |-> IF i \in PortRange THEN port[i] ELSE i]
         /\ status = [p \in Port |-> IF p \in PortRange THEN place[p] ELSE TPS_OUT_OF_RANGE]
    /\ held = [p \in PortRange |-> 0] /\ evenLoop = Idle

\* mutant: one round too few
turnports_size_short == (high - low - 1) % PortsSize

turnports_size == (high - low) % PortsSize

turnports_is_available(p) ==
    /\ status[p] # TPS_OUT_OF_RANGE /\ ~is_taken(status[p])
    /\ ports[status[p] % PortsSize] = p

PortAt(pos) == ports[pos % PortsSize]

\* The entry at pos ends the search of turnports_allocate: with -1 when the port
\* is outside the range, with the port when it is free and this is its place.
Stops(pos) == PortAt(pos) \notin PortRange
Serves(pos) == ~is_taken(status[PortAt(pos)]) /\ status[PortAt(pos)] = pos
FirstStop(pos) ==
    /\ pos \in low .. high - 1
    /\ Stops(pos) \/ Serves(pos)
    /\ \A q \in low .. pos - 1 : ~(Stops(q) \/ Serves(q))

\* turnports_allocate as called by its two callers: the port is status[p] when it
\* finds one, and low moves past every entry that it skipped.
Allocates(pos) ==
    /\ FirstStop(pos) /\ ~Stops(pos)
    /\ low' = pos + 1
AllocateFails ==
    \/ \E pos \in low .. high - 1 : FirstStop(pos) /\ Stops(pos) /\ low' = pos
    \/ (\A pos \in low .. high - 1 : ~Stops(pos) /\ ~Serves(pos)) /\ low' = high

\* mutant: the status of the port is not set
turnports_allocate_unmarked ==
    /\ evenLoop.left = 0
    /\ \/ \E pos \in low .. high - 1 :
            Allocates(pos) /\ held' = [held EXCEPT ![PortAt(pos)] = @ + 1]
       \/ AllocateFails /\ UNCHANGED held
    /\ UNCHANGED <<status, high, ports, evenLoop>>

turnports_allocate ==
    /\ evenLoop.left = 0
    /\ \/ \E pos \in low .. high - 1 :
            /\ Allocates(pos)
            /\ status' = [status EXCEPT ![PortAt(pos)] = TPS_TAKEN_SINGLE]
            /\ held' = [held EXCEPT ![PortAt(pos)] = @ + 1]
       \/ AllocateFails /\ UNCHANGED <<status, held>>
    /\ UNCHANGED <<high, ports, evenLoop>>

\* The part of turnports_release under the mutex, on given tables.
ReleaseIn(st, p) ==
    IF p \in PortRange /\ is_taken(st[p])
    THEN /\ status' = [st EXCEPT ![p] = high]
         /\ ports' = [ports EXCEPT ![high % PortsSize] = p]
         /\ high' = high + 1
    ELSE status' = st /\ UNCHANGED <<ports, high>>

\* The holder of a port closes its socket.
turnports_release(p) ==
    /\ evenLoop.left = 0 /\ held[p] > 0 /\ high < MaxHigh
    /\ ReleaseIn(status, p)
    /\ held' = [held EXCEPT ![p] = @ - 1]
    /\ UNCHANGED <<low, evenLoop>>

\* turnports_allocate_even takes the mutex and reads the size once.
turnports_allocate_even(rtcp) ==
    /\ evenLoop.left = 0
    /\ turnports_size > 1
    /\ high + turnports_size <= MaxHigh
    /\ evenLoop' = [left |-> turnports_size, rtcp |-> rtcp]
    /\ UNCHANGED <<status, low, high, ports, held>>

EndOfRound ==
    evenLoop' = IF evenLoop.left = 1 THEN Idle ELSE [left |-> evenLoop.left - 1, rtcp |-> evenLoop.rtcp]

\* mutant: the neighbour is only compared with the end of the range
PairFitsAlways(p) == p + 1 <= End

\* A round that got a port: odd ports, and even ports whose neighbour cannot be
\* had, go back to the tail of the ring.
PairFits(p) == p + 1 <= End /\ turnports_is_available(p + 1)

EvenRound ==
    /\ evenLoop.left > 0
    /\ \E pos \in low .. high - 1 :
         /\ Allocates(pos)
         /\ LET p  == PortAt(pos)
                st == [status EXCEPT ![p] = TPS_TAKEN_SINGLE]
            IN  \/ /\ p % 2 = 1 \/ (evenLoop.rtcp /\ ~PairFits(p))
                   /\ ReleaseIn(st, p) /\ EndOfRound
                   /\ UNCHANGED held
                \/ /\ p % 2 = 0 /\ ~evenLoop.rtcp
                   /\ status' = st /\ held' = [held EXCEPT ![p] = @ + 1]
                   /\ evenLoop' = Idle /\ UNCHANGED <<ports, high>>
                \/ /\ p % 2 = 0 /\ evenLoop.rtcp /\ PairFits(p)
                   /\ status' = [st EXCEPT ![p] = TPS_TAKEN_EVEN, ![p + 1] = TPS_TAKEN_ODD]
                   /\ held' = [held EXCEPT ![p] = @ + 1, ![p + 1] = @ + 1]
                   /\ evenLoop' = Idle /\ UNCHANGED <<ports, high>>

\* A round that got none: the result -1 is odd, and (uint16_t)(-1) is released.
EvenRoundFails ==
    /\ evenLoop.left > 0
    /\ AllocateFails
    /\ ReleaseIn(status, PortsSize - 1) /\ EndOfRound
    /\ UNCHANGED held

Next ==
    \/ turnports_allocate
    \/ \E p \in PortRange : turnports_release(p)
    \/ \E rtcp \in BOOLEAN : turnports_allocate_even(rtcp)
    \/ EvenRound
    \/ EvenRoundFails

Spec == turnports_init /\ [][Next]_tpVars

-----------------------------------------------------------------------------
TurnPortsTypeOK ==
    /\ low \in Nat /\ high \in Nat /\ low <= high
    /\ status \in [Port -> 0 .. CounterSize - 1]
    /\ ports \in [Port -> Port]
    /\ held \in [PortRange -> Nat]
    /\ evenLoop \in [left : 0 .. PortsSize, rtcp : BOOLEAN]

\* A port has one holder at most, and it is marked as taken while it has one, so
\* that neither allocation nor the release inside the search for an even port
\* can give it to another.
HeldIsTaken == \A p \in PortRange : held[p] = IF is_taken(status[p]) THEN 1 ELSE 0

\* No port is lost: one that nobody holds is in the ring between the two
\* counters, at the place its status says.
FreeIsInRing ==
    \A p \in PortRange :
        held[p] = 0 => status[p] \in low .. high - 1 /\ PortAt(status[p]) = p

\* The pool neither gives a port twice nor loses one, through turnports_allocate,
\* turnports_allocate_even and turnports_release in any order.
PoolSound == TurnPortsTypeOK /\ HeldIsTaken /\ FreeIsInRing

\* The loop of turnports_allocate_even gives up only when there is nothing to
\* find: no free even port, or no free pair when a pair was asked for.
Findable(rtcp) == \E p \in PortRange :
    p % 2 = 0 /\ held[p] = 0 /\ (rtcp => p + 1 \in PortRange /\ held[p + 1] = 0)
SearchIsComplete ==
    [][evenLoop.left > 0 /\ evenLoop'.left = 0 /\ held' = held => ~Findable(evenLoop.rtcp)]_tpVars

\* The pool gives and takes ports as the abstract pool does: no port twice.
Pool == INSTANCE PortPool
PoolGivesEachPortOnce == Pool!PoolSpec
=============================================================================
