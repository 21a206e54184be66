---------------------------- MODULE RelayProofs -----------------------------
(* The theorems about what an allocation is made of, for every value of the   *)
(* constants: the port pool, the TCP connections, the relay sockets with      *)
(* their reservations, the map of the channels, and the permissions and       *)
(* channels with their timers.                                                *)
EXTENDS TurnPorts, TurnTcp, RelaySockets, LmMap, TurnPeers, FiniteSetTheorems, SequenceTheorems,
        WellFoundedInduction, TLAPS

-----------------------------------------------------------------------------
(* For every size of the ring and every range of ports that ends below the    *)
(* last port number: no port is given to two holders. When the ring also has  *)
(* room for the entries that pairs leave behind, no port is lost, and the     *)
(* search for an even port gives up only when there is none.                  *)

\* What the induction needs beside the types: the counters stay below the marks.
CountersBounded ==
    /\ high <= MaxHigh
    /\ high + evenLoop.left <= MaxHigh

PortsInv == TurnPortsTypeOK /\ CountersBounded /\ HeldIsTaken

\* A place of the ring is never one of the three marks of a taken port.
LEMMA PlaceIsNotTaken ==
    ASSUME NEW n \in Nat, n <= MaxHigh
    PROVE  n \in 0 .. CounterSize - 1 /\ ~is_taken(n)
BY TurnPortsAssumption DEF is_taken, TPS_TAKEN_SINGLE, TPS_TAKEN_EVEN, TPS_TAKEN_ODD

\* The marks are values of a status, and those of taken ports are taken.
LEMMA MarksAreTaken ==
    /\ \A s \in {TPS_TAKEN_SINGLE, TPS_TAKEN_EVEN, TPS_TAKEN_ODD} :
         is_taken(s) /\ s \in 0 .. CounterSize - 1
    /\ ~is_taken(TPS_OUT_OF_RANGE) /\ TPS_OUT_OF_RANGE \in 0 .. CounterSize - 1
BY TurnPortsAssumption
DEF is_taken, TPS_TAKEN_SINGLE, TPS_TAKEN_EVEN, TPS_TAKEN_ODD, TPS_OUT_OF_RANGE

\* The range lies inside the ports, and the remainder of a place is a position.
LEMMA RangeIsPorts == PortRange \subseteq Port /\ \A n \in Nat : n % PortsSize \in Port
BY TurnPortsAssumption DEF PortRange, Port

\* The pool starts with every port of the range free.
LEMMA InitHolds == turnports_init => PortsInv
<1> SUFFICES ASSUME turnports_init PROVE PortsInv
  OBVIOUS
<1>1. PICK port \in [PortRange -> PortRange], place \in [PortRange -> PortRange] :
        /\ ports = [i \in Port |-> IF i \in PortRange THEN port[i] ELSE i]
        /\ status = [p \in Port |-> IF p \in PortRange THEN place[p] ELSE TPS_OUT_OF_RANGE]
  BY DEF turnports_init
<1>2. ports \in [Port -> Port]
  BY <1>1, RangeIsPorts
<1>3. \A p \in PortRange : place[p] \in Nat /\ place[p] <= MaxHigh
  <2>1. \A r \in PortRange : r \in Nat /\ r <= MaxHigh
    BY TurnPortsAssumption DEF PortRange
  <2> QED BY <2>1
<1>4. \A p \in PortRange : status[p] = place[p]
  BY <1>1, RangeIsPorts
<1>5. status \in [Port -> 0 .. CounterSize - 1]
  BY <1>1, <1>3, PlaceIsNotTaken, MarksAreTaken
<1>6. HeldIsTaken
  BY <1>3, <1>4, PlaceIsNotTaken DEF HeldIsTaken, turnports_init
<1>7. TurnPortsTypeOK /\ CountersBounded
  BY <1>2, <1>5, TurnPortsAssumption DEF TurnPortsTypeOK, CountersBounded, turnports_init, Idle
<1> QED BY <1>6, <1>7 DEF PortsInv

\* Releasing a port of the range that is taken frees it and touches no other.
LEMMA ReleaseFrees ==
    ASSUME PortsInv, NEW st \in [Port -> 0 .. CounterSize - 1], NEW p \in PortRange,
           is_taken(st[p]), ReleaseIn(st, p)
    PROVE  /\ status' \in [Port -> 0 .. CounterSize - 1]
           /\ ports' \in [Port -> Port]
           /\ high' = high + 1
           /\ ~is_taken(status'[p])
           /\ \A q \in PortRange : q # p => status'[q] = st[q]
<1>1. high \in Nat /\ high <= MaxHigh /\ ports \in [Port -> Port]
  BY DEF PortsInv, TurnPortsTypeOK, CountersBounded
<1>2. high \in 0 .. CounterSize - 1 /\ ~is_taken(high)
  BY <1>1, PlaceIsNotTaken
<1>3. p \in Port /\ high % PortsSize \in Port
  BY <1>1, RangeIsPorts
<1>4. /\ status' = [st EXCEPT ![p] = high]
      /\ ports' = [ports EXCEPT ![high % PortsSize] = p]
      /\ high' = high + 1
  BY DEF ReleaseIn
<1> QED BY <1>1, <1>2, <1>3, <1>4, RangeIsPorts

\* What turnports_allocate finds is a port of the range that nobody holds.
LEMMA AllocatedIsFree ==
    ASSUME PortsInv, NEW pos \in low .. high - 1, Allocates(pos)
    PROVE  /\ PortAt(pos) \in PortRange /\ held[PortAt(pos)] = 0
           /\ low' \in Nat /\ low' <= high
BY DEF Allocates, FirstStop, Stops, Serves, PortsInv, HeldIsTaken, TurnPortsTypeOK

\* A failed search moves low only.
LEMMA FailKeepsLow == ASSUME PortsInv, AllocateFails PROVE low' \in Nat /\ low' <= high
BY DEF AllocateFails, PortsInv, TurnPortsTypeOK

\* The rounds left go down by one.
LEMMA RoundEnds ==
    ASSUME PortsInv, evenLoop.left > 0, EndOfRound
    PROVE  /\ evenLoop' \in [left : 0 .. PortsSize, rtcp : BOOLEAN]
           /\ evenLoop'.left = evenLoop.left - 1
<1>1. evenLoop \in [left : 0 .. PortsSize, rtcp : BOOLEAN]
  BY DEF PortsInv, TurnPortsTypeOK
<1> QED BY <1>1, TurnPortsAssumption DEF EndOfRound, Idle

\* turnports_allocate keeps the invariant.
LEMMA AllocateStep == PortsInv /\ turnports_allocate => PortsInv'
<1> SUFFICES ASSUME PortsInv, turnports_allocate PROVE PortsInv'
  OBVIOUS
<1>1. CASE \E pos \in low .. high - 1 :
             /\ Allocates(pos)
             /\ status' = [status EXCEPT ![PortAt(pos)] = TPS_TAKEN_SINGLE]
             /\ held' = [held EXCEPT ![PortAt(pos)] = @ + 1]
  <2>1. PICK pos \in low .. high - 1 :
             /\ Allocates(pos)
             /\ status' = [status EXCEPT ![PortAt(pos)] = TPS_TAKEN_SINGLE]
             /\ held' = [held EXCEPT ![PortAt(pos)] = @ + 1]
    BY <1>1
  <2>2. PortAt(pos) \in PortRange /\ held[PortAt(pos)] = 0 /\ low' \in Nat /\ low' <= high
    BY <2>1, AllocatedIsFree
  <2>3. TurnPortsTypeOK'
    BY <2>1, <2>2, MarksAreTaken, RangeIsPorts DEF turnports_allocate, PortsInv, TurnPortsTypeOK
  <2>4. HeldIsTaken'
    BY <2>1, <2>2, MarksAreTaken, RangeIsPorts DEF PortsInv, TurnPortsTypeOK, HeldIsTaken
  <2> QED BY <2>3, <2>4 DEF turnports_allocate, PortsInv, CountersBounded
<1>2. CASE AllocateFails /\ UNCHANGED <<status, held>>
  BY <1>2, FailKeepsLow
  DEF turnports_allocate, PortsInv, TurnPortsTypeOK, HeldIsTaken, CountersBounded
<1> QED BY <1>1, <1>2 DEF turnports_allocate

\* The release by the holder keeps the invariant.
LEMMA ReleaseStep == ASSUME NEW p \in PortRange, PortsInv, turnports_release(p) PROVE PortsInv'
<1>1. is_taken(status[p]) /\ held[p] = 1 /\ status \in [Port -> 0 .. CounterSize - 1]
  BY DEF turnports_release, PortsInv, TurnPortsTypeOK, HeldIsTaken
<1>2. /\ status' \in [Port -> 0 .. CounterSize - 1] /\ ports' \in [Port -> Port]
      /\ high' = high + 1 /\ ~is_taken(status'[p])
      /\ \A q \in PortRange : q # p => status'[q] = status[q]
  BY <1>1, ReleaseFrees DEF turnports_release
<1>3. HeldIsTaken'
  BY <1>1, <1>2 DEF turnports_release, PortsInv, TurnPortsTypeOK, HeldIsTaken
<1>4. CountersBounded'
  BY <1>2, TurnPortsAssumption DEF turnports_release, PortsInv, TurnPortsTypeOK, CountersBounded
<1>5. TurnPortsTypeOK'
  BY <1>1, <1>2 DEF turnports_release, PortsInv, TurnPortsTypeOK
<1> QED BY <1>3, <1>4, <1>5 DEF PortsInv

\* Entering the loop keeps the invariant.
LEMMA EvenStep ==
    ASSUME NEW rtcp \in BOOLEAN, PortsInv, turnports_allocate_even(rtcp) PROVE PortsInv'
<1>1. high - low \in Int /\ PortsSize \in Nat /\ PortsSize > 0 /\ high \in Nat
  BY TurnPortsAssumption DEF PortsInv, TurnPortsTypeOK
<1>2. turnports_size \in 0 .. PortsSize
  BY <1>1 DEF turnports_size
<1> QED BY <1>1, <1>2
    DEF turnports_allocate_even, PortsInv, TurnPortsTypeOK, HeldIsTaken, CountersBounded

\* A round that got a port keeps the invariant.
LEMMA EvenRoundStep == PortsInv /\ EvenRound => PortsInv'
<1> SUFFICES ASSUME PortsInv, EvenRound PROVE PortsInv'
  OBVIOUS
<1>1. PICK pos \in low .. high - 1 :
         /\ Allocates(pos)
         /\ LET p  == PortAt(pos)
                st == [status EXCEPT ![p] = TPS_TAKEN_SINGLE]
            IN  \/ /\ p % 2 = 1 \/ (evenLoop.rtcp /\ ~PairFits(p))
                   /\ ReleaseIn(st, p) /\ EndOfRound
                   /\ UNCHANGED held
                \/ /\ p % 2 = 0 /\ ~evenLoop.rtcp
                   /\ status' = st /\ held' = [held EXCEPT ![p] = @ + 1]
                   /\ evenLoop' = Idle /\ UNCHANGED <<ports, high>>
                \/ /\ p % 2 = 0 /\ evenLoop.rtcp /\ PairFits(p)
                   /\ status' = [st EXCEPT ![p] = TPS_TAKEN_EVEN, ![p + 1] = TPS_TAKEN_ODD]
                   /\ held' = [held EXCEPT ![p] = @ + 1, ![p + 1] = @ + 1]
                   /\ evenLoop' = Idle /\ UNCHANGED <<ports, high>>
  BY DEF EvenRound
<1> DEFINE p == PortAt(pos)
           st == [status EXCEPT ![p] = TPS_TAKEN_SINGLE]
<1>2. p \in PortRange /\ held[p] = 0 /\ low' \in Nat /\ low' <= high /\ p \in Port
  BY <1>1, AllocatedIsFree, RangeIsPorts
<1>3. st \in [Port -> 0 .. CounterSize - 1] /\ is_taken(st[p])
  BY <1>2, MarksAreTaken DEF PortsInv, TurnPortsTypeOK
<1>4. \A q \in PortRange : q # p => st[q] = status[q]
  BY <1>2, RangeIsPorts DEF PortsInv, TurnPortsTypeOK
<1>5. evenLoop \in [left : 0 .. PortsSize, rtcp : BOOLEAN] /\ evenLoop.left > 0
      /\ high \in Nat /\ high + evenLoop.left <= MaxHigh /\ held \in [PortRange -> Nat]
      /\ ports \in [Port -> Port]
  BY DEF EvenRound, PortsInv, TurnPortsTypeOK, CountersBounded
<1>6. Idle \in [left : 0 .. PortsSize, rtcp : BOOLEAN] /\ Idle.left = 0
  BY TurnPortsAssumption DEF Idle
<1> HIDE DEF p, st
<1>7. CASE ReleaseIn(st, p) /\ EndOfRound /\ UNCHANGED held
  <2>1. /\ status' \in [Port -> 0 .. CounterSize - 1] /\ ports' \in [Port -> Port]
        /\ high' = high + 1 /\ ~is_taken(status'[p])
        /\ \A q \in PortRange : q # p => status'[q] = st[q]
    BY <1>2, <1>3, <1>7, ReleaseFrees
  <2>2. evenLoop' \in [left : 0 .. PortsSize, rtcp : BOOLEAN]
        /\ evenLoop'.left = evenLoop.left - 1
    BY <1>5, <1>7, RoundEnds
  <2>3. HeldIsTaken'
    BY <1>2, <1>4, <1>7, <2>1 DEF PortsInv, HeldIsTaken
  <2>4. TurnPortsTypeOK'
    BY <1>2, <1>5, <1>7, <2>1, <2>2 DEF TurnPortsTypeOK
  <2>5. CountersBounded'
    BY <1>5, <2>1, <2>2, TurnPortsAssumption DEF CountersBounded
  <2> QED BY <2>3, <2>4, <2>5 DEF PortsInv
<1>8. CASE status' = st /\ held' = [held EXCEPT ![p] = @ + 1] /\ evenLoop' = Idle /\ UNCHANGED <<ports, high>>
  <2>1. HeldIsTaken'
    BY <1>2, <1>3, <1>4, <1>5, <1>8 DEF PortsInv, HeldIsTaken
  <2>2. TurnPortsTypeOK'
    BY <1>2, <1>3, <1>5, <1>6, <1>8 DEF TurnPortsTypeOK
  <2>3. CountersBounded'
    BY <1>5, <1>6, <1>8, TurnPortsAssumption DEF CountersBounded
  <2> QED BY <2>1, <2>2, <2>3 DEF PortsInv
<1>9. CASE /\ PairFits(p)
           /\ status' = [st EXCEPT ![p] = TPS_TAKEN_EVEN, ![p + 1] = TPS_TAKEN_ODD]
           /\ held' = [held EXCEPT ![p] = @ + 1, ![p + 1] = @ + 1] /\ evenLoop' = Idle /\ UNCHANGED <<ports, high>>
  <2>1. p + 1 \in PortRange /\ p + 1 # p /\ p + 1 \in Port
    BY <1>2, <1>9, RangeIsPorts, TurnPortsAssumption DEF PairFits, PortRange
  <2>2. status' \in [Port -> 0 .. CounterSize - 1]
    BY <1>2, <1>3, <1>9, <2>1, MarksAreTaken
  <2>3. is_taken(status'[p]) /\ is_taken(status'[p + 1])
    BY <1>2, <1>3, <1>9, <2>1, MarksAreTaken
  <2>4. \A q \in PortRange : q # p /\ q # p + 1 => status'[q] = st[q]
    BY <1>2, <1>3, <1>9, <2>1, RangeIsPorts
  <2>5. HeldIsTaken'
    <3>1. held[p + 1] = 0
      BY <1>9, <2>1 DEF PairFits, turnports_is_available, PortsInv, HeldIsTaken
    <3>2. held' \in [PortRange -> Nat] /\ held'[p] = 1 /\ held'[p + 1] = 1
          /\ \A q \in PortRange : q # p /\ q # p + 1 => held'[q] = held[q]
      BY <1>2, <1>5, <1>9, <2>1, <3>1
    <3> QED BY <1>4, <2>3, <2>4, <3>2 DEF PortsInv, HeldIsTaken
  <2>6. TurnPortsTypeOK'
    BY <1>2, <1>5, <1>6, <1>9, <2>1, <2>2 DEF TurnPortsTypeOK
  <2>7. CountersBounded'
    BY <1>5, <1>6, <1>9, TurnPortsAssumption DEF CountersBounded
  <2> QED BY <2>5, <2>6, <2>7 DEF PortsInv
<1> QED BY <1>1, <1>7, <1>8, <1>9 DEF p, st

\* A round without a port releases the last port number, which is not in the range.
LEMMA EvenRoundFailsStep ==
    ASSUME End < PortsSize - 1, PortsInv, EvenRoundFails PROVE PortsInv'
<1>1. PortsSize - 1 \notin PortRange
  BY TurnPortsAssumption DEF PortRange
<1>2. UNCHANGED <<status, ports, high, held>> /\ low' \in Nat /\ low' <= high
  BY <1>1, FailKeepsLow DEF EvenRoundFails, ReleaseIn
<1>3. /\ evenLoop' \in [left : 0 .. PortsSize, rtcp : BOOLEAN]
      /\ evenLoop'.left = evenLoop.left - 1
  BY RoundEnds DEF EvenRoundFails
<1>4. CountersBounded'
  BY <1>2, <1>3, TurnPortsAssumption DEF PortsInv, TurnPortsTypeOK, CountersBounded
<1> QED BY <1>2, <1>3, <1>4 DEF PortsInv, TurnPortsTypeOK, HeldIsTaken

\* Every step keeps the invariant when the last port number is out of range.
LEMMA PortsInvInductive ==
    ASSUME End < PortsSize - 1 PROVE PortsInv /\ [Next]_tpVars => PortsInv'
<1> SUFFICES ASSUME PortsInv, [Next]_tpVars PROVE PortsInv'
  OBVIOUS
<1>1. CASE UNCHANGED tpVars
  BY <1>1 DEF tpVars, PortsInv, TurnPortsTypeOK, HeldIsTaken, CountersBounded
<1> QED BY <1>1, AllocateStep, ReleaseStep, EvenStep, EvenRoundStep, EvenRoundFailsStep DEF Next

\* Types hold in every run of the pool whose range ends below the last port.
THEOREM PortsTypeCorrect ==
    ASSUME End < PortsSize - 1 PROVE Spec => []TurnPortsTypeOK
<1>1. PortsInv => TurnPortsTypeOK
  BY DEF PortsInv
<1> QED BY <1>1, InitHolds, PortsInvInductive, PTL DEF Spec

\* A held port is taken and a taken port is held, in every run of such a pool.
THEOREM HeldAlwaysTaken ==
    ASSUME End < PortsSize - 1 PROVE Spec => []HeldIsTaken
<1>1. PortsInv => HeldIsTaken
  BY DEF PortsInv
<1> QED BY <1>1, InitHolds, PortsInvInductive, PTL DEF Spec

\* turn_ports.c implements the abstract pool: each step gives a port, a pair, takes
\* a port back, or changes nothing that a holder can see.
THEOREM PoolImplemented ==
    ASSUME End < PortsSize - 1 PROVE Spec => PoolGivesEachPortOnce
<1>1. turnports_init => Pool!PoolInit
  BY DEF turnports_init, Pool!PoolInit, Pool!Range, PortRange
<1>2. PortsInv /\ [Next]_tpVars => [Pool!PoolNext]_held
  <2> SUFFICES ASSUME PortsInv, [Next]_tpVars, held' # held PROVE Pool!PoolNext
    OBVIOUS
  <2>1. CASE turnports_allocate
    <3>1. PICK pos \in low .. high - 1 : Allocates(pos) /\ held' = [held EXCEPT ![PortAt(pos)] = @ + 1]
      BY <2>1 DEF turnports_allocate
    <3>2. PortAt(pos) \in PortRange /\ held[PortAt(pos)] = 0
      BY <3>1, AllocatedIsFree
    <3>3. Pool!TakePort(PortAt(pos))
      BY <3>1, <3>2 DEF Pool!TakePort, PortsInv, TurnPortsTypeOK
    <3> QED BY <3>2, <3>3 DEF Pool!PoolNext, Pool!Range, PortRange
  <2>2. CASE \E p \in PortRange : turnports_release(p)
    <3>1. PICK p \in PortRange : turnports_release(p)
      BY <2>2
    <3>2. held[p] = 1 /\ held[p] - 1 = 0
      BY <3>1 DEF turnports_release, PortsInv, HeldIsTaken
    <3>3. held' = [held EXCEPT ![p] = 0]
      BY <3>1, <3>2 DEF turnports_release
    <3> QED BY <3>2, <3>3 DEF Pool!PoolNext, Pool!GiveBack, Pool!Range, PortRange
  <2>3. CASE EvenRound
    <3>1. PICK pos \in low .. high - 1 :
            /\ Allocates(pos)
            /\ \/ held' = [held EXCEPT ![PortAt(pos)] = @ + 1]
               \/ /\ PortAt(pos) % 2 = 0 /\ PairFits(PortAt(pos))
                  /\ held' = [held EXCEPT ![PortAt(pos)] = @ + 1, ![PortAt(pos) + 1] = @ + 1]
      BY <2>3 DEF EvenRound
    <3> DEFINE p == PortAt(pos)
    <3>2. p \in PortRange /\ held[p] = 0
      BY <3>1, AllocatedIsFree
    <3>3. CASE held' = [held EXCEPT ![p] = @ + 1]
      <4>1. Pool!TakePort(p)
        BY <3>2, <3>3 DEF Pool!TakePort, PortsInv, TurnPortsTypeOK
      <4> QED BY <3>2, <4>1 DEF Pool!PoolNext, Pool!Range, PortRange
    <3>4. CASE p % 2 = 0 /\ PairFits(p) /\ held' = [held EXCEPT ![p] = @ + 1, ![p + 1] = @ + 1]
      <4>1. p + 1 \in PortRange /\ ~is_taken(status[p + 1])
        BY <3>2, <3>4, TurnPortsAssumption DEF PairFits, turnports_is_available, PortRange
      <4>2. held[p + 1] = 0
        BY <4>1 DEF PortsInv, HeldIsTaken
      <4>3. p + 1 # p
        BY <3>2, TurnPortsAssumption DEF PortRange
      <4>4. held' = [held EXCEPT ![p] = 1, ![p + 1] = 1]
        BY <3>2, <3>4, <4>1, <4>2, <4>3 DEF PortsInv, TurnPortsTypeOK
      <4>5. Pool!TakePair(p)
        BY <3>2, <3>4, <4>1, <4>2, <4>4 DEF Pool!TakePair, Pool!IsEven, Pool!Range, PortRange
      <4> QED BY <3>2, <4>5 DEF Pool!PoolNext, Pool!Range, PortRange
    <3> QED BY <3>1, <3>3, <3>4
  <2> QED BY <2>1, <2>2, <2>3 DEF Next, EvenRoundFails, turnports_allocate_even, tpVars
<1> QED BY <1>1, <1>2, InitHolds, PortsInvInductive, PTL
    DEF Spec, PoolGivesEachPortOnce, Pool!PoolSpec

-----------------------------------------------------------------------------
\* No port is lost.  An entry of the ring is stale when its port has another
\* place or is taken.  Only the second port of a pair leaves a stale entry (it
\* is taken where it stands), and its first port, which was at the head then,
\* comes back behind that entry; so a port has at most one stale entry.
Seconds == {p \in PortRange : p % 2 = 1 /\ p - 1 \in PortRange}

\* The ring has a position for every port of the range and for every stale entry.
RingHasRoom == Cardinality(PortRange) + Cardinality(Seconds) <= PortsSize

\* Of the entries at lo .. hi - 1 of the ring pt: are they ports, is each free
\* port among them, which of them are stale and how many of a port.
Stale(pt, st, q) == st[pt[q % PortsSize]] # q
EntriesInRange(lo, hi, pt) == \A q \in lo .. hi - 1 : pt[q % PortsSize] \in PortRange
FreeHavePlace(lo, hi, pt, st) ==
    \A p \in PortRange : ~is_taken(st[p]) => st[p] \in lo .. hi - 1 /\ pt[st[p] % PortsSize] = p
StaleIsSecond(lo, hi, pt, st) ==
    \A q \in lo .. hi - 1 : Stale(pt, st, q) => pt[q % PortsSize] \in Seconds
StaleIsAhead(lo, hi, pt, st) ==
    \A q \in lo .. hi - 1, p \in PortRange :
        Stale(pt, st, q) /\ pt[q % PortsSize] = p + 1 /\ ~is_taken(st[p]) => q < st[p]
OneStaleEach(lo, hi, pt, st) ==
    \A q, r \in lo .. hi - 1 :
        Stale(pt, st, q) /\ Stale(pt, st, r) /\ pt[q % PortsSize] = pt[r % PortsSize] => q = r
RingOf(lo, hi, pt, st) ==
    /\ EntriesInRange(lo, hi, pt) /\ FreeHavePlace(lo, hi, pt, st)
    /\ StaleIsSecond(lo, hi, pt, st) /\ StaleIsAhead(lo, hi, pt, st) /\ OneStaleEach(lo, hi, pt, st)

\* Two places less than a ring apart are different positions of it.
LEMMA PositionsApart ==
    ASSUME NEW a \in Nat, NEW b \in Nat, a < b, b - a < PortsSize
    PROVE  a % PortsSize # b % PortsSize
<1>1. PortsSize \in Nat /\ PortsSize > 0
  BY TurnPortsAssumption
<1>2. /\ a = PortsSize * (a \div PortsSize) + (a % PortsSize)
      /\ b = PortsSize * (b \div PortsSize) + (b % PortsSize)
      /\ a \div PortsSize \in Int /\ b \div PortsSize \in Int
  BY <1>1
<1> DEFINE k == b \div PortsSize - a \div PortsSize
<1>3. k \in Int
  BY <1>2
<1>4. a % PortsSize = b % PortsSize => b - a = PortsSize * k
  BY <1>1, <1>2
<1> HIDE DEF k
<1>5. PortsSize * k > 0 => k >= 1
  BY <1>1, <1>3
<1>6. k >= 1 => PortsSize * k >= PortsSize
  BY <1>1, <1>3
<1> QED BY <1>1, <1>3, <1>4, <1>5, <1>6

\* The entries at lo .. hi - 1 are at most the ports, but for a p that is taken or
\* no port at all, and one stale entry for every second port.
LEMMA RingCount ==
    ASSUME NEW lo \in Nat, NEW hi \in Nat, lo <= hi, hi <= MaxHigh,
           NEW pt \in [Port -> Port], NEW st \in [Port -> 0 .. CounterSize - 1],
           RingOf(lo, hi, pt, st), NEW p, p \in PortRange => is_taken(st[p])
    PROVE  /\ hi - lo <= Cardinality(PortRange \ {p}) + Cardinality(Seconds)
           /\ IsFiniteSet(PortRange) /\ IsFiniteSet(Seconds)
<1> DEFINE V == {q \in lo .. hi - 1 : ~Stale(pt, st, q)}
           W == {q \in lo .. hi - 1 : Stale(pt, st, q)}
<1>1. IsFiniteSet(lo .. hi - 1) /\ Cardinality(lo .. hi - 1) = hi - lo
  <2> DEFINE b == hi - 1
  <2>1. lo \in Int /\ b \in Int
    OBVIOUS
  <2>2. (IF lo > b THEN 0 ELSE b - lo + 1) = hi - lo
    OBVIOUS
  <2> HIDE DEF b
  <2>3. IsFiniteSet(lo .. b) /\ Cardinality(lo .. b) = hi - lo
    BY <2>1, <2>2, FS_Interval
  <2> QED BY <2>3 DEF b
<1>2. IsFiniteSet(PortRange) /\ IsFiniteSet(Seconds)
  <2>1. IsFiniteSet(PortRange)
    <3>1. Start \in Int /\ End \in Int
      BY TurnPortsAssumption
    <3> QED BY <3>1, FS_Interval DEF PortRange
  <2>2. Seconds \in SUBSET PortRange
    BY DEF Seconds
  <2> QED BY <2>1, <2>2, FS_Subset
<1>3. IsFiniteSet(V) /\ IsFiniteSet(W)
  <2>1. V \in SUBSET (lo .. hi - 1) /\ W \in SUBSET (lo .. hi - 1)
    OBVIOUS
  <2> QED BY <1>1, <2>1, FS_Subset
<1>4. \A q \in lo .. hi - 1 : q % PortsSize \in Port /\ pt[q % PortsSize] \in PortRange
  BY RangeIsPorts DEF RingOf, EntriesInRange
<1>5. Cardinality(W) <= Cardinality(Seconds)
  <2> SUFFICES ASSUME Cardinality(Seconds) < Cardinality(W) PROVE FALSE
    BY <1>2, <1>3, FS_CardinalityType
  <2> DEFINE f == [q \in W |-> pt[q % PortsSize]]
  <2>1. \A q \in W : pt[q % PortsSize] \in Seconds
    BY DEF RingOf, StaleIsSecond
  <2>2. PICK x \in W, y \in W : x # y /\ f[x] = f[y]
    <3>1. f \in [W -> Seconds]
      BY <2>1
    <3> HIDE DEF f, W
    <3> QED BY <1>2, <1>3, <3>1, FS_PigeonHole
  <2> QED BY <2>2 DEF RingOf, OneStaleEach
<1>6. IsFiniteSet(PortRange \ {p}) /\ Cardinality(V) <= Cardinality(PortRange \ {p})
  <2>1. IsFiniteSet(PortRange \ {p})
    BY <1>2, FS_RemoveElement
  <2> SUFFICES ASSUME Cardinality(PortRange \ {p}) < Cardinality(V) PROVE FALSE
    BY <1>3, <2>1, FS_CardinalityType
  <2> DEFINE f == [q \in V |-> pt[q % PortsSize]]
  <2>2. f \in [V -> PortRange \ {p}]
    <3>1. \A q \in lo .. hi - 1 : ~is_taken(q)
      <4>1. \A q \in lo .. hi - 1 : q \in Nat /\ q <= MaxHigh
        BY TurnPortsAssumption
      <4> QED BY <4>1, PlaceIsNotTaken
    <3>2. \A q \in V : st[pt[q % PortsSize]] = q
      BY DEF Stale
    <3> QED BY <1>4, <3>1, <3>2
  <2>3. PICK x \in V, y \in V : x # y /\ f[x] = f[y]
    <3> HIDE DEF f, V
    <3> QED BY <1>3, <2>1, <2>2, FS_PigeonHole
  <2> QED BY <2>3 DEF Stale
<1>7. hi - lo = Cardinality(V) + Cardinality(W)
  <2>1. V \cup W = lo .. hi - 1 /\ V \cap W = {}
    OBVIOUS
  <2> HIDE DEF V, W
  <2>2. Cardinality(V \cup W) = Cardinality(V) + Cardinality(W) - Cardinality(V \cap W)
    BY <1>3, FS_Union
  <2>3. Cardinality(V \cap W) = 0
    BY <2>1, FS_EmptySet
  <2>4. Cardinality(V) \in Nat /\ Cardinality(W) \in Nat
    BY <1>3, FS_CardinalityType
  <2>5. Cardinality(V \cup W) = hi - lo
    BY <1>1, <2>1, Zenon
  <2> QED BY <2>2, <2>3, <2>4, <2>5
<1> HIDE DEF V, W
<1> QED BY <1>2, <1>3, <1>5, <1>6, <1>7, FS_CardinalityType

\* A ring without a place of p has a position left.
LEMMA RingFits ==
    ASSUME RingHasRoom, NEW lo \in Nat, NEW hi \in Nat, lo <= hi, hi <= MaxHigh,
           NEW pt \in [Port -> Port], NEW st \in [Port -> 0 .. CounterSize - 1],
           RingOf(lo, hi, pt, st), NEW p \in PortRange, is_taken(st[p])
    PROVE  hi - lo < PortsSize
<1>1. /\ hi - lo <= Cardinality(PortRange \ {p}) + Cardinality(Seconds)
      /\ IsFiniteSet(PortRange) /\ IsFiniteSet(Seconds)
  BY RingCount
<1>2. Cardinality(PortRange \ {p}) = Cardinality(PortRange) - 1
  BY <1>1, FS_RemoveElement
<1> QED BY <1>1, <1>2, FS_CardinalityType, TurnPortsAssumption DEF RingHasRoom

\* No ring is longer than its positions.
LEMMA RingLength ==
    ASSUME RingHasRoom, End < PortsSize - 1, NEW lo \in Nat, NEW hi \in Nat, lo <= hi, hi <= MaxHigh,
           NEW pt \in [Port -> Port], NEW st \in [Port -> 0 .. CounterSize - 1],
           RingOf(lo, hi, pt, st)
    PROVE  hi - lo <= PortsSize
<1> DEFINE p == PortsSize - 1
<1>1. p \notin PortRange
  BY TurnPortsAssumption DEF PortRange
<1> HIDE DEF p
<1>2. /\ hi - lo <= Cardinality(PortRange \ {p}) + Cardinality(Seconds)
      /\ IsFiniteSet(PortRange) /\ IsFiniteSet(Seconds)
  BY <1>1, RingCount
<1>3. Cardinality(PortRange \ {p}) = Cardinality(PortRange)
  BY <1>1, <1>2, FS_RemoveElement
<1> QED BY <1>2, <1>3, FS_CardinalityType, TurnPortsAssumption DEF RingHasRoom

\* turnports_release puts a taken port at the tail and overwrites no entry.
LEMMA RingPush ==
    ASSUME RingHasRoom, NEW lo \in Nat, NEW hi \in Nat, lo <= hi, hi <= MaxHigh,
           NEW pt \in [Port -> Port], NEW st \in [Port -> 0 .. CounterSize - 1],
           RingOf(lo, hi, pt, st), NEW p \in PortRange, is_taken(st[p])
    PROVE  RingOf(lo, hi + 1, [pt EXCEPT ![hi % PortsSize] = p], [st EXCEPT ![p] = hi])
<1> DEFINE pt2 == [pt EXCEPT ![hi % PortsSize] = p]
           st2 == [st EXCEPT ![p] = hi]
<1>1. hi - lo < PortsSize
  BY RingFits
<1>2. \A q \in lo .. hi - 1 : q \in Nat /\ q <= MaxHigh /\ q < hi /\ hi - q < PortsSize
  BY <1>1, TurnPortsAssumption
<1>3. \A q \in lo .. hi - 1 : pt2[q % PortsSize] = pt[q % PortsSize]
  BY <1>2, PositionsApart, RangeIsPorts
<1>4. pt2[hi % PortsSize] = p /\ st2[p] = hi /\ \A x \in PortRange : x # p => st2[x] = st[x]
  BY RangeIsPorts
<1>5. \A q \in lo .. hi - 1 : st[p] # q
  BY <1>2, PlaceIsNotTaken
<1>6. \A q \in lo .. hi : q = hi \/ q \in lo .. hi - 1
  OBVIOUS
<1>7. \A q \in lo .. hi - 1 : pt[q % PortsSize] \in PortRange
  BY DEF RingOf, EntriesInRange
<1> HIDE DEF pt2, st2
<1>8. \A q \in lo .. hi : Stale(pt2, st2, q) => q \in lo .. hi - 1 /\ Stale(pt, st, q)
  BY <1>3, <1>4, <1>5, <1>6, <1>7 DEF Stale
<1>9. EntriesInRange(lo, hi + 1, pt2)
  BY <1>3, <1>4, <1>6, <1>7 DEF EntriesInRange
<1>10. FreeHavePlace(lo, hi + 1, pt2, st2)
  <2> SUFFICES ASSUME NEW x \in PortRange, ~is_taken(st2[x])
               PROVE  st2[x] \in lo .. hi /\ pt2[st2[x] % PortsSize] = x
    BY DEF FreeHavePlace
  <2>1. CASE x = p
    BY <1>4, <2>1
  <2>2. CASE x # p
    <3>1. st[x] \in lo .. hi - 1 /\ pt[st[x] % PortsSize] = x /\ st2[x] = st[x]
      BY <1>4, <2>2 DEF RingOf, FreeHavePlace
    <3> QED BY <1>3, <3>1
  <2> QED BY <2>1, <2>2
<1>11. StaleIsSecond(lo, hi + 1, pt2, st2)
  BY <1>3, <1>8 DEF RingOf, StaleIsSecond
<1>12. StaleIsAhead(lo, hi + 1, pt2, st2)
  <2> SUFFICES ASSUME NEW q \in lo .. hi, NEW x \in PortRange,
                      Stale(pt2, st2, q), pt2[q % PortsSize] = x + 1, ~is_taken(st2[x])
               PROVE  q < st2[x]
    BY DEF StaleIsAhead
  <2>1. q \in lo .. hi - 1 /\ Stale(pt, st, q) /\ pt[q % PortsSize] = x + 1
    BY <1>3, <1>8
  <2>2. x = p => q < st2[x]
    BY <1>4, <2>1
  <2>3. x # p => q < st[x] /\ st2[x] = st[x]
    BY <1>4, <2>1 DEF RingOf, StaleIsAhead
  <2> QED BY <2>2, <2>3
<1>13. OneStaleEach(lo, hi + 1, pt2, st2)
  BY <1>3, <1>8 DEF RingOf, OneStaleEach
<1> QED BY <1>9, <1>10, <1>11, <1>12, <1>13 DEF RingOf, pt2, st2

\* turnports_allocate takes the free port p from its place and drops the entries
\* before it, none of which is the place of a free port; st2 marks p, and with it
\* p + 1 when the two are taken as a pair.
LEMMA RingPop ==
    ASSUME NEW lo \in Nat, NEW hi \in Nat, lo <= hi, hi <= MaxHigh,
           NEW pt \in [Port -> Port], NEW st \in [Port -> 0 .. CounterSize - 1],
           RingOf(lo, hi, pt, st), NEW pos \in lo .. hi - 1, NEW p \in PortRange,
           p = pt[pos % PortsSize], st[p] = pos,
           \A q \in lo .. pos - 1 : Stale(pt, st, q) \/ is_taken(st[pt[q % PortsSize]]),
           NEW st2 \in [Port -> 0 .. CounterSize - 1], is_taken(st2[p]),
           \/ \A x \in PortRange : x # p => st2[x] = st[x]
           \/ /\ p % 2 = 0 /\ p + 1 \in PortRange /\ ~is_taken(st[p + 1]) /\ is_taken(st2[p + 1])
              /\ \A x \in PortRange : x # p /\ x # p + 1 => st2[x] = st[x]
    PROVE  RingOf(pos + 1, hi, pt, st2)
<1>1. /\ \A q \in lo .. hi - 1 : pt[q % PortsSize] \in PortRange
      /\ pos \in Nat /\ lo <= pos /\ pos < hi /\ p \in Nat
  BY TurnPortsAssumption DEF RingOf, EntriesInRange, PortRange
<1>2. \A q \in pos + 1 .. hi - 1 : q \in lo .. hi - 1 /\ q # pos /\ q > pos
  BY <1>1
<1>3. ~is_taken(st[p])
  <2>1. pos <= MaxHigh
    BY <1>1, TurnPortsAssumption
  <2> QED BY <1>1, <2>1, PlaceIsNotTaken
<1>4. \A x \in PortRange : ~is_taken(st2[x]) => st2[x] = st[x] /\ x # p /\ ~is_taken(st[x])
  OBVIOUS
<1>5. EntriesInRange(pos + 1, hi, pt)
  BY <1>1, <1>2 DEF EntriesInRange
<1>6. FreeHavePlace(pos + 1, hi, pt, st2)
  <2> SUFFICES ASSUME NEW x \in PortRange, ~is_taken(st2[x])
               PROVE  st2[x] \in pos + 1 .. hi - 1 /\ pt[st2[x] % PortsSize] = x
    BY DEF FreeHavePlace
  <2>1. st2[x] = st[x] /\ x # p /\ ~is_taken(st[x])
    BY <1>4
  <2>2. st[x] \in lo .. hi - 1 /\ pt[st[x] % PortsSize] = x
    BY <2>1 DEF RingOf, FreeHavePlace
  <2>3. st[x] # pos
    BY <2>1, <2>2
  <2>4. st[x] \notin lo .. pos - 1
    BY <2>1, <2>2 DEF Stale
  <2> QED BY <1>1, <2>1, <2>2, <2>3, <2>4
\* What is stale behind pos was stale before, or is the place of the pair's second.
<1>7. \A q \in pos + 1 .. hi - 1 : Stale(pt, st2, q) =>
         \/ Stale(pt, st, q)
         \/ pt[q % PortsSize] = p + 1 /\ p + 1 \in Seconds /\ is_taken(st2[p + 1]) /\ q = st[p + 1]
  <2> SUFFICES ASSUME NEW q \in pos + 1 .. hi - 1, Stale(pt, st2, q), ~Stale(pt, st, q)
               PROVE  pt[q % PortsSize] = p + 1 /\ p + 1 \in Seconds /\ is_taken(st2[p + 1])
                      /\ q = st[p + 1]
    OBVIOUS
  <2>1. pt[q % PortsSize] \in PortRange /\ st[pt[q % PortsSize]] = q /\ st2[pt[q % PortsSize]] # q
    BY <1>1, <1>2 DEF Stale
  <2>2. pt[q % PortsSize] # p
    BY <1>2, <2>1
  <2>3. /\ p % 2 = 0 /\ p + 1 \in PortRange /\ is_taken(st2[p + 1])
        /\ pt[q % PortsSize] = p + 1
    BY <2>1, <2>2
  <2>4. p + 1 \in Seconds
    <3>1. (p + 1) % 2 = 1 /\ (p + 1) - 1 = p
      BY <1>1, <2>3
    <3> QED BY <2>3, <3>1 DEF Seconds
  <2> QED BY <2>1, <2>3, <2>4
\* When p + 1 is taken where it stands, it had no stale entry behind pos.
<1>8. \A q \in pos + 1 .. hi - 1 : Stale(pt, st, q) => pt[q % PortsSize] # p + 1
  BY <1>1, <1>2, <1>3 DEF RingOf, StaleIsAhead
<1>9. StaleIsSecond(pos + 1, hi, pt, st2)
  BY <1>2, <1>7 DEF RingOf, StaleIsSecond
<1>10. StaleIsAhead(pos + 1, hi, pt, st2)
  <2> SUFFICES ASSUME NEW q \in pos + 1 .. hi - 1, NEW x \in PortRange,
                      Stale(pt, st2, q), pt[q % PortsSize] = x + 1, ~is_taken(st2[x])
               PROVE  q < st2[x]
    BY DEF StaleIsAhead
  <2>1. st2[x] = st[x] /\ x # p /\ ~is_taken(st[x])
    BY <1>4
  <2>2. x + 1 # p + 1
    BY <2>1, TurnPortsAssumption DEF PortRange
  <2>3. Stale(pt, st, q)
    BY <1>7, <2>2
  <2> QED BY <1>2, <2>1, <2>3 DEF RingOf, StaleIsAhead
<1>11. OneStaleEach(pos + 1, hi, pt, st2)
  BY <1>2, <1>7, <1>8 DEF RingOf, OneStaleEach
<1> QED BY <1>5, <1>6, <1>9, <1>10, <1>11 DEF RingOf

\* What the search of turnports_allocate_even looks for, and how far it has come:
\* with n rounds left, each free port it wants is among the next n entries.
Wanted(p, rtcp) == p % 2 = 0 /\ held[p] = 0 /\ (rtcp => p + 1 \in PortRange /\ held[p + 1] = 0)
SearchCovers ==
    evenLoop.left > 0 =>
        \A p \in PortRange : Wanted(p, evenLoop.rtcp) => status[p] < low + evenLoop.left
Ring == RingOf(low, high, ports, status)
RingInv == PortsInv /\ Ring /\ SearchCovers

\* The ring holds the types that the lemmas about it ask for.
LEMMA RingTypes ==
    ASSUME PortsInv
    PROVE  /\ low \in Nat /\ high \in Nat /\ low <= high /\ high <= MaxHigh
           /\ ports \in [Port -> Port] /\ status \in [Port -> 0 .. CounterSize - 1]
           /\ held \in [PortRange -> Nat]
           /\ evenLoop \in [left : 0 .. PortsSize, rtcp : BOOLEAN]
           /\ \A p \in PortRange : held[p] = 0 <=> ~is_taken(status[p])
BY DEF PortsInv, TurnPortsTypeOK, CountersBounded, HeldIsTaken

\* What is below the size is its own remainder.
LEMMA SmallRemainder ==
    ASSUME NEW n \in Nat, n < PortsSize PROVE n % PortsSize = n
<1>1. PortsSize \in Nat /\ PortsSize > 0
  BY TurnPortsAssumption
<1> QED BY <1>1

\* At the start every entry is the place of its port.
LEMMA RingInit == turnports_init => Ring /\ SearchCovers
<1> SUFFICES ASSUME turnports_init PROVE Ring /\ SearchCovers
  OBVIOUS
<1>1. PICK port \in [PortRange -> PortRange], place \in [PortRange -> PortRange] :
        /\ \A i \in PortRange : place[port[i]] = i /\ port[place[i]] = i
        /\ ports = [i \in Port |-> IF i \in PortRange THEN port[i] ELSE i]
        /\ status = [p \in Port |-> IF p \in PortRange THEN place[p] ELSE TPS_OUT_OF_RANGE]
  BY DEF turnports_init
<1>2. \A q \in low .. high - 1 : q \in PortRange /\ q % PortsSize = q
  <2>1. low = Start /\ high = End + 1
    BY DEF turnports_init
  <2>2. \A q \in low .. high - 1 : q \in PortRange /\ q \in Nat /\ q < PortsSize
    BY <2>1, TurnPortsAssumption DEF PortRange
  <2> QED BY <2>2, SmallRemainder
<1>3. \A q \in PortRange : q \in low .. high - 1 /\ q \in Port
  BY TurnPortsAssumption DEF turnports_init, PortRange, Port
<1>4. \A q \in low .. high - 1 : ports[q % PortsSize] = port[q] /\ port[q] \in PortRange
  BY <1>1, <1>2, <1>3
<1>5. \A p \in PortRange : status[p] = place[p] /\ place[p] \in PortRange
  BY <1>1, <1>3
<1>6. \A q \in low .. high - 1 : ~Stale(ports, status, q)
  BY <1>1, <1>2, <1>4, <1>5 DEF Stale
<1>7. EntriesInRange(low, high, ports) /\ FreeHavePlace(low, high, ports, status)
  BY <1>1, <1>2, <1>3, <1>4, <1>5 DEF EntriesInRange, FreeHavePlace
<1>8. StaleIsSecond(low, high, ports, status) /\ StaleIsAhead(low, high, ports, status)
      /\ OneStaleEach(low, high, ports, status)
  BY <1>6 DEF StaleIsSecond, StaleIsAhead, OneStaleEach
<1>9. evenLoop.left = 0
  BY DEF turnports_init, Idle
<1> QED BY <1>7, <1>8, <1>9 DEF Ring, RingOf, SearchCovers

\* A search that serves nobody has met no free port.
LEMMA FailIsEmpty ==
    ASSUME PortsInv, Ring, AllocateFails
    PROVE  low' = high /\ \A p \in PortRange : is_taken(status[p])
<1>1. \A q \in low .. high - 1 : ~Stops(q)
  BY DEF Ring, RingOf, EntriesInRange, Stops, PortAt
<1>2. low' = high /\ \A q \in low .. high - 1 : ~Serves(q)
  BY <1>1 DEF AllocateFails
<1>3. ASSUME NEW p \in PortRange, ~is_taken(status[p]) PROVE FALSE
  <2>1. status[p] \in low .. high - 1 /\ PortAt(status[p]) = p
    BY <1>3 DEF Ring, RingOf, FreeHavePlace, PortAt
  <2>2. Serves(status[p])
    BY <1>3, <2>1 DEF Serves
  <2> QED BY <1>2, <2>1, <2>2
<1> QED BY <1>2, <1>3

\* A ring in which nothing is free may be empty.
LEMMA EmptyRing ==
    ASSUME NEW n \in Nat, NEW pt, NEW st, \A p \in PortRange : is_taken(st[p])
    PROVE  RingOf(n, n, pt, st)
<1>1. n .. n - 1 = {}
  OBVIOUS
<1> QED BY <1>1 DEF RingOf, EntriesInRange, FreeHavePlace, StaleIsSecond, StaleIsAhead, OneStaleEach

\* The entry that turnports_allocate serves is a place in the sense of RingPop.
LEMMA ServedPlace ==
    ASSUME PortsInv, Ring, NEW pos \in low .. high - 1, Allocates(pos)
    PROVE  /\ PortAt(pos) \in PortRange /\ PortAt(pos) = ports[pos % PortsSize]
           /\ status[PortAt(pos)] = pos /\ ~is_taken(status[PortAt(pos)])
           /\ low' = pos + 1
           /\ \A q \in low .. pos - 1 :
                Stale(ports, status, q) \/ is_taken(status[ports[q % PortsSize]])
BY DEF Allocates, FirstStop, Stops, Serves, PortAt, Stale

\* Taking one port, marked m, keeps the ring.
LEMMA PopStep ==
    ASSUME PortsInv, Ring, NEW pos \in low .. high - 1, Allocates(pos)
    PROVE  RingOf(low', high, ports, [status EXCEPT ![PortAt(pos)] = TPS_TAKEN_SINGLE])
<1> DEFINE p == PortAt(pos)
           st2 == [status EXCEPT ![p] = TPS_TAKEN_SINGLE]
<1>1. /\ p \in PortRange /\ p = ports[pos % PortsSize] /\ status[p] = pos /\ low' = pos + 1
      /\ \A q \in low .. pos - 1 : Stale(ports, status, q) \/ is_taken(status[ports[q % PortsSize]])
  BY ServedPlace
<1>2. /\ low \in Nat /\ high \in Nat /\ low <= high /\ high <= MaxHigh
      /\ ports \in [Port -> Port] /\ status \in [Port -> 0 .. CounterSize - 1]
  BY RingTypes
<1>3. /\ st2 \in [Port -> 0 .. CounterSize - 1] /\ is_taken(st2[p])
      /\ \A x \in PortRange : x # p => st2[x] = status[x]
  BY <1>1, <1>2, MarksAreTaken, RangeIsPorts
<1> HIDE DEF p, st2
<1>4. RingOf(pos + 1, high, ports, st2)
  BY <1>1, <1>2, <1>3, RingPop DEF Ring
<1> QED BY <1>1, <1>4 DEF p, st2

\* turnports_allocate keeps the ring.
LEMMA RingAllocate == ASSUME PortsInv, Ring, turnports_allocate PROVE Ring'
<1>1. ports' = ports /\ high' = high
  BY DEF turnports_allocate
<1>2. CASE \E pos \in low .. high - 1 :
             Allocates(pos) /\ status' = [status EXCEPT ![PortAt(pos)] = TPS_TAKEN_SINGLE]
  <2>1. PICK pos \in low .. high - 1 :
             Allocates(pos) /\ status' = [status EXCEPT ![PortAt(pos)] = TPS_TAKEN_SINGLE]
    BY <1>2
  <2>2. RingOf(low', high, ports, status')
    BY <2>1, PopStep
  <2> QED BY <1>1, <2>2 DEF Ring
<1>3. CASE AllocateFails /\ status' = status
  <2>1. low' = high /\ \A p \in PortRange : is_taken(status'[p])
    BY <1>3, FailIsEmpty
  <2>2. RingOf(low', high', ports', status')
    BY <1>1, <2>1, RingTypes, EmptyRing
  <2> QED BY <2>2 DEF Ring
<1> QED BY <1>2, <1>3 DEF turnports_allocate

\* turnports_release by the holder keeps the ring.
LEMMA RingRelease ==
    ASSUME RingHasRoom, PortsInv, Ring, NEW p \in PortRange, turnports_release(p) PROVE Ring'
<1>1. is_taken(status[p])
  BY DEF turnports_release, PortsInv, HeldIsTaken
<1>2. /\ status' = [status EXCEPT ![p] = high] /\ high' = high + 1 /\ low' = low
      /\ ports' = [ports EXCEPT ![high % PortsSize] = p]
  BY <1>1 DEF turnports_release, ReleaseIn
<1>3. RingOf(low, high + 1, [ports EXCEPT ![high % PortsSize] = p], [status EXCEPT ![p] = high])
  BY <1>1, RingTypes, RingPush DEF Ring
<1> QED BY <1>2, <1>3 DEF Ring

\* What a round of turnports_allocate_even does with the port p at pos: puts it
\* back at the tail, takes it alone, or takes it with its neighbour.
PutBack(p) ==
    /\ p % 2 = 1 \/ (evenLoop.rtcp /\ ~PairFits(p))
    /\ ReleaseIn([status EXCEPT ![p] = TPS_TAKEN_SINGLE], p) /\ EndOfRound /\ held' = held
TakeAlone(p) ==
    /\ status' = [status EXCEPT ![p] = TPS_TAKEN_SINGLE] /\ held' = [held EXCEPT ![p] = @ + 1]
    /\ evenLoop' = Idle /\ ports' = ports /\ high' = high
TakeBoth(p) ==
    /\ p % 2 = 0 /\ PairFits(p)
    /\ status' = [status EXCEPT ![p] = TPS_TAKEN_EVEN, ![p + 1] = TPS_TAKEN_ODD]
    /\ held' = [held EXCEPT ![p] = @ + 1, ![p + 1] = @ + 1]
    /\ evenLoop' = Idle /\ ports' = ports /\ high' = high

\* A round is one of the three.
LEMMA RoundCases ==
    ASSUME PortsInv, Ring, EvenRound
    PROVE  \E pos \in low .. high - 1 :
             /\ Allocates(pos)
             /\ PutBack(PortAt(pos)) \/ TakeAlone(PortAt(pos)) \/ TakeBoth(PortAt(pos))
<1>1. PICK pos \in low .. high - 1 :
         /\ Allocates(pos)
         /\ LET p  == PortAt(pos)
                st == [status EXCEPT ![p] = TPS_TAKEN_SINGLE]
            IN  \/ /\ p % 2 = 1 \/ (evenLoop.rtcp /\ ~PairFits(p))
                   /\ ReleaseIn(st, p) /\ EndOfRound
                   /\ UNCHANGED held
                \/ /\ p % 2 = 0 /\ ~evenLoop.rtcp
                   /\ status' = st /\ held' = [held EXCEPT ![p] = @ + 1]
                   /\ evenLoop' = Idle /\ UNCHANGED <<ports, high>>
                \/ /\ p % 2 = 0 /\ evenLoop.rtcp /\ PairFits(p)
                   /\ status' = [st EXCEPT ![p] = TPS_TAKEN_EVEN, ![p + 1] = TPS_TAKEN_ODD]
                   /\ held' = [held EXCEPT ![p] = @ + 1, ![p + 1] = @ + 1]
                   /\ evenLoop' = Idle /\ UNCHANGED <<ports, high>>
  BY DEF EvenRound
<1> DEFINE p == PortAt(pos)
<1>2. [[status EXCEPT ![p] = TPS_TAKEN_SINGLE] EXCEPT ![p] = TPS_TAKEN_EVEN, ![p + 1] = TPS_TAKEN_ODD]
        = [status EXCEPT ![p] = TPS_TAKEN_EVEN, ![p + 1] = TPS_TAKEN_ODD]
  <2>1. status \in [Port -> 0 .. CounterSize - 1]
    BY RingTypes
  <2> HIDE DEF p
  <2> QED BY <2>1
<1>3. PutBack(p) \/ TakeAlone(p) \/ TakeBoth(p)
  BY <1>1, <1>2 DEF PutBack, TakeAlone, TakeBoth
<1> QED BY <1>1, <1>3

\* A round that got a port keeps the ring.
LEMMA RingEvenRound == ASSUME RingHasRoom, PortsInv, Ring, EvenRound PROVE Ring'
<1>1. PICK pos \in low .. high - 1 :
             /\ Allocates(pos)
             /\ PutBack(PortAt(pos)) \/ TakeAlone(PortAt(pos)) \/ TakeBoth(PortAt(pos))
  BY RoundCases
<1> DEFINE p == PortAt(pos)
           st == [status EXCEPT ![p] = TPS_TAKEN_SINGLE]
<1>2. RingOf(low', high, ports, st)
  BY <1>1, PopStep
<1>3. /\ p \in PortRange /\ p = ports[pos % PortsSize] /\ status[p] = pos /\ low' = pos + 1
      /\ \A q \in low .. pos - 1 : Stale(ports, status, q) \/ is_taken(status[ports[q % PortsSize]])
  BY <1>1, ServedPlace
<1>4. /\ low \in Nat /\ high \in Nat /\ low <= high /\ high <= MaxHigh
      /\ ports \in [Port -> Port] /\ status \in [Port -> 0 .. CounterSize - 1]
  BY RingTypes
<1>5. low' \in Nat /\ low' <= high
  BY <1>3, <1>4
<1>6. st \in [Port -> 0 .. CounterSize - 1] /\ is_taken(st[p])
  BY <1>3, <1>4, MarksAreTaken, RangeIsPorts
<1> HIDE DEF p, st
<1>7. CASE PutBack(p)
  <2>1. /\ status' = [st EXCEPT ![p] = high] /\ high' = high + 1
        /\ ports' = [ports EXCEPT ![high % PortsSize] = p]
    BY <1>3, <1>6, <1>7 DEF PutBack, ReleaseIn, st
  <2>2. PICK n \in Nat : n = low'
    BY <1>5
  <2>3. RingOf(n, high + 1, [ports EXCEPT ![high % PortsSize] = p], [st EXCEPT ![p] = high])
    BY <1>2, <1>3, <1>4, <1>5, <1>6, <2>2, RingPush
  <2> QED BY <2>1, <2>2, <2>3 DEF Ring
<1>8. CASE TakeAlone(p)
  BY <1>2, <1>8 DEF TakeAlone, Ring, st
<1>9. CASE TakeBoth(p)
  <2>1. p + 1 \in PortRange /\ ~is_taken(status[p + 1]) /\ p % 2 = 0 /\ p + 1 # p
    BY <1>3, <1>9, TurnPortsAssumption DEF TakeBoth, PairFits, turnports_is_available, PortRange
  <2> DEFINE st2 == [status EXCEPT ![p] = TPS_TAKEN_EVEN, ![p + 1] = TPS_TAKEN_ODD]
  <2>2. /\ st2 \in [Port -> 0 .. CounterSize - 1] /\ is_taken(st2[p]) /\ is_taken(st2[p + 1])
        /\ \A x \in PortRange : x # p /\ x # p + 1 => st2[x] = status[x]
    BY <1>3, <1>4, <2>1, MarksAreTaken, RangeIsPorts
  <2> HIDE DEF st2
  <2>3. RingOf(pos + 1, high, ports, st2)
    BY <1>3, <1>4, <2>1, <2>2, RingPop DEF Ring
  <2> QED BY <1>3, <1>9, <2>3 DEF TakeBoth, Ring, st2
<1> QED BY <1>1, <1>7, <1>8, <1>9 DEF p

\* A round without a port leaves an empty ring of a pool with nothing free.
LEMMA RingEvenRoundFails ==
    ASSUME End < PortsSize - 1, PortsInv, Ring, EvenRoundFails PROVE Ring'
<1>1. PortsSize - 1 \notin PortRange
  BY TurnPortsAssumption DEF PortRange
<1>2. status' = status /\ ports' = ports /\ high' = high
  BY <1>1 DEF EvenRoundFails, ReleaseIn
<1>3. low' = high /\ \A p \in PortRange : is_taken(status'[p])
  BY <1>2, FailIsEmpty DEF EvenRoundFails
<1>4. RingOf(low', high', ports', status')
  BY <1>2, <1>3, RingTypes, EmptyRing
<1> QED BY <1>4 DEF Ring

\* What nobody holds has its place in the ring.
LEMMA FreePlace ==
    ASSUME PortsInv, Ring, NEW p \in PortRange, held[p] = 0
    PROVE  /\ status[p] \in low .. high - 1 /\ PortAt(status[p]) = p /\ status[p] \in Nat
           /\ turnports_is_available(p)
<1>1. ~is_taken(status[p]) /\ low \in Nat /\ high \in Nat /\ high <= MaxHigh
  BY RingTypes
<1>2. status[p] \in low .. high - 1 /\ ports[status[p] % PortsSize] = p
  BY <1>1 DEF Ring, RingOf, FreeHavePlace
<1>3. status[p] # TPS_OUT_OF_RANGE
  BY <1>1, <1>2, TurnPortsAssumption DEF TPS_OUT_OF_RANGE
<1> QED BY <1>1, <1>2, <1>3 DEF PortAt, turnports_is_available

\* A round puts back only what the search does not want.
LEMMA PutBackIsUnwanted ==
    ASSUME PortsInv, Ring, NEW p \in PortRange, PutBack(p)
    PROVE  ~Wanted(p, evenLoop.rtcp)
<1> SUFFICES ASSUME Wanted(p, evenLoop.rtcp) PROVE FALSE
  OBVIOUS
<1>1. p \in Nat /\ p % 2 = 0
  BY TurnPortsAssumption DEF PortRange, Wanted
<1>2. evenLoop.rtcp /\ ~PairFits(p)
  BY <1>1 DEF PutBack
<1>3. p + 1 \in PortRange /\ held[p + 1] = 0
  BY <1>2 DEF Wanted
<1>4. turnports_is_available(p + 1)
  BY <1>3, FreePlace
<1> QED BY <1>2, <1>3, <1>4, TurnPortsAssumption DEF PairFits, PortRange

\* The search starts with as many rounds as there are entries.
LEMMA SearchEven ==
    ASSUME End < PortsSize - 1, RingHasRoom, PortsInv, Ring, NEW rtcp \in BOOLEAN,
           turnports_allocate_even(rtcp)
    PROVE  SearchCovers'
<1>1. /\ low \in Nat /\ high \in Nat /\ low <= high /\ high <= MaxHigh
      /\ ports \in [Port -> Port] /\ status \in [Port -> 0 .. CounterSize - 1]
      /\ PortsSize \in Nat /\ PortsSize > 0
  BY RingTypes, TurnPortsAssumption
<1>2. high - low <= PortsSize
  BY <1>1, RingLength DEF Ring
<1>3. high - low # PortsSize
  <2>1. PortsSize % PortsSize = 0
    BY <1>1
  <2> QED BY <1>1, <2>1 DEF turnports_allocate_even, turnports_size
<1>4. turnports_size = high - low
  BY <1>1, <1>2, <1>3, SmallRemainder DEF turnports_size
<1>5. evenLoop'.left = high - low /\ low' = low /\ status' = status /\ held' = held
  BY <1>4 DEF turnports_allocate_even
<1>6. \A p \in PortRange : held[p] = 0 => status[p] < high
  BY <1>1, FreePlace
<1> QED BY <1>1, <1>5, <1>6 DEF SearchCovers, Wanted

\* A round shortens the search by no wanted port.
LEMMA SearchEvenRound ==
    ASSUME PortsInv, Ring, SearchCovers, EvenRound PROVE SearchCovers'
<1>1. PICK pos \in low .. high - 1 :
             /\ Allocates(pos)
             /\ PutBack(PortAt(pos)) \/ TakeAlone(PortAt(pos)) \/ TakeBoth(PortAt(pos))
  BY RoundCases
<1> DEFINE p == PortAt(pos)
<1>2. p \in PortRange /\ low' = pos + 1
  BY <1>1, ServedPlace
<1>3. low \in Nat /\ high \in Nat /\ evenLoop.left > 0 /\ evenLoop \in [left : 0 .. PortsSize, rtcp : BOOLEAN]
      /\ status \in [Port -> 0 .. CounterSize - 1]
  BY RingTypes DEF EvenRound
<1> HIDE DEF p
<1>4. CASE evenLoop' = Idle
  BY <1>4 DEF SearchCovers, Idle
<1>5. CASE PutBack(p) /\ evenLoop' # Idle
  <2>1. /\ evenLoop'.left = evenLoop.left - 1 /\ evenLoop'.rtcp = evenLoop.rtcp /\ held' = held
    BY <1>5 DEF PutBack, EndOfRound
  <2>2. \A x \in PortRange : x # p => status'[x] = status[x]
    <3>1. is_taken([status EXCEPT ![p] = TPS_TAKEN_SINGLE][p])
      BY <1>2, <1>3, MarksAreTaken, RangeIsPorts
    <3>2. status' = [[status EXCEPT ![p] = TPS_TAKEN_SINGLE] EXCEPT ![p] = high]
      BY <1>2, <1>5, <3>1 DEF PutBack, ReleaseIn
    <3> QED BY <1>2, <1>3, <3>2, RangeIsPorts
  <2>3. ~Wanted(p, evenLoop.rtcp)
    BY <1>2, <1>5, PutBackIsUnwanted
  <2>4. ASSUME NEW x \in PortRange, Wanted(x, evenLoop.rtcp)
        PROVE  status'[x] < low' + (evenLoop.left - 1)
    <3>1. x # p /\ held[x] = 0
      BY <2>3, <2>4 DEF Wanted
    <3>2. status[x] \in Nat /\ status[x] < low + evenLoop.left
      BY <1>3, <2>4, <3>1, FreePlace DEF SearchCovers
    <3> QED BY <1>2, <1>3, <2>2, <3>1, <3>2
  <2> QED BY <2>1, <2>4 DEF SearchCovers, Wanted
<1> QED BY <1>1, <1>4, <1>5 DEF p, TakeAlone, TakeBoth

\* A round that fails has nothing left to find.
LEMMA FailFindsNothing ==
    ASSUME PortsInv, Ring, EvenRoundFails PROVE \A p \in PortRange : held[p] # 0 /\ held' = held
BY FailIsEmpty, RingTypes DEF EvenRoundFails

\* Every step keeps the ring and the reach of the search.
LEMMA RingInvInductive ==
    ASSUME End < PortsSize - 1, RingHasRoom PROVE RingInv /\ [Next]_tpVars => RingInv'
<1> SUFFICES ASSUME RingInv, [Next]_tpVars PROVE RingInv'
  OBVIOUS
<1> USE DEF RingInv
<1>1. PortsInv'
  BY PortsInvInductive
<1>2. CASE turnports_allocate
  BY <1>1, <1>2, RingAllocate DEF turnports_allocate, SearchCovers
<1>3. CASE \E p \in PortRange : turnports_release(p)
  <2>1. Ring'
    BY <1>3, RingRelease
  <2>2. evenLoop.left = 0 /\ evenLoop' = evenLoop
    BY <1>3 DEF turnports_release
  <2>3. SearchCovers'
    BY <2>2 DEF SearchCovers
  <2> QED BY <1>1, <2>1, <2>3
<1>4. CASE \E rtcp \in BOOLEAN : turnports_allocate_even(rtcp)
  <2>1. Ring'
    BY <1>4 DEF turnports_allocate_even, Ring
  <2> QED BY <1>1, <1>4, <2>1, SearchEven
<1>5. CASE EvenRound
  BY <1>1, <1>5, RingEvenRound, SearchEvenRound
<1>6. CASE EvenRoundFails
  BY <1>1, <1>6, RingEvenRoundFails, FailFindsNothing DEF SearchCovers, Wanted
<1>7. CASE UNCHANGED tpVars
  BY <1>1, <1>7 DEF tpVars, Ring, SearchCovers, Wanted
<1> QED BY <1>2, <1>3, <1>4, <1>5, <1>6, <1>7 DEF Next

\* No port is lost and none is given twice, whatever the order of allocations and
\* releases, when the ring has room and the last port number is out of range.
THEOREM PoolAlwaysSound ==
    ASSUME End < PortsSize - 1, RingHasRoom PROVE Spec => []PoolSound
<1>1. turnports_init => RingInv
  BY InitHolds, RingInit DEF RingInv
<1>2. RingInv => PoolSound
  BY FreePlace DEF RingInv, PortsInv, PoolSound, FreeIsInRing
<1> QED BY <1>1, <1>2, RingInvInductive, PTL DEF Spec

\* turnports_allocate_even gives up only when there is no free even port, or no
\* free pair when it was asked for one.
THEOREM SearchAlwaysComplete ==
    ASSUME End < PortsSize - 1, RingHasRoom PROVE Spec => SearchIsComplete
<1>1. turnports_init => RingInv
  BY InitHolds, RingInit DEF RingInv
<1>2. RingInv /\ [Next]_tpVars =>
        [evenLoop.left > 0 /\ evenLoop'.left = 0 /\ held' = held => ~Findable(evenLoop.rtcp)]_tpVars
  <2> SUFFICES ASSUME RingInv, [Next]_tpVars, evenLoop.left > 0, evenLoop'.left = 0, held' = held,
                      NEW x \in PortRange, Wanted(x, evenLoop.rtcp)
               PROVE  FALSE
    BY DEF Findable, Wanted
  <2>1. PortsInv /\ Ring /\ held[x] = 0
    BY DEF RingInv, Wanted
  <2>2. CASE EvenRound
    <3>1. PICK pos \in low .. high - 1 :
             /\ Allocates(pos)
             /\ PutBack(PortAt(pos)) \/ TakeAlone(PortAt(pos)) \/ TakeBoth(PortAt(pos))
      BY <2>1, <2>2, RoundCases
    <3>2. PortAt(pos) \in PortRange /\ held \in [PortRange -> Nat]
      BY <2>1, <3>1, ServedPlace, RingTypes
    <3>3. PutBack(PortAt(pos))
      <4>1. CASE TakeAlone(PortAt(pos))
        BY <3>2, <4>1 DEF TakeAlone
      <4>2. CASE TakeBoth(PortAt(pos))
        <5>1. PortAt(pos) + 1 # PortAt(pos)
          BY <3>2, TurnPortsAssumption DEF PortRange
        <5>2. held'[PortAt(pos)] = held[PortAt(pos)] + 1
          BY <3>2, <4>2, <5>1 DEF TakeBoth
        <5> QED BY <3>2, <5>2
      <4> QED BY <3>1, <4>1, <4>2
    <3>4. evenLoop.left = 1
      BY <2>1, <3>3, RoundEnds, RingTypes DEF PutBack
    <3>5. status[x] = low /\ PortAt(low) = x /\ low \in low .. high - 1 /\ ~is_taken(status[x])
      <4>1. status[x] < low + 1
        BY <3>4 DEF RingInv, SearchCovers
      <4> QED BY <2>1, <4>1, FreePlace, RingTypes
    <3>6. pos = low
      BY <2>1, <3>1, <3>5, RingTypes DEF Allocates, FirstStop, Serves
    <3> QED BY <2>1, <3>3, <3>5, <3>6, PutBackIsUnwanted
  <2>3. CASE EvenRoundFails
    BY <2>1, <2>3, FailFindsNothing
  <2> QED BY <2>2, <2>3 DEF Next, turnports_allocate, turnports_release, turnports_allocate_even, tpVars
<1> QED BY <1>1, <1>2, RingInvInductive, PTL DEF Spec, SearchIsComplete

-----------------------------------------------------------------------------
(* TcpConnectionsSound for every value of the constants of TurnTcp. The       *)
(* invariant adds what the parts need of each other: an attempt has its timer *)
(* and no answer yet, a READY connection has its client and nothing left in   *)
(* its buffer, the client was told an object's own id, and while no id is     *)
(* given twice live connections have different ids and those that no bind was *)
(* decided for are in the map.                                                *)

TcObject ==
  [id : TcId, peer : Peer, state : TcState, client_s : DataSocket \cup {None},
   peer_s : BOOLEAN, sent : Nat, bufs : Seq(Nat), got : Seq(Nat), full : BOOLEAN]

Kinds == {"peer_conn", "conn_bind"}

TcpTypes ==
  /\ tcs \in Seq(TcObject) /\ answers \in Seq(Nat) /\ Len(answers) = Len(tcs)
  /\ live \subseteq Tc /\ connecting \subseteq live
  /\ tcp_connections \in [TcId -> 0..Len(tcs)]
  /\ sub_session \in [DataSocket -> 0..Len(tcs)]
  /\ timers \subseteq Kinds \X live
  /\ told \subseteq TcId \X Tc
  /\ \A t \in Tc : Len(tcs[t].bufs) <= MAX_UNSENT_BUFFER_SIZE

(* A data socket of the client and the connection behind it know each other.  *)
SocketsLinked ==
  \A s \in DataSocket : sub_session[s] # 0 =>
    sub_session[s] \in live /\ tcs[sub_session[s]].client_s = s

(* What waits for its result has not been answered, and only that is timed    *)
(* for it.                                                                    *)
AttemptIsOpen ==
  /\ AnsweredOnce
  /\ \A t \in connecting : answers[t] = 0
  /\ \A t \in live : <<"peer_conn", t>> \in timers => t \in connecting

(* The peer's bytes are in order, and a READY connection has delivered those  *)
(* that waited.                                                               *)
StreamSound ==
  /\ StreamInOrder
  /\ \A t \in Tc : tcs[t].state = "READY" => tcs[t].bufs = <<>> /\ tcs[t].client_s # None

ToldOwnId == \A e \in told : e[1] = tcs[e[2]].id

MappedUntilTried ==
  /\ ToldOwnId
  /\ collided \in BOOLEAN
  /\ ~collided =>
       /\ \A t, u \in live : tcs[t].id = tcs[u].id => t = u
       /\ \A t \in live \ tried : tcp_connections[tcs[t].id] = t

TcpInv ==
  /\ TcpTypes /\ SocketsLinked /\ IdsLeadToLive /\ OneConnectionPerPeer
  /\ UnboundIsTimed /\ AttemptIsOpen /\ StreamSound /\ MappedUntilTried

-----------------------------------------------------------------------------
(* What delete_tcp_connection leaves, for an object whose state may have      *)
(* become FAILED before and whose request may have been answered.             *)
Deleted(t) ==
  /\ t \in live
  /\ tcs' = tcs \/ Fail(t)
  /\ delete_tcp_connection(t)
  /\ \/ answers' = answers
     \/ t \in connecting /\ answers' = [answers EXCEPT ![t] = @ + 1]
  /\ UNCHANGED <<told, collided, tried>>

(* The deletion of a connection, whatever led to it.                          *)
LEMMA DeleteStep ==
  ASSUME TcpAssumption, TcpInv, NEW t, Deleted(t)
  PROVE  TcpInv'
<1> USE DEF TcpInv
<1>0. /\ tcs \in Seq(TcObject) /\ t \in Tc /\ t \in live /\ t \in Nat \ {0}
      /\ \A k \in Tc : tcs[k] \in TcObject
  BY DEF Deleted, TcpTypes, Tc
<1>1. /\ tcs' \in Seq(TcObject) /\ Len(tcs') = Len(tcs) /\ Tc' = Tc
      /\ \A k \in Tc : k # t => tcs'[k] = tcs[k]
      /\ \A k \in Tc : /\ tcs'[k].id = tcs[k].id /\ tcs'[k].peer = tcs[k].peer
                       /\ tcs'[k].client_s = tcs[k].client_s /\ tcs'[k].bufs = tcs[k].bufs
                       /\ tcs'[k].got = tcs[k].got /\ tcs'[k].sent = tcs[k].sent
                       /\ tcs'[k].full = tcs[k].full
                       /\ tcs'[k].state = "READY" => tcs[k].state = "READY"
  <2>1. CASE tcs' = tcs
    BY <2>1 DEF TcpTypes, Tc
  <2>2. CASE Fail(t)
    <3> DEFINE o == [tcs[t] EXCEPT !.state = "FAILED"]
    <3>1. tcs[t] \in TcObject
      BY <1>0
    <3>2. /\ o \in TcObject /\ o.id = tcs[t].id /\ o.peer = tcs[t].peer
          /\ o.client_s = tcs[t].client_s /\ o.bufs = tcs[t].bufs /\ o.got = tcs[t].got
          /\ o.sent = tcs[t].sent /\ o.full = tcs[t].full /\ o.state = "FAILED"
      BY <3>1 DEF TcObject, TcState
    <3>3. tcs' = [tcs EXCEPT ![t] = o]
      BY <2>2 DEF Fail
    <3> HIDE DEF o
    <3>4. /\ tcs' \in Seq(TcObject) /\ Len(tcs') = Len(tcs) /\ DOMAIN tcs' = DOMAIN tcs
          /\ tcs'[t] = o /\ \A k \in DOMAIN tcs : k # t => tcs'[k] = tcs[k]
      <4> HIDE DEF TcpInv
      <4> QED BY <1>0, <3>2, <3>3 DEF Tc
    <3> QED BY <3>2, <3>4 DEF Tc
  <2> QED BY <2>1, <2>2 DEF Deleted
<1>2. /\ live' = live \ {t}
      /\ timers' = timers \ {<<"peer_conn", t>>, <<"conn_bind", t>>}
      /\ connecting' = connecting \ {t}
      /\ tcp_connections' = [tcp_connections EXCEPT ![tcs[t].id] = 0]
      /\ sub_session' = [s \in DataSocket |-> IF sub_session[s] = t THEN 0 ELSE sub_session[s]]
      /\ told' = told /\ collided' = collided /\ tried' = tried
  BY DEF Deleted, delete_tcp_connection
<1>3. /\ answers' \in Seq(Nat) /\ Len(answers') = Len(answers)
      /\ \A k \in Tc : k # t => answers'[k] = answers[k]
      /\ answers'[t] <= 1
  <2>1. CASE answers' = answers
    BY <1>0, <2>1 DEF TcpTypes, AttemptIsOpen, AnsweredOnce
  <2>2. CASE t \in connecting /\ answers' = [answers EXCEPT ![t] = @ + 1]
    <3>1. answers[t] = 0 /\ t \in 1..Len(answers)
      BY <1>0, <2>2 DEF TcpTypes, AttemptIsOpen, Tc
    <3> QED BY <2>2, <3>1 DEF TcpTypes, Tc
  <2> QED BY <2>1, <2>2 DEF Deleted
<1>4. tcs[t].id \in TcId /\ tcp_connections' \in [TcId -> 0..Len(tcs)]
  <2>1. tcs[t].id \in TcId
    BY <1>0 DEF TcObject
  <2> QED BY <2>1, <1>2 DEF TcpTypes
<1>5. TcpTypes'
  <2>1. \A e \in timers' : e \in Kinds \X live'
    BY <1>2, SMT DEF TcpTypes, Kinds
  <2>2. sub_session' \in [DataSocket -> 0..Len(tcs)]
    BY <1>2 DEF TcpTypes
  <2> QED BY <2>1, <2>2, <1>1, <1>2, <1>3, <1>4 DEF TcpTypes, Tc
<1>6. SocketsLinked'
  BY <1>0, <1>1, <1>2 DEF SocketsLinked, TcpTypes
<1>7. IdsLeadToLive'
  BY <1>0, <1>1, <1>2, <1>4 DEF IdsLeadToLive, TcpTypes
<1>8. OneConnectionPerPeer'
  BY <1>1, <1>2 DEF OneConnectionPerPeer, TcpTypes
<1>9. UnboundIsTimed'
  BY <1>1, <1>2 DEF UnboundIsTimed, TcpTypes
<1>10. AttemptIsOpen'
  BY <1>0, <1>1, <1>2, <1>3 DEF AttemptIsOpen, AnsweredOnce, TcpTypes
<1>11. StreamSound'
  BY <1>1 DEF StreamSound, StreamInOrder
<1>12. MappedUntilTried'
  <2>1. ToldOwnId'
    BY <1>1, <1>2 DEF MappedUntilTried, ToldOwnId, TcpTypes
  <2>2. ASSUME ~collided'
        PROVE  /\ \A k, u \in live' : tcs'[k].id = tcs'[u].id => k = u
               /\ \A k \in live' \ tried' : tcp_connections'[tcs'[k].id] = k
    <3>1. /\ \A k, u \in live : tcs[k].id = tcs[u].id => k = u
          /\ \A k \in live \ tried : tcp_connections[tcs[k].id] = k
      BY <2>2, <1>2 DEF MappedUntilTried
    <3>2. \A k \in live : k \in Tc /\ tcs'[k].id = tcs[k].id /\ tcs[k].id \in TcId
      BY <1>0, <1>1 DEF TcpTypes, TcObject
    <3>3. tcp_connections \in [TcId -> 0..Len(tcs)]
      BY DEF TcpTypes
    <3> HIDE DEF TcpInv
    <3>4. \A i \in TcId : i # tcs[t].id => tcp_connections'[i] = tcp_connections[i]
      BY <3>3, <1>2, <1>4
    <3>5. \A k \in live' : k \in live /\ tcs[k].id # tcs[t].id
      BY <3>1, <1>0, <1>2
    <3> QED BY <3>1, <3>2, <3>4, <3>5, <1>2
  <2>3. collided' \in BOOLEAN
    BY <1>2 DEF MappedUntilTried
  <2> HIDE DEF TcpInv
  <2> QED BY <2>1, <2>2, <2>3 DEF MappedUntilTried
<1> QED BY <1>5, <1>6, <1>7, <1>8, <1>9, <1>10, <1>11, <1>12

(* What a new object finds: a timer unless its callback could not be          *)
(* registered, and no answer yet if its connection is awaited.                *)
Created(peer, id, state, open, X, C, a) ==
  /\ get_tcp_connection_by_peer(peer) = {}
  /\ create_tcp_connection(peer, id, state, open)
  /\ timers' = timers \cup X /\ X \subseteq Kinds \X {New}
  /\ state # "UNKNOWN" => \E kind \in Kinds : <<kind, New>> \in X
  /\ state \in TcState \ {"READY"} /\ open \in BOOLEAN
  /\ connecting' = connecting \cup C /\ C \subseteq {New}
  /\ <<"peer_conn", New>> \in X => New \in C
  /\ answers' = Append(answers, a) /\ a \in {0, 1} /\ (New \in C => a = 0)
  /\ told' = told \/ told' = told \cup {<<id, New>>}
  /\ UNCHANGED <<sub_session, tried>>

(* A new connection, opened by the client or by a peer.                       *)
LEMMA CreateStep ==
  ASSUME TcpAssumption, TcpInv, NEW peer \in Peer, NEW id \in TcId, NEW state, NEW open,
         NEW X, NEW C, NEW a, Created(peer, id, state, open, X, C, a)
  PROVE  TcpInv'
<1> DEFINE o == [id |-> id, peer |-> peer, state |-> state, client_s |-> None,
                 peer_s |-> open, sent |-> 0, bufs |-> <<>>, got |-> <<>>, full |-> FALSE]
<1>0. /\ TcpTypes /\ SocketsLinked /\ IdsLeadToLive /\ OneConnectionPerPeer
      /\ UnboundIsTimed /\ AttemptIsOpen /\ StreamSound /\ MappedUntilTried
  BY DEF TcpInv
<1>1. /\ tcs \in Seq(TcObject) /\ live \subseteq Tc /\ connecting \subseteq live
      /\ tcp_connections \in [TcId -> 0..Len(tcs)] /\ sub_session \in [DataSocket -> 0..Len(tcs)]
      /\ timers \subseteq Kinds \X live /\ told \subseteq TcId \X Tc
      /\ answers \in Seq(Nat) /\ Len(answers) = Len(tcs)
      /\ \A k \in Tc : tcs[k] \in TcObject
  BY <1>0 DEF TcpTypes, Tc
<1>2. /\ o \in TcObject /\ o.id = id /\ o.peer = peer /\ o.client_s = None /\ o.state = state
      /\ o.sent = 0 /\ o.bufs = <<>> /\ o.got = <<>> /\ o.full = FALSE
      /\ state \in TcState \ {"READY"}
  <2>1. state \in TcState \ {"READY"} /\ open \in BOOLEAN
    BY DEF Created
  <2>2. <<>> \in Seq(Nat) /\ 0 \in Nat /\ FALSE \in BOOLEAN
    OBVIOUS
  <2> QED BY <2>1, <2>2 DEF TcObject
<1>3. /\ tcs' = Append(tcs, o) /\ tcp_connections[id] = 0
      /\ live' = live \cup {New}
      /\ tcp_connections' = [tcp_connections EXCEPT ![id] = New]
      /\ collided' = (collided \/ \E t \in live : tcs[t].id = id)
  BY DEF Created, create_tcp_connection
<1> HIDE DEF o
<1>4. /\ tcs' \in Seq(TcObject) /\ Len(tcs') = New /\ Tc' = Tc \cup {New}
      /\ New \notin Tc /\ New \in Nat \ {0} /\ New = Len(tcs) + 1 /\ Len(tcs) \in Nat
      /\ tcs'[New] = o /\ \A k \in Tc : tcs'[k] = tcs[k]
  BY <1>1, <1>2, <1>3 DEF New, Tc
<1>5. /\ answers' \in Seq(Nat) /\ Len(answers') = New
      /\ answers'[New] \in {0, 1} /\ \A k \in Tc : answers'[k] = answers[k]
      /\ New \in connecting' => answers'[New] = 0
  <2>1. answers' = Append(answers, a) /\ a \in {0, 1} /\ a \in Nat
    BY DEF Created
  <2>2. New \in connecting' => a = 0
    BY <1>1, <1>4 DEF Created
  <2> QED BY <2>1, <2>2, <1>1, <1>4 DEF Tc, New
<1>6. /\ timers \subseteq timers' /\ timers' \subseteq Kinds \X live'
      /\ \A e \in timers' : e[2] # New => e \in timers
      /\ connecting' \subseteq connecting \cup {New} /\ connecting \subseteq connecting'
      /\ <<"peer_conn", New>> \in timers' => New \in connecting'
      /\ state # "UNKNOWN" => \E kind \in Kinds : <<kind, New>> \in timers'
  <2>1. /\ timers' = timers \cup X /\ X \subseteq Kinds \X {New}
        /\ state # "UNKNOWN" => \E kind \in Kinds : <<kind, New>> \in X
        /\ connecting' = connecting \cup C /\ C \subseteq {New}
        /\ <<"peer_conn", New>> \in X => New \in C
    BY DEF Created
  <2>2. <<"peer_conn", New>> \notin timers
    BY <1>1, <1>4
  <2> QED BY <2>1, <2>2, <1>1, <1>3
<1>7. sub_session' = sub_session /\ tried' = tried /\ told' \subseteq told \cup {<<id, New>>}
  BY DEF Created
<1>8. tcp_connections' \in [TcId -> 0..New] /\ tcp_connections'[id] = New
      /\ \A i \in TcId : i # id => tcp_connections'[i] = tcp_connections[i]
  BY <1>1, <1>3, <1>4
<1>9. TcpTypes'
  <2>1. live' \subseteq Tc' /\ connecting' \subseteq live' /\ told' \subseteq TcId \X Tc'
    BY <1>1, <1>3, <1>4, <1>6, <1>7
  <2>2. sub_session' \in [DataSocket -> 0..New]
    BY <1>1, <1>4, <1>7
  <2>3. \A k \in Tc' : Len(tcs'[k].bufs) <= MAX_UNSENT_BUFFER_SIZE
    <3>1. Len(o.bufs) = 0 /\ MAX_UNSENT_BUFFER_SIZE \in Nat
      BY <1>2 DEF TcpAssumption
    <3>2. \A k \in Tc : Len(tcs[k].bufs) <= MAX_UNSENT_BUFFER_SIZE
      BY <1>0 DEF TcpTypes
    <3> QED BY <3>1, <3>2, <1>4
  <2> QED BY <2>1, <2>2, <2>3, <1>4, <1>5, <1>6, <1>8 DEF TcpTypes
<1>10. SocketsLinked'
  BY <1>0, <1>1, <1>3, <1>4, <1>7 DEF SocketsLinked
<1>11. IdsLeadToLive'
  BY <1>0, <1>1, <1>2, <1>3, <1>4, <1>8 DEF IdsLeadToLive
<1>12. OneConnectionPerPeer'
  <2>1. \A k \in live : tcs[k].peer # peer
    BY DEF Created, get_tcp_connection_by_peer
  <2>2. \A k, u \in live : tcs[k].peer = tcs[u].peer => k = u
    BY <1>0 DEF OneConnectionPerPeer
  <2>3. \A k \in live : tcs'[k].peer = tcs[k].peer
    BY <1>1, <1>4
  <2>4. live' = live \cup {New} /\ tcs'[New].peer = peer
    BY <1>2, <1>3, <1>4
  <2>5. \A k, u \in live' : tcs'[k].peer = tcs'[u].peer => k = u
    BY <2>1, <2>2, <2>3, <2>4
  <2> QED BY <2>5 DEF OneConnectionPerPeer
<1>13. UnboundIsTimed'
  BY <1>0, <1>1, <1>2, <1>3, <1>4, <1>6 DEF UnboundIsTimed, Kinds
<1>14. AttemptIsOpen'
  <2>1. AnsweredOnce' /\ \A k \in connecting' : answers'[k] = 0
    <3>1. /\ \A k \in Tc : answers[k] <= 1
          /\ \A k \in connecting : k \in Tc /\ answers[k] = 0
      BY <1>0, <1>1 DEF AttemptIsOpen, AnsweredOnce
    <3>2. \A k \in Tc' : answers'[k] <= 1
      BY <3>1, <1>4, <1>5
    <3>3. \A k \in connecting' : answers'[k] = 0
      BY <3>1, <1>5, <1>6
    <3> QED BY <3>2, <3>3 DEF AnsweredOnce
  <2>2. \A k \in live' : <<"peer_conn", k>> \in timers' => k \in connecting'
    BY <1>0, <1>3, <1>6 DEF AttemptIsOpen
  <2> QED BY <2>1, <2>2 DEF AttemptIsOpen
<1>15. StreamSound'
  <2>1. \A k \in Tc' : tcs'[k].state = "READY" => tcs'[k].bufs = <<>> /\ tcs'[k].client_s # None
    BY <1>0, <1>2, <1>4 DEF StreamSound
  <2>2. o.got \o o.bufs = [n \in 1..o.sent |-> n]
    BY <1>2
  <2>3. StreamInOrder'
    BY <2>2, <1>0, <1>4 DEF StreamSound, StreamInOrder
  <2> QED BY <2>1, <2>3 DEF StreamSound
<1>16. MappedUntilTried'
  <2>1. ToldOwnId'
    BY <1>0, <1>1, <1>2, <1>4, <1>7 DEF MappedUntilTried, ToldOwnId
  <2>2. ASSUME ~collided'
        PROVE  /\ \A k, u \in live' : tcs'[k].id = tcs'[u].id => k = u
               /\ \A k \in live' \ tried' : tcp_connections'[tcs'[k].id] = k
    <3>1. ~collided /\ \A k \in live : tcs[k].id # id
      BY <2>2, <1>3
    <3>2. /\ \A k, u \in live : tcs[k].id = tcs[u].id => k = u
          /\ \A k \in live \ tried : tcp_connections[tcs[k].id] = k
      BY <3>1, <1>0 DEF MappedUntilTried
    <3>3. \A k \in live : k \in Tc /\ tcs'[k] = tcs[k] /\ tcs[k].id \in TcId
      BY <1>1, <1>4 DEF TcObject
    <3>4. live' = live \cup {New} /\ tried' = tried /\ tcs'[New].id = id
      BY <1>2, <1>3, <1>4, <1>7
    <3>5. \A k \in live \ tried : tcp_connections'[tcs[k].id] = k
      BY <3>1, <3>2, <3>3, <1>8
    <3>6. \A k, u \in live' : tcs'[k].id = tcs'[u].id => k = u
      BY <3>1, <3>2, <3>3, <3>4
    <3> QED BY <3>3, <3>4, <3>5, <3>6, <1>8
  <2>3. collided' \in BOOLEAN
    BY <1>3
  <2> QED BY <2>1, <2>2, <2>3 DEF MappedUntilTried
<1> QED
  BY <1>9, <1>10, <1>11, <1>12, <1>13, <1>14, <1>15, <1>16 DEF TcpInv

(* One object is replaced by one with the same id and the same peer, and      *)
(* nothing is freed; the rest of the step keeps the tables in order.          *)
Replaced(t, o) ==
  /\ t \in live /\ o \in TcObject
  /\ tcs' = [tcs EXCEPT ![t] = o]
  /\ o.id = tcs[t].id /\ o.peer = tcs[t].peer
  /\ Len(o.bufs) <= MAX_UNSENT_BUFFER_SIZE
  /\ o.state = "READY" => o.bufs = <<>> /\ o.client_s # None
  /\ ~o.full => o.got \o o.bufs = [n \in 1..o.sent |-> n]
  /\ live' = live

(* What such a replacement keeps.                                             *)
LEMMA ReplaceKeeps ==
  ASSUME TcpAssumption, TcpInv, NEW t, NEW o, Replaced(t, o)
  PROVE  /\ tcs' \in Seq(TcObject) /\ Len(tcs') = Len(tcs) /\ Tc' = Tc /\ live' = live
         /\ t \in Tc /\ t \in live
         /\ tcs'[t] = o /\ \A k \in Tc : k # t => tcs'[k] = tcs[k]
         /\ \A k \in Tc : /\ tcs'[k].id = tcs[k].id /\ tcs'[k].peer = tcs[k].peer
                          /\ tcs[k].id \in TcId
                          /\ Len(tcs'[k].bufs) <= MAX_UNSENT_BUFFER_SIZE
         /\ OneConnectionPerPeer' /\ StreamSound'
<1>1. /\ TcpTypes /\ OneConnectionPerPeer /\ StreamSound
  BY DEF TcpInv
<1>2. /\ tcs \in Seq(TcObject) /\ live \subseteq Tc
      /\ \A k \in Tc : tcs[k] \in TcObject /\ Len(tcs[k].bufs) <= MAX_UNSENT_BUFFER_SIZE
  BY <1>1 DEF TcpTypes, Tc
<1>3. /\ t \in live /\ o \in TcObject /\ tcs' = [tcs EXCEPT ![t] = o] /\ live' = live
      /\ o.id = tcs[t].id /\ o.peer = tcs[t].peer /\ Len(o.bufs) <= MAX_UNSENT_BUFFER_SIZE
  BY DEF Replaced
<1>4. t \in Tc
  BY <1>2, <1>3
<1>5. /\ tcs' \in Seq(TcObject) /\ Len(tcs') = Len(tcs) /\ Tc' = Tc
      /\ tcs'[t] = o /\ \A k \in Tc : k # t => tcs'[k] = tcs[k]
  BY <1>2, <1>3, <1>4 DEF Tc
<1>6. \A k \in Tc : /\ tcs'[k].id = tcs[k].id /\ tcs'[k].peer = tcs[k].peer
                    /\ Len(tcs'[k].bufs) <= MAX_UNSENT_BUFFER_SIZE
  BY <1>2, <1>3, <1>5
<1>7. \A k \in Tc : tcs[k].id \in TcId
  BY <1>2 DEF TcObject
<1>8. OneConnectionPerPeer'
  BY <1>1, <1>2, <1>3, <1>6 DEF OneConnectionPerPeer
<1>9. StreamSound'
  <2>1. /\ o.state = "READY" => o.bufs = <<>> /\ o.client_s # None
        /\ ~o.full => o.got \o o.bufs = [n \in 1..o.sent |-> n]
    BY DEF Replaced
  <2>2. \A k \in Tc' : tcs'[k].state = "READY" => tcs'[k].bufs = <<>> /\ tcs'[k].client_s # None
    BY <2>1, <1>1, <1>5 DEF StreamSound
  <2>3. StreamInOrder'
    BY <2>1, <1>1, <1>5 DEF StreamSound, StreamInOrder
  <2> QED BY <2>2, <2>3 DEF StreamSound
<1> QED BY <1>3, <1>4, <1>5, <1>6, <1>7, <1>8, <1>9

(* The peer is connected, and the client is told the id.                      *)
LEMMA ConnectedStep ==
  ASSUME TcpAssumption, TcpInv, NEW t \in connecting,
         tcp_peer_connection_completed_callback(t, TRUE)
  PROVE  TcpInv'
<1> DEFINE o == [tcs[t] EXCEPT !.state = "PEER_CONNECTED"]
<1>0. /\ TcpTypes /\ SocketsLinked /\ IdsLeadToLive /\ UnboundIsTimed
      /\ AttemptIsOpen /\ StreamSound /\ MappedUntilTried
  BY DEF TcpInv
<1>1. /\ tcs \in Seq(TcObject) /\ live \subseteq Tc /\ connecting \subseteq live
      /\ tcp_connections \in [TcId -> 0..Len(tcs)] /\ sub_session \in [DataSocket -> 0..Len(tcs)]
      /\ timers \subseteq Kinds \X live /\ told \subseteq TcId \X Tc
      /\ answers \in Seq(Nat) /\ Len(answers) = Len(tcs)
      /\ \A k \in Tc : tcs[k] \in TcObject /\ Len(tcs[k].bufs) <= MAX_UNSENT_BUFFER_SIZE
  BY <1>0 DEF TcpTypes, Tc
<1>2. t \in live /\ t \in Tc
  BY <1>1
<1>3. /\ answers' = [answers EXCEPT ![t] = @ + 1]
      /\ tcs' = [tcs EXCEPT ![t] = o]
      /\ told' = told \cup {<<tcs[t].id, t>>}
      /\ connecting' = connecting \ {t}
      /\ timers' = (timers \ {<<"peer_conn", t>>}) \cup {<<"conn_bind", t>>}
      /\ live' = live /\ tcp_connections' = tcp_connections /\ sub_session' = sub_session
      /\ collided' = collided /\ tried' = tried
  BY DEF tcp_peer_connection_completed_callback
<1>4. /\ o \in TcObject /\ o.id = tcs[t].id /\ o.peer = tcs[t].peer /\ o.client_s = tcs[t].client_s
      /\ o.bufs = tcs[t].bufs /\ o.got = tcs[t].got /\ o.sent = tcs[t].sent
      /\ o.full = tcs[t].full /\ o.state = "PEER_CONNECTED"
  <2>1. tcs[t] \in TcObject
    BY <1>1, <1>2
  <2> QED BY <2>1 DEF TcObject, TcState
<1> HIDE DEF o
<1>5. Replaced(t, o)
  <2>1. ~tcs[t].full => tcs[t].got \o tcs[t].bufs = [n \in 1..tcs[t].sent |-> n]
    BY <1>0, <1>2 DEF StreamSound, StreamInOrder
  <2> QED BY <2>1, <1>1, <1>2, <1>3, <1>4 DEF Replaced
<1>6. /\ tcs' \in Seq(TcObject) /\ Len(tcs') = Len(tcs) /\ Tc' = Tc
      /\ tcs'[t] = o /\ \A k \in Tc : k # t => tcs'[k] = tcs[k]
      /\ \A k \in Tc : /\ tcs'[k].id = tcs[k].id
                       /\ tcs[k].id \in TcId
                       /\ Len(tcs'[k].bufs) <= MAX_UNSENT_BUFFER_SIZE
      /\ OneConnectionPerPeer' /\ StreamSound'
  BY <1>5, ReplaceKeeps
<1>7. \A k \in Tc : tcs'[k].client_s = tcs[k].client_s
  BY <1>4, <1>6
<1>8. /\ answers' \in Seq(Nat) /\ Len(answers') = Len(answers)
      /\ answers'[t] = 1 /\ \A k \in Tc : k # t => answers'[k] = answers[k]
  <2>1. answers[t] = 0
    BY <1>0 DEF AttemptIsOpen
  <2> QED BY <2>1, <1>1, <1>2, <1>3 DEF Tc
<1>9. TcpTypes'
  <2>1. timers' \subseteq Kinds \X live'
    BY <1>1, <1>2, <1>3 DEF Kinds
  <2>2. told' \subseteq TcId \X Tc'
    BY <1>1, <1>2, <1>3, <1>6
  <2>3. live' \subseteq Tc' /\ connecting' \subseteq live'
    BY <1>1, <1>3, <1>6
  <2> QED BY <2>1, <2>2, <2>3, <1>1, <1>3, <1>6, <1>8 DEF TcpTypes
<1>10. SocketsLinked' /\ IdsLeadToLive'
  BY <1>0, <1>1, <1>3, <1>6, <1>7 DEF SocketsLinked, IdsLeadToLive
<1>11. UnboundIsTimed'
  <2>1. SUFFICES ASSUME NEW k \in live, tcs'[k].client_s = None /\ tcs'[k].state # "UNKNOWN"
                 PROVE  \E kind \in {"peer_conn", "conn_bind"} : <<kind, k>> \in timers'
    BY <1>3 DEF UnboundIsTimed
  <2>2. CASE k = t
    BY <2>2, <1>3
  <2>3. CASE k # t
    BY <2>1, <2>3, <1>0, <1>1, <1>3, <1>6 DEF UnboundIsTimed
  <2> QED BY <2>2, <2>3
<1>12. AttemptIsOpen'
  <2>1. AnsweredOnce'
    BY <1>0, <1>6, <1>8 DEF AttemptIsOpen, AnsweredOnce
  <2>2. \A k \in connecting' : answers'[k] = 0
    BY <1>0, <1>1, <1>3, <1>8 DEF AttemptIsOpen
  <2>3. \A k \in live' : <<"peer_conn", k>> \in timers' => k \in connecting'
    BY <1>0, <1>3 DEF AttemptIsOpen
  <2> QED BY <2>1, <2>2, <2>3 DEF AttemptIsOpen
<1>13. MappedUntilTried'
  <2>1. ToldOwnId'
    BY <1>0, <1>1, <1>2, <1>3, <1>6 DEF MappedUntilTried, ToldOwnId
  <2> QED BY <2>1, <1>0, <1>1, <1>3, <1>6 DEF MappedUntilTried
<1> QED
  BY <1>6, <1>9, <1>10, <1>11, <1>12, <1>13 DEF TcpInv

(* A bind is decided: the id leaves the map, and the connection behind it     *)
(* counts as tried.                                                           *)
LEMMA DecidedStep ==
  ASSUME TcpAssumption, TcpInv, NEW id \in TcId, NEW s \in DataSocket,
         tcp_connections[id] # 0, Decided(id, s), live' = live, collided' = collided,
         told' = told, tcs' \in Seq(TcObject), Len(tcs') = Len(tcs),
         \A k \in Tc : tcs'[k].id = tcs[k].id
  PROVE  /\ tcp_connections' \in [TcId -> 0..Len(tcs')]
         /\ IdsLeadToLive' /\ MappedUntilTried'
<1>0. TcpTypes /\ IdsLeadToLive /\ MappedUntilTried
  BY DEF TcpInv
<1>1. /\ tcs \in Seq(TcObject) /\ live \subseteq Tc
      /\ tcp_connections \in [TcId -> 0..Len(tcs)] /\ told \subseteq TcId \X Tc
      /\ \A k \in Tc : tcs[k] \in TcObject
  BY <1>0 DEF TcpTypes, Tc
<1>2. /\ tcp_connections' = [tcp_connections EXCEPT ![id] = 0]
      /\ tried' = tried \cup {tcp_connections[id]}
  BY DEF Decided
<1>3. tcp_connections' \in [TcId -> 0..Len(tcs')]
  BY <1>1, <1>2
<1>4. IdsLeadToLive'
  BY <1>0, <1>1, <1>2 DEF IdsLeadToLive
<1>5. MappedUntilTried'
  <2>1. ToldOwnId'
    BY <1>0, <1>1 DEF MappedUntilTried, ToldOwnId
  <2>2. ASSUME ~collided'
        PROVE  /\ \A k, u \in live' : tcs'[k].id = tcs'[u].id => k = u
               /\ \A k \in live' \ tried' : tcp_connections'[tcs'[k].id] = k
    <3>1. /\ \A k, u \in live : tcs[k].id = tcs[u].id => k = u
          /\ \A k \in live \ tried : tcp_connections[tcs[k].id] = k
      BY <2>2, <1>0 DEF MappedUntilTried
    <3>2. \A k \in live : tcs[k].id \in TcId /\ tcs'[k].id = tcs[k].id
      BY <1>1 DEF TcObject
    <3>3. \A k \in live' \ tried' : k \in live \ tried /\ k # tcp_connections[id]
      BY <1>2
    <3>4. \A k \in live \ tried : k # tcp_connections[id] => tcs[k].id # id
      BY <3>1
    <3>5. \A i \in TcId : i # id => tcp_connections'[i] = tcp_connections[i]
      BY <1>1, <1>2
    <3>6. \A k \in live' \ tried' : tcp_connections'[tcs'[k].id] = k
      BY <3>1, <3>2, <3>3, <3>4, <3>5
    <3> QED BY <3>1, <3>2, <3>6
  <2> QED BY <2>1, <2>2, <1>0 DEF MappedUntilTried
<1> QED BY <1>3, <1>4, <1>5

(* A bind that succeeds: what waited is delivered before the socket is the    *)
(* connection's client.                                                       *)
LEMMA BoundStep ==
  ASSUME TcpAssumption, TcpInv, NEW id \in TcId, NEW s \in DataSocket, NEW t,
         t = tcp_connections[id], t # 0, sub_session[s] = 0, tcs[t].client_s = None,
         tcs' = [tcs EXCEPT ![t] =
                   [tcp_deliver_delayed_buffer(t) EXCEPT !.state = "READY", !.client_s = s]],
         sub_session' = [sub_session EXCEPT ![s] = t],
         timers' = timers \ {<<"conn_bind", t>>},
         Decided(id, s), UNCHANGED <<live, connecting, told, answers, collided>>
  PROVE  TcpInv'
<1> DEFINE o == [tcp_deliver_delayed_buffer(t) EXCEPT !.state = "READY", !.client_s = s]
<1>0. /\ TcpTypes /\ SocketsLinked /\ IdsLeadToLive /\ UnboundIsTimed
      /\ AttemptIsOpen /\ StreamSound /\ MappedUntilTried
  BY DEF TcpInv
<1>1. /\ tcs \in Seq(TcObject) /\ live \subseteq Tc /\ connecting \subseteq live
      /\ tcp_connections \in [TcId -> 0..Len(tcs)] /\ sub_session \in [DataSocket -> 0..Len(tcs)]
      /\ timers \subseteq Kinds \X live /\ told \subseteq TcId \X Tc
      /\ answers \in Seq(Nat) /\ Len(answers) = Len(tcs)
      /\ \A k \in Tc : tcs[k] \in TcObject
  BY <1>0 DEF TcpTypes, Tc
<1>2. t \in live /\ t \in Tc /\ t \in 0..Len(tcs)
  BY <1>0, <1>1 DEF IdsLeadToLive
<1>3. /\ tcs[t] \in TcObject /\ tcs[t].got \in Seq(Nat) /\ tcs[t].bufs \in Seq(Nat)
  BY <1>1, <1>2 DEF TcObject
<1>4. tcs[t].got \o tcs[t].bufs \in Seq(Nat)
  BY <1>3
<1>5. /\ o \in TcObject /\ o.id = tcs[t].id /\ o.peer = tcs[t].peer /\ o.client_s = s
      /\ o.bufs = <<>> /\ o.got = tcs[t].got \o tcs[t].bufs /\ o.sent = tcs[t].sent
      /\ o.full = tcs[t].full /\ o.state = "READY"
  <2>1. <<>> \in Seq(Nat) /\ "READY" \in TcState /\ s \in DataSocket \cup {None}
    BY DEF TcState
  <2> QED BY <2>1, <1>3, <1>4 DEF TcObject, tcp_deliver_delayed_buffer
<1>6. tcs' = [tcs EXCEPT ![t] = o]
  OBVIOUS
<1> HIDE DEF o
<1>7. Replaced(t, o)
  <2>1. ~tcs[t].full => tcs[t].got \o tcs[t].bufs = [n \in 1..tcs[t].sent |-> n]
    BY <1>0, <1>2 DEF StreamSound, StreamInOrder
  <2>2. o.got \o o.bufs = o.got
    BY <1>4, <1>5, ConcatEmptySeq
  <2>3. Len(o.bufs) <= MAX_UNSENT_BUFFER_SIZE
    BY <1>5 DEF TcpAssumption
  <2>4. o.client_s # None
    BY <1>5 DEF TcpAssumption
  <2>5. ~o.full => o.got \o o.bufs = [n \in 1..o.sent |-> n]
    BY <2>1, <2>2, <1>5
  <2> QED BY <2>3, <2>4, <2>5, <1>2, <1>5, <1>6 DEF Replaced
<1>8. /\ tcs' \in Seq(TcObject) /\ Len(tcs') = Len(tcs) /\ Tc' = Tc
      /\ tcs'[t] = o /\ \A k \in Tc : k # t => tcs'[k] = tcs[k]
      /\ \A k \in Tc : /\ tcs'[k].id = tcs[k].id
                       /\ Len(tcs'[k].bufs) <= MAX_UNSENT_BUFFER_SIZE
      /\ OneConnectionPerPeer' /\ StreamSound'
  BY <1>7, ReplaceKeeps
<1>9. /\ tcp_connections' \in [TcId -> 0..Len(tcs')]
      /\ IdsLeadToLive' /\ MappedUntilTried'
  BY <1>8, DecidedStep
<1>10. sub_session' \in [DataSocket -> 0..Len(tcs)] /\ sub_session'[s] = t
       /\ \A x \in DataSocket : x # s => sub_session'[x] = sub_session[x]
  BY <1>1, <1>2
<1>11. TcpTypes'
  <2>1. timers' \subseteq Kinds \X live'
    BY <1>1
  <2> QED BY <2>1, <1>1, <1>8, <1>9, <1>10 DEF TcpTypes
<1>12. SocketsLinked'
  <2>1. SUFFICES ASSUME NEW x \in DataSocket, sub_session'[x] # 0
                 PROVE  sub_session'[x] \in live /\ tcs'[sub_session'[x]].client_s = x
    BY DEF SocketsLinked
  <2>2. CASE x = s
    BY <2>2, <1>2, <1>5, <1>8, <1>10
  <2>3. CASE x # s
    <3>1. sub_session'[x] = sub_session[x] /\ sub_session[x] \in live
          /\ tcs[sub_session[x]].client_s = x
      BY <2>1, <2>3, <1>0, <1>10 DEF SocketsLinked
    <3>2. sub_session[x] # t
      BY <3>1 DEF TcpAssumption
    <3> QED BY <3>1, <3>2, <1>1, <1>8
  <2> QED BY <2>2, <2>3
<1>13. UnboundIsTimed'
  <2>1. SUFFICES ASSUME NEW k \in live, tcs'[k].client_s = None /\ tcs'[k].state # "UNKNOWN"
                 PROVE  \E kind \in {"peer_conn", "conn_bind"} : <<kind, k>> \in timers'
    BY DEF UnboundIsTimed
  <2>2. k # t
    BY <2>1, <1>5, <1>8 DEF TcpAssumption
  <2>3. tcs'[k] = tcs[k]
    BY <2>2, <1>1, <1>8
  <2> QED BY <2>1, <2>2, <2>3, <1>0 DEF UnboundIsTimed
<1>14. AttemptIsOpen'
  BY <1>0, <1>8 DEF AttemptIsOpen, AnsweredOnce
<1> QED
  BY <1>8, <1>9, <1>11, <1>12, <1>13, <1>14 DEF TcpInv

(* A bind that fails after the id has left the map.                           *)
LEMMA FailedBindStep ==
  ASSUME TcpAssumption, TcpInv, NEW id \in TcId, NEW s \in DataSocket,
         tcp_connections[id] # 0, Decided(id, s),
         UNCHANGED <<tcs, sub_session, timers, live, connecting, told, answers, collided>>
  PROVE  TcpInv'
<1>0. /\ TcpTypes /\ SocketsLinked /\ IdsLeadToLive /\ OneConnectionPerPeer
      /\ UnboundIsTimed /\ AttemptIsOpen /\ StreamSound /\ MappedUntilTried
  BY DEF TcpInv
<1>1. tcs' \in Seq(TcObject) /\ Len(tcs') = Len(tcs) /\ \A k \in Tc : tcs'[k].id = tcs[k].id
  BY <1>0 DEF TcpTypes
<1>2. /\ tcp_connections' \in [TcId -> 0..Len(tcs')]
      /\ IdsLeadToLive' /\ MappedUntilTried'
  BY <1>1, DecidedStep
<1>3. TcpTypes'
  BY <1>0, <1>2 DEF TcpTypes, Tc
<1>4. SocketsLinked' /\ OneConnectionPerPeer' /\ UnboundIsTimed' /\ AttemptIsOpen' /\ StreamSound'
  BY <1>0 DEF SocketsLinked, OneConnectionPerPeer, UnboundIsTimed, AttemptIsOpen,
              AnsweredOnce, StreamSound, StreamInOrder, Tc
<1> QED BY <1>2, <1>3, <1>4 DEF TcpInv

(* The stream has no hole when the next buffer is put at its end, be it with  *)
(* those that wait or with those that were delivered.                         *)
LEMMA NextAtEnd ==
  ASSUME NEW n \in Nat, NEW g \in Seq(Nat), NEW w \in Seq(Nat), g \o w = [k \in 1..n |-> k]
  PROVE  g \o Append(w, n + 1) = [k \in 1..(n + 1) |-> k]
<1>1. /\ Len(g) \in Nat /\ Len(w) \in Nat /\ Len(g) + Len(w) = n
      /\ \A i \in 1..Len(g) : g[i] = i
      /\ \A i \in 1..Len(w) : w[i] = Len(g) + i
  <2>1. Len(g) \in Nat /\ Len(w) \in Nat /\ Len(g \o w) = Len(g) + Len(w) /\ Len(g \o w) = n
    BY ConcatProperties
  <2>2. \A i \in 1..(Len(g) + Len(w)) : (g \o w)[i] = i
    BY <2>1
  <2>3. \A i \in 1..(Len(g) + Len(w)) :
          (g \o w)[i] = IF i <= Len(g) THEN g[i] ELSE w[i - Len(g)]
    BY ConcatProperties
  <2>4. \A i \in 1..Len(g) : g[i] = i
    BY <2>1, <2>2, <2>3
  <2>5. ASSUME NEW i \in 1..Len(w) PROVE w[i] = Len(g) + i
    <3>1. Len(g) + i \in 1..(Len(g) + Len(w)) /\ ~(Len(g) + i <= Len(g)) /\ (Len(g) + i) - Len(g) = i
      BY <2>1
    <3>2. (g \o w)[Len(g) + i] = w[(Len(g) + i) - Len(g)]
      BY <2>3, <3>1
    <3> QED BY <3>1, <3>2, <2>2
  <2> QED BY <2>1, <2>4, <2>5
<1> DEFINE v == Append(w, n + 1)
<1>2. /\ v \in Seq(Nat) /\ Len(v) = Len(w) + 1
      /\ \A i \in 1..Len(v) : v[i] = Len(g) + i
  BY <1>1, AppendProperties
<1> HIDE DEF v
<1>3. /\ g \o v \in Seq(Nat) /\ Len(g \o v) = n + 1
      /\ \A i \in 1..(Len(g) + Len(v)) : (g \o v)[i] = IF i <= Len(g) THEN g[i] ELSE v[i - Len(g)]
  BY <1>1, <1>2, ConcatProperties
<1>4. ASSUME NEW i \in 1..(n + 1) PROVE (g \o v)[i] = i
  <2>1. i \in 1..(Len(g) + Len(v))
    BY <1>1, <1>2
  <2>2. CASE i <= Len(g)
    BY <2>1, <2>2, <1>1, <1>3
  <2>3. CASE ~(i <= Len(g))
    <3>1. i - Len(g) \in 1..Len(v) /\ Len(g) + (i - Len(g)) = i
      BY <2>1, <2>3, <1>1, <1>2
    <3>2. v[i - Len(g)] = Len(g) + (i - Len(g))
      BY <3>1, <1>2
    <3>3. (g \o v)[i] = v[i - Len(g)]
      BY <2>1, <2>3, <1>3
    <3> QED BY <3>1, <3>2, <3>3
  <2> QED BY <2>2, <2>3
<1> DEFINE l == g \o v
<1> HIDE DEF l
<1>5. l \in Seq(Nat) /\ Len(l) = n + 1 /\ \A i \in 1..(n + 1) : l[i] = i
  BY <1>3, <1>4 DEF l
<1>6. l = [k \in 1..(n + 1) |-> k]
  BY <1>5
<1> QED BY <1>6 DEF l, v

(* The same for a buffer that is delivered at once.                           *)
LEMMA NextDelivered ==
  ASSUME NEW n \in Nat, NEW g \in Seq(Nat), g = [k \in 1..n |-> k]
  PROVE  Append(g, n + 1) = [k \in 1..(n + 1) |-> k]
<1>1. Len(g) = n
  OBVIOUS
<1>2. /\ Append(g, n + 1) \in Seq(Nat) /\ Len(Append(g, n + 1)) = n + 1
      /\ \A i \in 1..n : Append(g, n + 1)[i] = i
      /\ Append(g, n + 1)[n + 1] = n + 1
  BY <1>1, AppendProperties
<1> DEFINE l == Append(g, n + 1)
<1> HIDE DEF l
<1>3. \A i \in 1..(n + 1) : l[i] = i
  BY <1>2 DEF l
<1>4. l \in Seq(Nat) /\ Len(l) = n + 1
  BY <1>2 DEF l
<1>5. l = [k \in 1..(n + 1) |-> k]
  BY <1>3, <1>4
<1> QED BY <1>5 DEF l

(* The peer's data: kept in order while the client is not bound, dropped when *)
(* the buffer is full, and passed on afterwards.                              *)
LEMMA InputStep ==
  ASSUME TcpAssumption, TcpInv, NEW t \in Tc, tcp_peer_input_handler(t)
  PROVE  TcpInv'
<1> DEFINE b == tcs[t].sent + 1
           tc == [tcs[t] EXCEPT !.sent = b]
           o == IF tc.state # "READY" \/ tc.client_s = None
                THEN add_unsent_buffer(tc, b) ELSE [tc EXCEPT !.got = Append(@, b)]
<1>0. /\ TcpTypes /\ SocketsLinked /\ IdsLeadToLive /\ OneConnectionPerPeer
      /\ UnboundIsTimed /\ AttemptIsOpen /\ StreamSound /\ MappedUntilTried
  BY DEF TcpInv
<1>1. /\ tcs \in Seq(TcObject) /\ live \subseteq Tc /\ told \subseteq TcId \X Tc
      /\ tcp_connections \in [TcId -> 0..Len(tcs)]
      /\ \A k \in Tc : tcs[k] \in TcObject /\ Len(tcs[k].bufs) <= MAX_UNSENT_BUFFER_SIZE
  BY <1>0 DEF TcpTypes, Tc
<1>2. /\ t \in live /\ tcs' = [tcs EXCEPT ![t] = o]
      /\ UNCHANGED <<live, tcp_connections, timers, connecting, sub_session, told, answers,
                     collided, tried>>
  BY DEF tcp_peer_input_handler
<1>3. /\ tcs[t] \in TcObject /\ tcs[t].got \in Seq(Nat) /\ tcs[t].bufs \in Seq(Nat)
      /\ tcs[t].sent \in Nat /\ b \in Nat /\ Len(tcs[t].bufs) <= MAX_UNSENT_BUFFER_SIZE
  BY <1>1, SMTT(20) DEF TcObject
<1>4. /\ tc \in TcObject /\ tc.sent = b /\ tc.got = tcs[t].got /\ tc.bufs = tcs[t].bufs
      /\ tc.id = tcs[t].id /\ tc.peer = tcs[t].peer /\ tc.state = tcs[t].state
      /\ tc.client_s = tcs[t].client_s /\ tc.full = tcs[t].full
  BY <1>3 DEF TcObject
<1>5. /\ ~tcs[t].full => tcs[t].got \o tcs[t].bufs = [n \in 1..tcs[t].sent |-> n]
      /\ tcs[t].state = "READY" => tcs[t].bufs = <<>> /\ tcs[t].client_s # None
  BY <1>0 DEF StreamSound, StreamInOrder
<1>6. /\ o \in TcObject /\ o.sent = b /\ o.id = tcs[t].id /\ o.peer = tcs[t].peer
      /\ o.state = tcs[t].state /\ o.client_s = tcs[t].client_s
      /\ Len(o.bufs) <= MAX_UNSENT_BUFFER_SIZE
      /\ o.state = "READY" => o.bufs = <<>>
      /\ ~o.full => o.got \o o.bufs = [n \in 1..b |-> n]
  <2>1. CASE tcs[t].state = "READY" /\ tcs[t].client_s # None
    <3> DEFINE g == Append(tcs[t].got, b)
    <3>1. o = [tc EXCEPT !.got = g]
      BY <2>1, <1>4
    <3>2. g \in Seq(Nat) /\ g \o <<>> = g
      BY <1>3, ConcatEmptySeq
    <3>3. tcs[t].got \o tcs[t].bufs = tcs[t].got
      BY <2>1, <1>3, <1>5, ConcatEmptySeq
    <3>4. ~tcs[t].full => g = [n \in 1..b |-> n]
      BY <3>3, <1>3, <1>5, NextDelivered
    <3> HIDE DEF g, tc, b, o
    <3>5. /\ o \in TcObject /\ o.sent = b /\ o.id = tc.id /\ o.peer = tc.peer
          /\ o.state = tc.state /\ o.client_s = tc.client_s /\ o.bufs = tc.bufs
          /\ o.full = tc.full /\ o.got = g
      BY <3>1, <3>2, <1>4 DEF TcObject
    <3>6. tc.bufs = <<>>
      BY <2>1, <1>4, <1>5
    <3> QED BY <3>2, <3>4, <3>5, <3>6, <1>3, <1>4
  <2>2. CASE tcs[t].state # "READY" /\ Len(tcs[t].bufs) >= MAX_UNSENT_BUFFER_SIZE
    <3>1. o = [tc EXCEPT !.full = TRUE]
      BY <2>2, <1>4 DEF add_unsent_buffer
    <3> HIDE DEF tc, b, o
    <3>2. /\ o \in TcObject /\ o.sent = b /\ o.id = tc.id /\ o.peer = tc.peer
          /\ o.state = tc.state /\ o.client_s = tc.client_s /\ o.bufs = tc.bufs /\ o.full = TRUE
      BY <3>1, <1>4 DEF TcObject
    <3> QED BY <2>2, <3>2, <1>3, <1>4
  <2>3. CASE tcs[t].state # "READY" /\ ~(Len(tcs[t].bufs) >= MAX_UNSENT_BUFFER_SIZE)
    <3> DEFINE w == Append(tcs[t].bufs, b)
    <3>1. o = [tc EXCEPT !.bufs = w]
      BY <2>3, <1>4 DEF add_unsent_buffer
    <3>2. w \in Seq(Nat) /\ Len(w) = Len(tcs[t].bufs) + 1
      BY <1>3
    <3>3. ~tcs[t].full => tcs[t].got \o w = [n \in 1..b |-> n]
      BY <1>3, <1>5, NextAtEnd
    <3>4. Len(w) <= MAX_UNSENT_BUFFER_SIZE
      BY <2>3, <3>2, <1>3 DEF TcpAssumption
    <3> HIDE DEF w, tc, b, o
    <3>5. /\ o \in TcObject /\ o.sent = b /\ o.id = tc.id /\ o.peer = tc.peer
          /\ o.state = tc.state /\ o.client_s = tc.client_s /\ o.bufs = w
          /\ o.full = tc.full /\ o.got = tc.got
      BY <3>1, <3>2, <1>4 DEF TcObject
    <3> QED BY <2>3, <3>3, <3>4, <3>5, <1>4
  <2> QED BY <2>1, <2>2, <2>3, <1>5
<1> HIDE DEF o, tc, b
<1>7. Replaced(t, o)
  BY <1>2, <1>5, <1>6 DEF Replaced
<1>8. /\ tcs' \in Seq(TcObject) /\ Len(tcs') = Len(tcs) /\ Tc' = Tc
      /\ tcs'[t] = o /\ \A k \in Tc : k # t => tcs'[k] = tcs[k]
      /\ \A k \in Tc : /\ tcs'[k].id = tcs[k].id
                       /\ tcs[k].id \in TcId
                       /\ Len(tcs'[k].bufs) <= MAX_UNSENT_BUFFER_SIZE
      /\ OneConnectionPerPeer' /\ StreamSound'
  BY <1>7, ReplaceKeeps
<1>9. \A k \in Tc : tcs'[k].client_s = tcs[k].client_s /\ tcs'[k].state = tcs[k].state
  BY <1>6, <1>8
<1>10. TcpTypes'
  BY <1>0, <1>2, <1>8 DEF TcpTypes
<1>11. SocketsLinked' /\ IdsLeadToLive' /\ UnboundIsTimed'
  BY <1>0, <1>1, <1>2, <1>8, <1>9 DEF SocketsLinked, IdsLeadToLive, UnboundIsTimed
<1>12. AttemptIsOpen'
  BY <1>0, <1>2, <1>8 DEF AttemptIsOpen, AnsweredOnce
<1>13. MappedUntilTried'
  BY <1>0, <1>1, <1>2, <1>8 DEF MappedUntilTried, ToldOwnId
<1> QED
  BY <1>8, <1>10, <1>11, <1>12, <1>13 DEF TcpInv

(* The end of the allocation.                                                 *)
LEMMA ClearStep ==
  ASSUME TcpAssumption, TcpInv, clear_allocation_tcp
  PROVE  TcpInv'
<1>0. /\ TcpTypes /\ SocketsLinked /\ IdsLeadToLive /\ AttemptIsOpen /\ StreamSound
      /\ MappedUntilTried
  BY DEF TcpInv
<1>1. /\ live' = {} /\ timers' = {} /\ connecting' = {}
      /\ tcp_connections' = [id \in TcId |->
           IF \E t \in live : tcs[t].id = id THEN 0 ELSE tcp_connections[id]]
      /\ sub_session' = [s \in DataSocket |->
           IF sub_session[s] \in live THEN 0 ELSE sub_session[s]]
      /\ UNCHANGED <<tcs, told, answers, collided, tried>>
  BY DEF clear_allocation_tcp
<1>2. TcpTypes'
  <2>1. /\ tcp_connections' \in [TcId -> 0..Len(tcs)]
        /\ sub_session' \in [DataSocket -> 0..Len(tcs)]
    BY <1>0, <1>1 DEF TcpTypes
  <2> QED BY <2>1, <1>0, <1>1 DEF TcpTypes, Tc
<1>3. SocketsLinked'
  BY <1>0, <1>1 DEF SocketsLinked
<1>4. IdsLeadToLive'
  <2>1. \A id \in TcId : tcp_connections'[id] = 0
    BY <1>0, <1>1 DEF IdsLeadToLive
  <2> QED BY <2>1 DEF IdsLeadToLive
<1>5. OneConnectionPerPeer' /\ UnboundIsTimed'
  BY <1>1 DEF OneConnectionPerPeer, UnboundIsTimed
<1>6. AttemptIsOpen'
  BY <1>0, <1>1 DEF AttemptIsOpen, AnsweredOnce, Tc
<1>7. StreamSound'
  BY <1>0, <1>1 DEF StreamSound, StreamInOrder, Tc
<1>8. MappedUntilTried'
  BY <1>0, <1>1 DEF MappedUntilTried, ToldOwnId
<1> QED
  BY <1>2, <1>3, <1>4, <1>5, <1>6, <1>7, <1>8 DEF TcpInv

(* Steps that touch none of the variables the invariant is about.             *)
LEMMA QuietStep ==
  ASSUME TcpInv,
         UNCHANGED <<tcs, live, tcp_connections, timers, connecting, sub_session, told,
                     answers, collided, tried>>
  PROVE  TcpInv'
<1>0. /\ TcpTypes /\ SocketsLinked /\ IdsLeadToLive /\ OneConnectionPerPeer
      /\ UnboundIsTimed /\ AttemptIsOpen /\ StreamSound /\ MappedUntilTried
  BY DEF TcpInv
<1>1. TcpTypes'
  BY <1>0 DEF TcpTypes, Tc
<1>2. SocketsLinked' /\ IdsLeadToLive' /\ OneConnectionPerPeer' /\ UnboundIsTimed'
  BY <1>0 DEF SocketsLinked, IdsLeadToLive, OneConnectionPerPeer, UnboundIsTimed
<1>3. AttemptIsOpen' /\ StreamSound' /\ MappedUntilTried'
  BY <1>0 DEF AttemptIsOpen, AnsweredOnce, StreamSound, StreamInOrder, MappedUntilTried,
              ToldOwnId, Tc
<1> QED BY <1>1, <1>2, <1>3 DEF TcpInv

(* The end of an attempt, successful or not.                                  *)
LEMMA CompletedStep ==
  ASSUME TcpAssumption, TcpInv, NEW t \in connecting, NEW success \in BOOLEAN,
         tcp_peer_connection_completed_callback(t, success)
  PROVE  TcpInv'
<1>1. CASE success
  <2>1. success = TRUE
    BY <1>1
  <2> QED BY <2>1, ConnectedStep
<1>2. CASE ~success
  <2>1. t \in live
    BY DEF TcpInv, TcpTypes
  <2>2. Deleted(t)
    BY <1>2, <2>1 DEF tcp_peer_connection_completed_callback, Deleted
  <2> QED BY <2>2, DeleteStep
<1> QED BY <1>1, <1>2

(* CONNECTION-BIND: it succeeds, it fails, or it waits for the user's key.    *)
LEMMA BindStep ==
  ASSUME TcpAssumption, TcpInv, NEW id \in TcId, NEW s \in DataSocket,
         turnserver_accept_tcp_client_data_connection(id, s)
  PROVE  TcpInv'
<1> DEFINE t == tcp_connections[id]
<1>1. /\ sub_session[s] = 0 /\ t # 0
      /\ UNCHANGED <<live, connecting, told, answers, collided>>
  BY DEF turnserver_accept_tcp_client_data_connection
<1>2. CASE /\ tcs[t].client_s = None
           /\ tcs' = [tcs EXCEPT ![t] =
                [tcp_deliver_delayed_buffer(t) EXCEPT !.state = "READY", !.client_s = s]]
           /\ sub_session' = [sub_session EXCEPT ![s] = t]
           /\ timers' = timers \ {<<"conn_bind", t>>}
           /\ Decided(id, s)
  BY <1>1, <1>2, BoundStep
<1>3. CASE Decided(id, s) /\ UNCHANGED <<tcs, sub_session, timers>>
  BY <1>1, <1>3, FailedBindStep
<1>4. CASE Postponed(id, s)
  BY <1>1, <1>4, QuietStep DEF Postponed
<1> QED
  BY <1>2, <1>3, <1>4 DEF turnserver_accept_tcp_client_data_connection

(* CONNECT of the client, and a peer that connects.                           *)
LEMMA NewConnectionStep ==
  ASSUME TcpAssumption, TcpInv, NEW peer \in Peer, NEW id \in TcId,
         handle_turn_connect(peer, id) \/ tcp_peer_accept_connection(peer, id)
  PROVE  TcpInv'
<1>1. CASE handle_turn_connect(peer, id)
  <2>1. Created(peer, id, "CLIENT_TO_PEER_CONNECTING", TRUE, {<<"peer_conn", New>>}, {New}, 0)
    <3>1. {<<"peer_conn", New>>} \subseteq Kinds \X {New} /\ "peer_conn" \in Kinds
      BY DEF Kinds
    <3>2. "CLIENT_TO_PEER_CONNECTING" \in TcState \ {"READY"}
      BY DEF TcState
    <3>3. /\ get_tcp_connection_by_peer(peer) = {}
          /\ create_tcp_connection(peer, id, "CLIENT_TO_PEER_CONNECTING", TRUE)
          /\ timers' = timers \cup {<<"peer_conn", New>>} /\ connecting' = connecting \cup {New}
          /\ answers' = Append(answers, 0) /\ UNCHANGED <<sub_session, told, tried>>
      BY <1>1 DEF handle_turn_connect, tcp_start_connection_to_peer
    <3> QED BY <3>1, <3>2, <3>3 DEF Created
  <2> QED BY <2>1, CreateStep
<1>2. CASE tcp_peer_accept_connection(peer, id)
  <2>1. CASE /\ create_tcp_connection(peer, id, "PEER_CONNECTED", TRUE)
             /\ timers' = timers \cup {<<"conn_bind", New>>}
             /\ told' = told \cup {<<id, New>>}
    <3>1. Created(peer, id, "PEER_CONNECTED", TRUE, {<<"conn_bind", New>>}, {}, 1)
      <4>1. {<<"conn_bind", New>>} \subseteq Kinds \X {New} /\ "conn_bind" \in Kinds
        BY DEF Kinds
      <4>2. "PEER_CONNECTED" \in TcState \ {"READY"}
        BY DEF TcState
      <4>3. /\ get_tcp_connection_by_peer(peer) = {} /\ connecting' = connecting \cup {}
            /\ answers' = Append(answers, 1) /\ UNCHANGED <<sub_session, tried>>
        BY <1>2 DEF tcp_peer_accept_connection
      <4>4. <<"peer_conn", New>> \notin {<<"conn_bind", New>>}
        OBVIOUS
      <4> QED BY <2>1, <4>1, <4>2, <4>3, <4>4 DEF Created
    <3> QED BY <3>1, CreateStep
  <2>2. CASE /\ create_tcp_connection(peer, id, "UNKNOWN", FALSE)
             /\ UNCHANGED <<timers, told>>
    <3>1. Created(peer, id, "UNKNOWN", FALSE, {}, {}, 1)
      BY <1>2, <2>2 DEF tcp_peer_accept_connection, Created, Kinds, TcState
    <3> QED BY <3>1, CreateStep
  <2> QED BY <1>2, <2>1, <2>2 DEF tcp_peer_accept_connection
<1> QED BY <1>1, <1>2

(* Every step of the allocation keeps the invariant.                          *)
LEMMA TcpStep ==
  ASSUME TcpAssumption, TcpInv, [TcpNext]_tcpVars
  PROVE  TcpInv'
<1>1. CASE UNCHANGED tcpVars
  BY <1>1, QuietStep DEF tcpVars
<1>2. CASE \E peer \in Peer, id \in TcId :
             handle_turn_connect(peer, id) \/ tcp_peer_accept_connection(peer, id)
  BY <1>2, NewConnectionStep
<1>3. ASSUME NEW t \in Tc,
             \/ connect_eventcb(t) \/ tcp_peer_conn_timeout_handler(t)
             \/ tcp_conn_bind_timeout_handler(t) \/ tcp_peer_input_handler(t)
             \/ close_ioa_socket_after_processing_if_necessary(t)
      PROVE  TcpInv'
  <2>1. CASE connect_eventcb(t)
    BY <2>1, CompletedStep DEF connect_eventcb
  <2>2. CASE tcp_peer_conn_timeout_handler(t)
    <3>1. t \in connecting
      <4>1. <<"peer_conn", t>> \in timers /\ timers \subseteq Kinds \X live
        BY <2>2 DEF tcp_peer_conn_timeout_handler, TcpInv, TcpTypes
      <4>2. t \in live
        BY <4>1
      <4> QED BY <4>1, <4>2 DEF TcpInv, AttemptIsOpen
    <3> QED BY <2>2, <3>1, CompletedStep DEF tcp_peer_conn_timeout_handler
  <2>3. CASE tcp_conn_bind_timeout_handler(t)
    <3>1. t \in live
      BY <2>3 DEF tcp_conn_bind_timeout_handler, TcpInv, TcpTypes
    <3>2. Deleted(t)
      BY <2>3, <3>1 DEF tcp_conn_bind_timeout_handler, Deleted
    <3> QED BY <3>2, DeleteStep
  <2>4. CASE tcp_peer_input_handler(t)
    BY <2>4, InputStep
  <2>5. CASE close_ioa_socket_after_processing_if_necessary(t)
    <3>1. Deleted(t)
      BY <2>5 DEF close_ioa_socket_after_processing_if_necessary, Deleted
    <3> QED BY <3>1, DeleteStep
  <2> QED BY <1>3, <2>1, <2>2, <2>3, <2>4, <2>5
<1>4. ASSUME NEW id \in TcId, NEW s \in DataSocket,
             handle_turn_connection_bind(id, s) \/ BindRefused(id, s)
      PROVE  TcpInv'
  <2>1. CASE handle_turn_connection_bind(id, s)
    BY <2>1, BindStep DEF handle_turn_connection_bind
  <2>2. CASE BindRefused(id, s)
    BY <2>2, QuietStep DEF BindRefused
  <2> QED BY <1>4, <2>1, <2>2
<1>5. CASE clear_allocation_tcp
  BY <1>5, ClearStep
<1> QED BY <1>1, <1>2, <1>3, <1>4, <1>5 DEF TcpNext

(* The invariant says all that TcpConnectionsSound does.                      *)
LEMMA InvIsSound ==
  ASSUME TcpAssumption, TcpInv
  PROVE  TcpConnectionsSound
<1>0. /\ TcpTypes /\ SocketsLinked /\ IdsLeadToLive /\ OneConnectionPerPeer
      /\ UnboundIsTimed /\ AttemptIsOpen /\ StreamSound /\ MappedUntilTried
  BY DEF TcpInv
<1>1. TcpTypeOK
  <2>1. \A t \in Tc : tcs[t].state \in TcState /\ tcs[t].client_s \in DataSocket \cup {None}
    <3>1. \A t \in Tc : tcs[t] \in TcObject
      BY <1>0 DEF TcpTypes, Tc
    <3> QED BY <3>1 DEF TcObject
  <2>2. timers \subseteq {"peer_conn", "conn_bind"} \X Tc
    BY <1>0 DEF TcpTypes, Kinds
  <2> QED BY <2>1, <2>2, <1>0 DEF TcpTypeOK, TcpTypes
<1>2. NoCallbackToFreed
  BY <1>0 DEF NoCallbackToFreed, TcpTypes, SocketsLinked
<1>3. ToldIsBindable
  BY <1>0 DEF ToldIsBindable, MappedUntilTried, ToldOwnId
<1> QED
  BY <1>0, <1>1, <1>2, <1>3 DEF TcpConnectionsSound, AttemptIsOpen, StreamSound

(* The connections of a TCP relay are sound in every reachable state: nothing *)
(* calls a freed tcp_connection, an id leads to the live connection that has  *)
(* it, a peer has at most one, the client gets the peer's bytes in order and  *)
(* without a hole, a connection without its client is timed, a CONNECT is     *)
(* answered at most once, and what the client was told of can be bound.       *)
THEOREM TcpConnectionsAlwaysSound ==
  ASSUME TcpAssumption
  PROVE  TcpSpec => []TcpConnectionsSound
<1>1. TcpInit => TcpInv
  <2>1. SUFFICES ASSUME TcpInit PROVE TcpInv
    OBVIOUS
  <2>2. Len(tcs) = 0 /\ Tc = {} /\ live = {} /\ connecting = {} /\ timers = {} /\ told = {}
    BY <2>1 DEF TcpInit, Tc
  <2>3. TcpTypes
    BY <2>1, <2>2 DEF TcpInit, TcpTypes
  <2>4. SocketsLinked /\ IdsLeadToLive /\ OneConnectionPerPeer /\ UnboundIsTimed
    BY <2>1, <2>2 DEF TcpInit, SocketsLinked, IdsLeadToLive, OneConnectionPerPeer, UnboundIsTimed
  <2>5. AttemptIsOpen /\ StreamSound /\ MappedUntilTried
    BY <2>1, <2>2 DEF TcpInit, AttemptIsOpen, AnsweredOnce, StreamSound, StreamInOrder,
                      MappedUntilTried, ToldOwnId
  <2> QED BY <2>3, <2>4, <2>5 DEF TcpInv
<1>2. TcpInv /\ [TcpNext]_tcpVars => TcpInv'
  BY TcpStep
<1>3. TcpInv => TcpConnectionsSound
  BY InvIsSound
<1> QED BY <1>1, <1>2, <1>3, PTL DEF TcpSpec

-----------------------------------------------------------------------------
(* For any threads, ports and tokens: every relay port is in the pool or has  *)
(* one owner, and so has every open socket. Both are one statement (Alone)    *)
(* about what is left over, what the threads, the sessions and the            *)
(* reservations have; an action hands a port or a socket from one of them to  *)
(* another, and the lemmas about Alone say that this keeps it.                *)

\* p is left, or exactly one thread, session or entry has it.
AloneAt(p, left, jobs, ses, ent) ==
    /\ \/ p \in left \/ (\E th \in Threads : p \in jobs[th] \/ ses[th] = p)
       \/ \E t \in DOMAIN ent : ent[t] = p
    /\ p \in left => /\ \A th \in Threads : p \notin jobs[th] /\ ses[th] # p
                     /\ \A t \in DOMAIN ent : ent[t] # p
    /\ \A th, u \in Threads :
         /\ p \in jobs[th] => ses[u] # p /\ (p \in jobs[u] => u = th)
         /\ ses[th] = p /\ ses[u] = p => u = th
    /\ \A t \in DOMAIN ent : ent[t] = p =>
         /\ \A th \in Threads : p \notin jobs[th] /\ ses[th] # p
         /\ \A u \in DOMAIN ent : ent[u] = p => u = t
Alone(left, jobs, ses, ent) == \A p \in Ports : AloneAt(p, left, jobs, ses, ent)

\* What is alone in this sense is counted once.
LEMMA AloneIsOne ==
    ASSUME NEW left, NEW jobs, NEW ent, NEW p \in Ports, AloneAt(p, left, jobs, relay, ent)
    PROVE  OneHas(p, left, jobs, ent)
<1> DEFINE A == {th \in Threads : p \in jobs[th]}
           B == {th \in Threads : relay[th] = p}
           C == {t \in DOMAIN ent : ent[t] = p}
<1>1. \/ p \in left /\ A = {} /\ B = {} /\ C = {}
      \/ p \notin left /\ (\E x : A = {x}) /\ B = {} /\ C = {}
      \/ p \notin left /\ A = {} /\ (\E x : B = {x}) /\ C = {}
      \/ p \notin left /\ A = {} /\ B = {} /\ \E x : C = {x}
  <2>1. CASE p \in left
    BY <2>1 DEF AloneAt
  <2>2. CASE \E th \in Threads : p \in jobs[th]
    <3>1. PICK th \in Threads : p \in jobs[th]
      BY <2>2
    <3>2. A = {th} /\ B = {} /\ C = {} /\ p \notin left
      BY <3>1 DEF AloneAt
    <3> QED BY <3>2
  <2>3. CASE \E th \in Threads : relay[th] = p
    <3>1. PICK th \in Threads : relay[th] = p
      BY <2>3
    <3>2. B = {th} /\ A = {} /\ C = {} /\ p \notin left
      BY <3>1 DEF AloneAt
    <3> QED BY <3>2
  <2>4. CASE \E t \in DOMAIN ent : ent[t] = p
    <3>1. PICK t \in DOMAIN ent : ent[t] = p
      BY <2>4
    <3>2. C = {t} /\ A = {} /\ B = {} /\ p \notin left
      BY <3>1 DEF AloneAt
    <3> QED BY <3>2
  <2> QED BY <2>1, <2>2, <2>3, <2>4 DEF AloneAt
<1>2. Cardinality({}) = 0 /\ \A x : Cardinality({x}) = 1
  BY FS_EmptySet, FS_Singleton
<1>3. (IF p \in left THEN 1 ELSE 0) + Cardinality(A) + Cardinality(B) + Cardinality(C) = 1
  <2> HIDE DEF A, B, C
  <2>1. A = {} => Cardinality(A) = 0
    BY <1>2
  <2>2. B = {} => Cardinality(B) = 0
    BY <1>2
  <2>3. C = {} => Cardinality(C) = 0
    BY <1>2
  <2>4. (\E x : A = {x}) => Cardinality(A) = 1
    BY <1>2
  <2>5. (\E x : B = {x}) => Cardinality(B) = 1
    BY <1>2
  <2>6. (\E x : C = {x}) => Cardinality(C) = 1
    BY <1>2
  <2> DEFINE a == Cardinality(A)
             b == Cardinality(B)
             c == Cardinality(C)
  <2>7. \/ p \in left /\ a = 0 /\ b = 0 /\ c = 0
        \/ p \notin left /\ a = 1 /\ b = 0 /\ c = 0
        \/ p \notin left /\ a = 0 /\ b = 1 /\ c = 0
        \/ p \notin left /\ a = 0 /\ b = 0 /\ c = 1
    BY <1>1, <2>1, <2>2, <2>3, <2>4, <2>5, <2>6, Zenon
  <2> HIDE DEF a, b, c
  <2>8. (IF p \in left THEN 1 ELSE 0) + a + b + c = 1
    BY <2>7
  <2> QED BY <2>8 DEF a, b, c
<1> QED BY <1>3 DEF OneHas

Jobs == [Threads -> SUBSET Ports]
Ses == [Threads -> Ports \cup {0}]

\* A thread takes what was left.
LEMMA GiveOut ==
    ASSUME NEW L, NEW J \in Jobs, NEW S \in Ses, NEW E, Alone(L, J, S, E),
           NEW th \in Threads, NEW M \in SUBSET Ports, M \subseteq L
    PROVE  Alone(L \ M, [J EXCEPT ![th] = J[th] \cup M], S, E)
<1> DEFINE J2 == [J EXCEPT ![th] = J[th] \cup M]
<1>1. J2[th] = J[th] \cup M /\ \A u \in Threads : u # th => J2[u] = J[u]
  BY DEF Jobs
<1> HIDE DEF J2
<1>2. ASSUME NEW x \in Ports PROVE AloneAt(x, L \ M, J2, S, E)
  <2>1. AloneAt(x, L, J, S, E)
    BY DEF Alone
  <2> QED BY <1>1, <2>1 DEF AloneAt
<1> QED BY <1>2 DEF Alone, J2

\* A thread gives one back.
LEMMA TakeBack ==
    ASSUME NEW L, NEW J \in Jobs, NEW S \in Ses, NEW E, Alone(L, J, S, E),
           NEW th \in Threads, NEW p \in Ports, p \in J[th]
    PROVE  Alone(L \cup {p}, [J EXCEPT ![th] = J[th] \ {p}], S, E)
<1> DEFINE J2 == [J EXCEPT ![th] = J[th] \ {p}]
<1>1. J2[th] = J[th] \ {p} /\ \A u \in Threads : u # th => J2[u] = J[u]
  BY DEF Jobs
<1> HIDE DEF J2
<1>2. ASSUME NEW x \in Ports PROVE AloneAt(x, L \cup {p}, J2, S, E)
  <2>1. AloneAt(x, L, J, S, E)
    BY DEF Alone
  <2> QED BY <1>1, <2>1 DEF AloneAt
<1> QED BY <1>2 DEF Alone, J2

\* A session gets the only one its thread has.
LEMMA JobToSession ==
    ASSUME 0 \notin Ports, NEW L, NEW J \in Jobs, NEW S \in Ses, NEW E, Alone(L, J, S, E),
           NEW th \in Threads, NEW p \in Ports, J[th] = {p}, S[th] = 0
    PROVE  Alone(L, [J EXCEPT ![th] = {}], [S EXCEPT ![th] = p], E)
<1> DEFINE J2 == [J EXCEPT ![th] = {}]
           S2 == [S EXCEPT ![th] = p]
<1>1. /\ J2[th] = {} /\ \A u \in Threads : u # th => J2[u] = J[u]
      /\ S2[th] = p /\ \A u \in Threads : u # th => S2[u] = S[u]
  BY DEF Jobs, Ses
<1> HIDE DEF J2, S2
<1>2. ASSUME NEW x \in Ports PROVE AloneAt(x, L, J2, S2, E)
  <2>1. AloneAt(x, L, J, S, E)
    BY DEF Alone
  <2> QED BY <1>1, <2>1 DEF AloneAt
<1> QED BY <1>2 DEF Alone, J2, S2

\* A session gets what was left.
LEMMA LeftToSession ==
    ASSUME 0 \notin Ports, NEW L, NEW J \in Jobs, NEW S \in Ses, NEW E, Alone(L, J, S, E),
           NEW th \in Threads, NEW p \in Ports, p \in L, S[th] = 0
    PROVE  Alone(L \ {p}, J, [S EXCEPT ![th] = p], E)
<1> DEFINE S2 == [S EXCEPT ![th] = p]
<1>1. S2[th] = p /\ \A u \in Threads : u # th => S2[u] = S[u]
  BY DEF Ses
<1> HIDE DEF S2
<1>2. ASSUME NEW x \in Ports PROVE AloneAt(x, L \ {p}, J, S2, E)
  <2>1. AloneAt(x, L, J, S, E)
    BY DEF Alone
  <2> QED BY <1>1, <2>1 DEF AloneAt
<1> QED BY <1>2 DEF Alone, S2

\* A thread's two go to its session and to a new entry.
LEMMA PutEntry ==
    ASSUME 0 \notin Ports, NEW L, NEW J \in Jobs, NEW S \in Ses, NEW E, Alone(L, J, S, E),
           NEW th \in Threads, NEW p \in Ports, NEW q \in Ports, p # q, J[th] = {p, q}, S[th] = 0,
           NEW t, t \notin DOMAIN E,
           NEW F, DOMAIN F = DOMAIN E \cup {t}, F[t] = q, \A u \in DOMAIN E : F[u] = E[u]
    PROVE  Alone(L, [J EXCEPT ![th] = {}], [S EXCEPT ![th] = p], F)
<1> DEFINE J2 == [J EXCEPT ![th] = {}]
           S2 == [S EXCEPT ![th] = p]
<1>1. /\ J2[th] = {} /\ \A u \in Threads : u # th => J2[u] = J[u]
      /\ S2[th] = p /\ \A u \in Threads : u # th => S2[u] = S[u]
  BY DEF Jobs, Ses
<1> HIDE DEF J2, S2
<1>2. ASSUME NEW x \in Ports PROVE AloneAt(x, L, J2, S2, F)
  <2>1. AloneAt(x, L, J, S, E)
    BY DEF Alone
  <2> QED BY <1>1, <2>1 DEF AloneAt
<1> QED BY <1>2 DEF Alone, J2, S2

\* A session takes the one of an entry.
LEMMA EntryToSession ==
    ASSUME 0 \notin Ports, NEW L, NEW J \in Jobs, NEW S \in Ses, NEW E, Alone(L, J, S, E),
           NEW th \in Threads, NEW t \in DOMAIN E, E[t] \in Ports, S[th] = 0,
           NEW F, DOMAIN F = DOMAIN E \ {t}, \A u \in DOMAIN F : F[u] = E[u]
    PROVE  Alone(L, J, [S EXCEPT ![th] = E[t]], F)
<1> DEFINE S2 == [S EXCEPT ![th] = E[t]]
<1>1. S2[th] = E[t] /\ \A u \in Threads : u # th => S2[u] = S[u]
  BY DEF Ses
<1> HIDE DEF S2
<1>2. ASSUME NEW x \in Ports PROVE AloneAt(x, L, J, S2, F)
  <2>1. AloneAt(x, L, J, S, E)
    BY DEF Alone
  <2> QED BY <1>1, <2>1 DEF AloneAt
<1> QED BY <1>2 DEF Alone, S2

\* A session leaves its own to its thread.
LEMMA SessionToJob ==
    ASSUME 0 \notin Ports, NEW L, NEW J \in Jobs, NEW S \in Ses, NEW E, Alone(L, J, S, E),
           NEW th \in Threads, S[th] \in Ports
    PROVE  Alone(L, [J EXCEPT ![th] = J[th] \cup {S[th]}], [S EXCEPT ![th] = 0], E)
<1> DEFINE J2 == [J EXCEPT ![th] = J[th] \cup {S[th]}]
           S2 == [S EXCEPT ![th] = 0]
<1>1. /\ J2[th] = J[th] \cup {S[th]} /\ \A u \in Threads : u # th => J2[u] = J[u]
      /\ S2[th] = 0 /\ \A u \in Threads : u # th => S2[u] = S[u]
  BY DEF Jobs, Ses
<1> HIDE DEF J2, S2
<1>2. ASSUME NEW x \in Ports PROVE AloneAt(x, L, J2, S2, E)
  <2>1. AloneAt(x, L, J, S, E)
    BY DEF Alone
  <2> QED BY <1>1, <2>1 DEF AloneAt
<1> QED BY <1>2 DEF Alone, J2, S2

\* An entry's one is left over.
LEMMA EntryToLeft ==
    ASSUME NEW L, NEW J \in Jobs, NEW S \in Ses, NEW E, Alone(L, J, S, E),
           NEW t \in DOMAIN E, E[t] \in Ports,
           NEW F, DOMAIN F = DOMAIN E \ {t}, \A u \in DOMAIN F : F[u] = E[u]
    PROVE  Alone(L \cup {E[t]}, J, S, F)
<1>1. ASSUME NEW x \in Ports PROVE AloneAt(x, L \cup {E[t]}, J, S, F)
  <2>1. AloneAt(x, L, J, S, E)
    BY DEF Alone
  <2> QED BY <2>1 DEF AloneAt
<1> QED BY <1>1 DEF Alone

-----------------------------------------------------------------------------
\* The work of a thread, and what its fields are at each point.
Calls == [op : {"release", "shut"}, port : Ports]
JobRecords ==
    [at : {"idle", "port", "rtcp", "rtp", "put", "undo"}, even : {-1, 0, 1},
     port : Ports \cup {0}, rtcp : Ports \cup {0}, token : Tokens \cup {0},
     tries : 0 .. MaxTry, todo : Seq(Calls), next : {"idle", "port"}]
Working(j) == j.at \in {"rtcp", "rtp", "put"}
Distinct(calls) == \A i, k \in DOMAIN calls : calls[i] = calls[k] => i = k
JobShape(j) ==
    /\ j \in JobRecords
    /\ j.at = "undo" => j.todo # <<>> /\ Distinct(j.todo)
    /\ j.at # "undo" => j.todo = <<>>
    /\ Working(j) => j.port \in Ports /\ j.tries < MaxTry
    /\ Working(j) /\ j.even = 1 => j.port + 1 \in Ports /\ j.token \in Tokens
    /\ j.at = "rtcp" => j.even = 1 /\ j.rtcp = 0
    /\ j.at = "rtp" => j.rtcp = IF j.even = 1 THEN j.port + 1 ELSE 0
    /\ j.at = "put" => j.even = 1 /\ j.rtcp = j.port + 1
    /\ ~Working(j) => j.rtcp = 0

RelayTypes ==
    /\ free \subseteq Ports /\ os \subseteq Ports
    /\ DOMAIN reserved \subseteq Tokens
    /\ reserved \in [DOMAIN reserved -> [port : Ports, age : 0 .. Timeout + 1]]
    /\ relay \in [Threads -> Ports \cup {0}]
    /\ job \in [Threads -> JobRecords] /\ \A th \in Threads : JobShape(job[th])
    /\ locked \in Ports \cup {0}

\* A thread whose session has its socket is done with it.
SessionIsIdle == \A th \in Threads : relay[th] # 0 => job[th] = NoJob

\* The token of a pair that is being made is nobody else's.
Tokened(j) == Working(j) /\ j.even = 1
TokensApart ==
    \A th \in Threads : Tokened(job[th]) =>
        /\ job[th].token \notin DOMAIN reserved
        /\ \A u \in Threads : Tokened(job[u]) /\ job[u].token = job[th].token => u = th

\* While the timer closes a socket, the entry is the head of its list and the
\* only one with that socket.
LockedIsHead ==
    locked # 0 => /\ Head(due) \in DOMAIN reserved /\ reserved[Head(due)].port = locked
                  /\ \A t \in DOMAIN reserved : reserved[t].port = locked => t = Head(due)

PortsAlone == Alone(free, JobPorts, relay, EntryPorts)
SocketsAlone == Alone(Ports \ os, JobSockets, relay, EntrySockets)

RelayInv ==
    RelayTypes /\ SessionIsIdle /\ TokensApart /\ LockedIsHead /\ PortsAlone /\ SocketsAlone

\* What a thread has that works on a port, or on a pair.
LEMMA WorkingHas ==
    ASSUME RelayAssumption, NEW j, JobShape(j), Working(j)
    PROVE  /\ PortsOf(j) = IF j.even = 1 THEN {j.port, j.port + 1} ELSE {j.port}
           /\ SocketsOf(j) = (IF j.rtcp = 0 THEN {} ELSE {j.rtcp}) \cup (IF j.at = "put" THEN {j.port} ELSE {})
<1>1. j.todo = <<>> /\ j.port \in Ports /\ (j.even = 1 => j.port + 1 \in Ports)
      /\ j.rtcp \in Ports \cup {0} /\ 0 \notin Ports
  BY DEF JobShape, Working, RelayAssumption, JobRecords
<1>2. DOMAIN j.todo = {}
  BY <1>1
<1>3. PortsOf(j) = IF j.even = 1 THEN {j.port, j.port + 1} ELSE {j.port}
  BY <1>1, <1>2 DEF PortsOf, Working
<1>4. SocketsOf(j) = (IF j.rtcp = 0 THEN {} ELSE {j.rtcp}) \cup (IF j.at = "put" THEN {j.port} ELSE {})
  BY <1>1, <1>2 DEF SocketsOf
<1> QED BY <1>3, <1>4

\* What a thread has that does not: what it is to give back and to close.
LEMMA OtherHas ==
    ASSUME RelayAssumption, NEW j, JobShape(j), ~Working(j)
    PROVE  /\ PortsOf(j) = {p \in Ports : \E i \in DOMAIN j.todo : j.todo[i] = Release(p)}
           /\ SocketsOf(j) = {p \in Ports : \E i \in DOMAIN j.todo : j.todo[i] = Shut(p)}
           /\ j.at # "undo" => PortsOf(j) = {} /\ SocketsOf(j) = {}
<1>1. j.rtcp = 0 /\ 0 \notin Ports /\ j.at # "put" /\ (j.at # "undo" => j.todo = <<>>)
  BY DEF JobShape, Working, RelayAssumption
<1> QED BY <1>1 DEF PortsOf, SocketsOf, Working

\* A thread without work has nothing.
LEMMA NoJobHas ==
    ASSUME RelayAssumption
    PROVE  JobShape(NoJob) /\ PortsOf(NoJob) = {} /\ SocketsOf(NoJob) = {} /\ ~Working(NoJob)
<1>1. JobShape(NoJob) /\ ~Working(NoJob) /\ NoJob.at # "undo"
  BY DEF NoJob, JobShape, JobRecords, Working, RelayAssumption
<1> QED BY <1>1, OtherHas

\* Only the thread th changes what threads have.
LEMMA JobChange ==
    ASSUME RelayTypes, NEW th \in Threads, NEW j, JobShape(j), job' = [job EXCEPT ![th] = j]
    PROVE  /\ JobPorts' = [JobPorts EXCEPT ![th] = PortsOf(j)]
           /\ JobSockets' = [JobSockets EXCEPT ![th] = SocketsOf(j)]
           /\ job' \in [Threads -> JobRecords] /\ \A u \in Threads : JobShape(job'[u])
           /\ job'[th] = j /\ \A u \in Threads : u # th => job'[u] = job[u]
<1>1. job \in [Threads -> JobRecords] /\ j \in JobRecords /\ \A u \in Threads : JobShape(job[u])
  BY DEF RelayTypes, JobShape
<1>2. job'[th] = j /\ \A u \in Threads : u # th => job'[u] = job[u]
  BY <1>1
<1>3. JobPorts' = [JobPorts EXCEPT ![th] = PortsOf(j)]
  <2>1. JobPorts' = [u \in Threads |-> PortsOf(job'[u])]
    BY DEF JobPorts, PortsOf
  <2>2. JobPorts = [u \in Threads |-> PortsOf(job[u])]
    BY DEF JobPorts
  <2>3. \A u \in Threads : JobPorts'[u] = IF u = th THEN PortsOf(j) ELSE JobPorts[u]
    BY <1>2, <2>1, <2>2
  <2> QED BY <2>1, <2>2, <2>3
<1>4. JobSockets' = [JobSockets EXCEPT ![th] = SocketsOf(j)]
  <2>1. JobSockets' = [u \in Threads |-> SocketsOf(job'[u])]
    BY DEF JobSockets, SocketsOf
  <2>2. JobSockets = [u \in Threads |-> SocketsOf(job[u])]
    BY DEF JobSockets
  <2>3. \A u \in Threads : JobSockets'[u] = IF u = th THEN SocketsOf(j) ELSE JobSockets[u]
    BY <1>2, <2>1, <2>2
  <2> QED BY <2>1, <2>2, <2>3
<1>5. job' \in [Threads -> JobRecords] /\ \A u \in Threads : JobShape(job'[u])
  BY <1>1, <1>2
<1> QED BY <1>2, <1>3, <1>4, <1>5

\* The types that the lemmas about Alone ask for.
LEMMA HasTypes ==
    ASSUME RelayAssumption, RelayTypes
    PROVE  /\ JobPorts \in Jobs /\ JobSockets \in Jobs /\ relay \in Ses /\ 0 \notin Ports
           /\ \A th \in Threads : /\ JobPorts[th] = PortsOf(job[th]) /\ JobSockets[th] = SocketsOf(job[th])
                                  /\ JobShape(job[th])
           /\ DOMAIN EntrySockets = DOMAIN reserved /\ \A t \in DOMAIN reserved : EntrySockets[t] = reserved[t].port
           /\ locked = 0 => EntryPorts = EntrySockets
<1>1. JobPorts \in Jobs /\ JobSockets \in Jobs
  BY DEF Jobs, JobPorts, JobSockets, PortsOf, SocketsOf
<1>2. locked = 0 => EntryPorts = EntrySockets
  <2>1. \A t \in DOMAIN reserved : reserved[t].port \in Ports
    BY DEF RelayTypes
  <2> QED BY <2>1 DEF EntryPorts, EntrySockets, RelayAssumption
<1> QED BY <1>1, <1>2 DEF RelayTypes, RelayAssumption, Ses, JobPorts, JobSockets, EntrySockets

\* A step of a thread that keeps what it has keeps who has what.
LEMMA SameHas ==
    ASSUME RelayTypes, PortsAlone, SocketsAlone, NEW th \in Threads, NEW j, JobShape(j),
           job' = [job EXCEPT ![th] = j], UNCHANGED <<reserved, relay, locked>>
    PROVE  /\ PortsOf(j) = PortsOf(job[th]) /\ free' = free => PortsAlone'
           /\ SocketsOf(j) = SocketsOf(job[th]) /\ os' = os => SocketsAlone'
<1>1. JobPorts' = [JobPorts EXCEPT ![th] = PortsOf(j)] /\ JobSockets' = [JobSockets EXCEPT ![th] = SocketsOf(j)]
  BY JobChange
<1>2. PortsOf(j) = PortsOf(job[th]) => JobPorts' = JobPorts
  BY <1>1 DEF JobPorts
<1>3. SocketsOf(j) = SocketsOf(job[th]) => JobSockets' = JobSockets
  BY <1>1 DEF JobSockets
<1>4. EntryPorts' = EntryPorts /\ EntrySockets' = EntrySockets /\ relay' = relay
  BY DEF EntryPorts, EntrySockets
<1> QED BY <1>2, <1>3, <1>4 DEF PortsAlone, SocketsAlone

\* A thread without an open pair, or with the pair it had, keeps the tokens apart.
LEMMA SameTokens ==
    ASSUME RelayTypes, SessionIsIdle, TokensApart, LockedIsHead, NEW th \in Threads, NEW j, JobShape(j),
           job' = [job EXCEPT ![th] = j], UNCHANGED <<reserved, due, locked>>,
           Tokened(j) => Tokened(job[th]) /\ j.token = job[th].token
    PROVE  TokensApart' /\ LockedIsHead' /\ (relay' = relay /\ relay[th] = 0 => SessionIsIdle')
<1>1. job'[th] = j /\ \A u \in Threads : u # th => job'[u] = job[u]
  BY JobChange
<1>2. TokensApart'
  BY <1>1 DEF TokensApart
<1>3. LockedIsHead'
  BY DEF LockedIsHead
<1>4. relay' = relay /\ relay[th] = 0 => SessionIsIdle'
  BY <1>1 DEF SessionIsIdle
<1> QED BY <1>2, <1>3, <1>4

-----------------------------------------------------------------------------
\* A thread at work has no session yet.
LEMMA BusyHasNoSession ==
    ASSUME RelayInv, NEW th \in Threads, job[th].at # "idle"
    PROVE  relay[th] = 0
BY DEF RelayInv, SessionIsIdle, NoJob

\* A step of one thread on its own job: what threads have, before and after.
LEMMA ThreadStep ==
    ASSUME RelayAssumption, RelayInv, NEW th \in Threads, NEW j, JobShape(j),
           job' = [job EXCEPT ![th] = j], UNCHANGED <<reserved, relay, due, locked>>,
           relay[th] = 0, free' \subseteq Ports, os' \subseteq Ports
    PROVE  /\ RelayTypes' /\ SessionIsIdle' /\ LockedIsHead'
           /\ (Tokened(j) => Tokened(job[th]) /\ j.token = job[th].token) => TokensApart'
           /\ PortsOf(j) = PortsOf(job[th]) /\ free' = free => PortsAlone'
           /\ SocketsOf(j) = SocketsOf(job[th]) /\ os' = os => SocketsAlone'
<1>1. RelayTypes /\ SessionIsIdle /\ TokensApart /\ LockedIsHead /\ PortsAlone /\ SocketsAlone
  BY DEF RelayInv
<1>2. job' \in [Threads -> JobRecords] /\ \A u \in Threads : JobShape(job'[u])
  BY <1>1, JobChange
<1>3. RelayTypes'
  BY <1>1, <1>2 DEF RelayTypes
<1>4. job'[th] = j /\ \A u \in Threads : u # th => job'[u] = job[u]
  BY <1>1, JobChange
<1>5. SessionIsIdle' /\ LockedIsHead'
  BY <1>1, <1>4 DEF SessionIsIdle, LockedIsHead
<1>6. (Tokened(j) => Tokened(job[th]) /\ j.token = job[th].token) => TokensApart'
  BY <1>1, SameTokens
<1>7. /\ PortsOf(j) = PortsOf(job[th]) /\ free' = free => PortsAlone'
      /\ SocketsOf(j) = SocketsOf(job[th]) /\ os' = os => SocketsAlone'
  BY <1>1, SameHas
<1> QED BY <1>3, <1>5, <1>6, <1>7

\* A thread takes ports from the pool or gives one back.
LEMMA PortsMove ==
    ASSUME RelayAssumption, RelayInv, NEW th \in Threads, NEW j, JobShape(j),
           job' = [job EXCEPT ![th] = j], UNCHANGED <<reserved, relay, locked>>
    PROVE  /\ \A M \in SUBSET Ports : M \subseteq free /\ free' = free \ M /\ PortsOf(j) = PortsOf(job[th]) \cup M
                                        => PortsAlone'
           /\ \A p \in PortsOf(job[th]) : free' = free \cup {p} /\ PortsOf(j) = PortsOf(job[th]) \ {p}
                                        => PortsAlone'
<1>1. RelayTypes /\ Alone(free, JobPorts, relay, EntryPorts)
  BY DEF RelayInv, PortsAlone
<1>2. JobPorts \in Jobs /\ relay \in Ses /\ JobPorts[th] = PortsOf(job[th]) /\ PortsOf(job[th]) \subseteq Ports
  BY <1>1, HasTypes DEF PortsOf
<1>3. JobPorts' = [JobPorts EXCEPT ![th] = PortsOf(j)]
  BY <1>1, JobChange
<1>4. EntryPorts' = EntryPorts /\ relay' = relay
  BY DEF EntryPorts
<1> HIDE DEF JobPorts, EntryPorts
<1>5. ASSUME NEW M \in SUBSET Ports, M \subseteq free, free' = free \ M, PortsOf(j) = PortsOf(job[th]) \cup M
      PROVE  PortsAlone'
  <2>1. Alone(free \ M, [JobPorts EXCEPT ![th] = JobPorts[th] \cup M], relay, EntryPorts)
    BY <1>1, <1>2, <1>5, GiveOut
  <2>2. JobPorts' = [JobPorts EXCEPT ![th] = JobPorts[th] \cup M]
    BY <1>2, <1>3, <1>5
  <2>3. Alone(free', JobPorts', relay', EntryPorts')
    BY <1>4, <1>5, <2>1, <2>2
  <2> QED BY <2>3 DEF PortsAlone, Alone, AloneAt
<1>6. ASSUME NEW p \in PortsOf(job[th]), free' = free \cup {p}, PortsOf(j) = PortsOf(job[th]) \ {p}
      PROVE  PortsAlone'
  <2>1. Alone(free \cup {p}, [JobPorts EXCEPT ![th] = JobPorts[th] \ {p}], relay, EntryPorts)
    BY <1>1, <1>2, <1>6, TakeBack
  <2>2. JobPorts' = [JobPorts EXCEPT ![th] = JobPorts[th] \ {p}]
    BY <1>2, <1>3, <1>6
  <2>3. Alone(free', JobPorts', relay', EntryPorts')
    BY <1>4, <1>6, <2>1, <2>2
  <2> QED BY <2>3 DEF PortsAlone, Alone, AloneAt
<1> QED BY <1>5, <1>6

\* A thread opens a socket or closes one.
LEMMA SocketsMove ==
    ASSUME RelayAssumption, RelayInv, NEW th \in Threads, NEW j, JobShape(j),
           job' = [job EXCEPT ![th] = j], UNCHANGED <<reserved, relay, locked>>
    PROVE  /\ \A p \in Ports : p \notin os /\ os' = os \cup {p} /\ SocketsOf(j) = SocketsOf(job[th]) \cup {p}
                                 => SocketsAlone'
           /\ \A p \in SocketsOf(job[th]) : os' = os \ {p} /\ SocketsOf(j) = SocketsOf(job[th]) \ {p}
                                 => SocketsAlone'
<1>1. RelayTypes /\ Alone(Ports \ os, JobSockets, relay, EntrySockets)
  BY DEF RelayInv, SocketsAlone
<1>2. JobSockets \in Jobs /\ relay \in Ses /\ JobSockets[th] = SocketsOf(job[th]) /\ SocketsOf(job[th]) \subseteq Ports
  BY <1>1, HasTypes DEF SocketsOf
<1>3. JobSockets' = [JobSockets EXCEPT ![th] = SocketsOf(j)]
  BY <1>1, JobChange
<1>4. EntrySockets' = EntrySockets /\ relay' = relay
  BY DEF EntrySockets
<1> HIDE DEF JobSockets, EntrySockets
<1>5. ASSUME NEW p \in Ports, p \notin os, os' = os \cup {p}, SocketsOf(j) = SocketsOf(job[th]) \cup {p}
      PROVE  SocketsAlone'
  <2>1. {p} \in SUBSET Ports /\ {p} \subseteq Ports \ os
    BY <1>5
  <2>2. Alone((Ports \ os) \ {p}, [JobSockets EXCEPT ![th] = JobSockets[th] \cup {p}], relay, EntrySockets)
    BY <1>1, <1>2, <2>1, GiveOut
  <2>3. JobSockets' = [JobSockets EXCEPT ![th] = JobSockets[th] \cup {p}]
    BY <1>2, <1>3, <1>5
  <2>4. Ports \ os' = (Ports \ os) \ {p}
    BY <1>5
  <2>5. Alone(Ports \ os', JobSockets', relay', EntrySockets')
    BY <1>4, <2>2, <2>3, <2>4
  <2> QED BY <2>5 DEF SocketsAlone, Alone, AloneAt
<1>6. ASSUME NEW p \in SocketsOf(job[th]), os' = os \ {p}, SocketsOf(j) = SocketsOf(job[th]) \ {p}
      PROVE  SocketsAlone'
  <2>1. p \in Ports /\ p \in JobSockets[th]
    BY <1>2, <1>6
  <2>2. Alone((Ports \ os) \cup {p}, [JobSockets EXCEPT ![th] = JobSockets[th] \ {p}], relay, EntrySockets)
    BY <1>1, <1>2, <2>1, TakeBack
  <2>3. JobSockets' = [JobSockets EXCEPT ![th] = JobSockets[th] \ {p}]
    BY <1>2, <1>3, <1>6
  <2>4. Ports \ os' = (Ports \ os) \cup {p}
    BY <1>6, <2>1
  <2>5. Alone(Ports \ os', JobSockets', relay', EntrySockets')
    BY <1>4, <2>2, <2>3, <2>4
  <2> QED BY <2>5 DEF SocketsAlone, Alone, AloneAt
<1> QED BY <1>5, <1>6

\* A port and the one after it differ, and neither is 0.
LEMMA NextPort ==
    ASSUME RelayAssumption, NEW p \in Ports
    PROVE  p # p + 1 /\ p # 0 /\ p + 1 # 0
<1>1. p \in Nat \ {0}
  BY DEF RelayAssumption
<1> QED BY <1>1

\* The calls a thread may have to make: what they give back and close.
Releases(calls) == {p \in Ports : \E i \in DOMAIN calls : calls[i] = Release(p)}
Shuts(calls) == {p \in Ports : \E i \in DOMAIN calls : calls[i] = Shut(p)}
CallList(calls) == calls \in Seq(Calls) /\ calls # <<>> /\ Distinct(calls)

\* The lists of calls of the failed allocations and of a session's end.
LEMMA CallLists ==
    ASSUME NEW p \in Ports, NEW q \in Ports, p # q
    PROVE  /\ CallList(<<Release(p)>>) /\ Releases(<<Release(p)>>) = {p} /\ Shuts(<<Release(p)>>) = {}
           /\ CallList(<<Release(p), Release(q)>>) /\ Releases(<<Release(p), Release(q)>>) = {p, q}
           /\ Shuts(<<Release(p), Release(q)>>) = {}
           /\ CallList(<<Release(q), Shut(q), Release(p)>>) /\ Releases(<<Release(q), Shut(q), Release(p)>>) = {p, q}
           /\ Shuts(<<Release(q), Shut(q), Release(p)>>) = {q}
           /\ CallList(<<Release(p), Shut(p), Release(q), Shut(q)>>)
           /\ Releases(<<Release(p), Shut(p), Release(q), Shut(q)>>) = {p, q}
           /\ Shuts(<<Release(p), Shut(p), Release(q), Shut(q)>>) = {p, q}
<1>1. /\ Release(p) \in Calls /\ Release(q) \in Calls /\ Shut(p) \in Calls /\ Shut(q) \in Calls
      /\ \A x, y : Release(x) # Shut(y) /\ (Release(x) = Release(y) => x = y) /\ (Shut(x) = Shut(y) => x = y)
  BY DEF Release, Shut, Calls
<1> HIDE DEF Release, Shut, Calls
<1>2. CallList(<<Release(p)>>) /\ Releases(<<Release(p)>>) = {p} /\ Shuts(<<Release(p)>>) = {}
  BY <1>1 DEF CallList, Distinct, Releases, Shuts
<1>3. CallList(<<Release(p), Release(q)>>) /\ Releases(<<Release(p), Release(q)>>) = {p, q}
      /\ Shuts(<<Release(p), Release(q)>>) = {}
  BY <1>1 DEF CallList, Distinct, Releases, Shuts
<1>4. CallList(<<Release(q), Shut(q), Release(p)>>) /\ Releases(<<Release(q), Shut(q), Release(p)>>) = {p, q}
      /\ Shuts(<<Release(q), Shut(q), Release(p)>>) = {q}
  BY <1>1 DEF CallList, Distinct, Releases, Shuts
<1>5. /\ CallList(<<Release(p), Shut(p), Release(q), Shut(q)>>)
      /\ Releases(<<Release(p), Shut(p), Release(q), Shut(q)>>) = {p, q}
      /\ Shuts(<<Release(p), Shut(p), Release(q), Shut(q)>>) = {p, q}
  BY <1>1 DEF CallList, Distinct, Releases, Shuts
<1> QED BY <1>2, <1>3, <1>4, <1>5

\* Closing a relay socket: its port, then the descriptor.
LEMMA CloseList ==
    ASSUME NEW p \in Ports
    PROVE  CallList(close_ioa_socket(p)) /\ Releases(close_ioa_socket(p)) = {p} /\ Shuts(close_ioa_socket(p)) = {p}
<1>1. /\ Release(p) \in Calls /\ Shut(p) \in Calls
      /\ \A x, y : Release(x) # Shut(y) /\ (Release(x) = Release(y) => x = y) /\ (Shut(x) = Shut(y) => x = y)
  BY DEF Release, Shut, Calls
<1> QED BY <1>1 DEF close_ioa_socket, CallList, Distinct, Releases, Shuts

\* The same as single lists.
LEMMA CallsJoined ==
    ASSUME NEW p, NEW q
    PROVE  /\ close_ioa_socket(q) \o <<Release(p)>> = <<Release(q), Shut(q), Release(p)>>
           /\ close_ioa_socket(p) \o close_ioa_socket(q) = <<Release(p), Shut(p), Release(q), Shut(q)>>
           /\ <<>> \o <<Release(p)>> = <<Release(p)>>
<1>1. ASSUME NEW a, NEW b, NEW c, NEW d
      PROVE  <<a, b>> \o <<c>> = <<a, b, c>> /\ <<a, b>> \o <<c, d>> = <<a, b, c, d>> /\ <<>> \o <<a>> = <<a>>
  <2>1. <<a, b>> \o <<c>> = <<a, b, c>>
    <3> DEFINE S == {a, b, c, d}
               s == <<a, b>>
               t == <<c>>
               x == s \o t
               y == <<a, b, c>>
    <3>1. s \in Seq(S) /\ t \in Seq(S) /\ y \in Seq(S)
      OBVIOUS
    <3>2. x \in Seq(S) /\ Len(x) = Len(s) + Len(t)
          /\ \A i \in 1 .. Len(s) + Len(t) : x[i] = IF i <= Len(s) THEN s[i] ELSE t[i - Len(s)]
      BY <3>1, ConcatProperties
    <3> HIDE DEF x
    <3>3. Len(x) = Len(y) /\ \A i \in 1 .. Len(x) : x[i] = y[i]
      BY <3>2
    <3>4. x = y
      BY <3>1, <3>2, <3>3, SeqEqual
    <3> QED BY <3>4 DEF x
  <2>2. <<a, b>> \o <<c, d>> = <<a, b, c, d>>
    <3> DEFINE S == {a, b, c, d}
               s == <<a, b>>
               t == <<c, d>>
               x == s \o t
               y == <<a, b, c, d>>
    <3>1. s \in Seq(S) /\ t \in Seq(S) /\ y \in Seq(S)
      OBVIOUS
    <3>2. x \in Seq(S) /\ Len(x) = Len(s) + Len(t)
          /\ \A i \in 1 .. Len(s) + Len(t) : x[i] = IF i <= Len(s) THEN s[i] ELSE t[i - Len(s)]
      BY <3>1, ConcatProperties
    <3> HIDE DEF x
    <3>3. Len(x) = Len(y) /\ \A i \in 1 .. Len(x) : x[i] = y[i]
      BY <3>2
    <3>4. x = y
      BY <3>1, <3>2, <3>3, SeqEqual
    <3> QED BY <3>4 DEF x
  <2>3. <<>> \o <<a>> = <<a>>
    OBVIOUS
  <2> QED BY <2>1, <2>2, <2>3
<1> HIDE DEF Release, Shut
<1> QED BY <1>1 DEF close_ioa_socket

\* A thread that is to undo its work has what its calls give back and close.
LEMMA UndoJob ==
    ASSUME RelayAssumption, NEW th \in Threads, JobShape(job[th]), NEW calls, CallList(calls),
           NEW next \in {"port", "idle"}, next = "port" => job[th].tries < MaxTry, Undo(th, calls, next)
    PROVE  \E j : /\ job' = [job EXCEPT ![th] = j] /\ JobShape(j) /\ ~Working(j)
                  /\ PortsOf(j) = Releases(calls) /\ SocketsOf(j) = Shuts(calls)
<1> DEFINE j == IF next = "port"
                THEN [NoJob EXCEPT !.at = "undo", !.even = job[th].even, !.tries = job[th].tries + 1, !.todo = calls, !.next = "port"]
                ELSE [NoJob EXCEPT !.at = "undo", !.todo = calls]
<1>1. job' = [job EXCEPT ![th] = j]
  BY DEF Undo
<1>2. job[th].even \in {-1, 0, 1} /\ job[th].tries \in 0 .. MaxTry /\ (next = "port" => job[th].tries + 1 \in 0 .. MaxTry)
  BY DEF JobShape, JobRecords, RelayAssumption
<1>3. JobShape(j) /\ ~Working(j) /\ j.todo = calls
  <2>1. j = [at |-> "undo", even |-> IF next = "port" THEN job[th].even ELSE -1, port |-> 0, rtcp |-> 0, token |-> 0,
             tries |-> IF next = "port" THEN job[th].tries + 1 ELSE 0, todo |-> calls, next |-> next]
    BY DEF NoJob
  <2> HIDE DEF j
  <2>2. j \in JobRecords
    BY <1>2, <2>1 DEF JobRecords, CallList, RelayAssumption
  <2>3. j.at = "undo" /\ j.rtcp = 0 /\ j.todo = calls
    BY <2>1
  <2> QED BY <2>2, <2>3 DEF JobShape, Working, CallList
<1> HIDE DEF j
<1>4. PortsOf(j) = Releases(calls) /\ SocketsOf(j) = Shuts(calls)
  BY <1>3, OtherHas DEF Releases, Shuts
<1> QED BY <1>1, <1>3, <1>4

\* Allocate keeps the invariant: the thread has nothing before and after.
LEMMA AllocateKeeps ==
    ASSUME RelayAssumption, RelayInv, NEW th \in Threads, NEW even \in {-1, 0, 1}, Allocate(th, even)
    PROVE  RelayInv'
<1> DEFINE j == [NoJob EXCEPT !.at = "port", !.even = even]
<1>1. JobShape(j) /\ ~Working(j) /\ j.at # "undo"
  <2>1. NoJob \in JobRecords /\ NoJob.rtcp = 0 /\ NoJob.todo = <<>>
    BY DEF NoJob, JobRecords, RelayAssumption
  <2> HIDE DEF NoJob
  <2>2. j \in JobRecords
    BY <2>1 DEF JobRecords
  <2>3. j.at = "port" /\ j.rtcp = 0 /\ j.todo = <<>>
    BY <2>1 DEF JobRecords
  <2> HIDE DEF j
  <2> QED BY <2>2, <2>3 DEF JobShape, Working
<1>2. job[th] = NoJob /\ relay[th] = 0 /\ job' = [job EXCEPT ![th] = j] /\ UNCHANGED <<free, os, reserved, relay, due, locked>>
  BY DEF Allocate
<1> HIDE DEF j
<1>3. PortsOf(j) = PortsOf(job[th]) /\ SocketsOf(j) = SocketsOf(job[th]) /\ ~Tokened(j)
  BY <1>1, <1>2, OtherHas, NoJobHas DEF Tokened
<1>4. free' \subseteq Ports /\ os' \subseteq Ports
  BY <1>2 DEF RelayInv, RelayTypes
<1> QED BY <1>1, <1>2, <1>3, <1>4, ThreadStep DEF RelayInv

\* NoPort keeps the invariant, for the same reason.
LEMMA NoPortKeeps ==
    ASSUME RelayAssumption, RelayInv, NEW th \in Threads, NoPort(th)
    PROVE  RelayInv'
<1>1. job[th].at = "port" /\ job' = [job EXCEPT ![th] = NoJob] /\ UNCHANGED <<free, os, reserved, relay, due, locked>>
  BY DEF NoPort
<1>2. JobShape(job[th]) /\ ~Working(job[th]) /\ job[th].at # "undo" /\ free \subseteq Ports /\ os \subseteq Ports
  BY <1>1 DEF RelayInv, RelayTypes, Working
<1>3. PortsOf(NoJob) = PortsOf(job[th]) /\ SocketsOf(NoJob) = SocketsOf(job[th]) /\ ~Tokened(NoJob) /\ JobShape(NoJob)
  BY <1>2, OtherHas, NoJobHas DEF Tokened
<1>4. relay[th] = 0
  BY <1>1, BusyHasNoSession
<1> QED BY <1>1, <1>2, <1>3, <1>4, ThreadStep DEF RelayInv

\* TakePort keeps the invariant: ports go from the pool to the thread, and a
\* pair is made under a token that nobody has.
LEMMA TakePortKeeps ==
    ASSUME RelayAssumption, RelayInv, NEW th \in Threads, TakePort(th)
    PROVE  RelayInv'
<1>1. job[th].at = "port" /\ job[th].tries < MaxTry /\ UNCHANGED <<os, reserved, relay, due, locked>>
  BY DEF TakePort, MoreTries
<1>2. JobShape(job[th]) /\ ~Working(job[th]) /\ free \subseteq Ports /\ os \subseteq Ports /\ job \in [Threads -> JobRecords] /\ TokensApart
  BY <1>1 DEF RelayInv, RelayTypes, Working
<1>3. PortsOf(job[th]) = {} /\ SocketsOf(job[th]) = {}
  BY <1>1, <1>2, OtherHas
<1>4. relay[th] = 0
  BY <1>1, BusyHasNoSession
<1>5. PICK p \in Ports :
        /\ Fits(p, job[th].even)
        /\ IF job[th].even = 1
           THEN /\ free' = free \ {p, p + 1}
                /\ \E t \in {u \in Tokens : Fresh(u)} :
                     job' = [job EXCEPT ![th].at = "rtcp", ![th].port = p, ![th].token = t]
           ELSE /\ free' = free \ {p}
                /\ job' = [job EXCEPT ![th].at = "rtp", ![th].port = p]
  BY DEF TakePort
<1>6. CASE job[th].even = 1
  <2>1. PICK t \in Tokens : Fresh(t) /\ job' = [job EXCEPT ![th].at = "rtcp", ![th].port = p, ![th].token = t]
    BY <1>5, <1>6
  <2> DEFINE j == [job[th] EXCEPT !.at = "rtcp", !.port = p, !.token = t]
  <2>2. job' = [job EXCEPT ![th] = j]
    BY <1>2, <2>1
  <2>3. p \in free /\ p + 1 \in free /\ free' = free \ {p, p + 1} /\ {p, p + 1} \in SUBSET Ports
    BY <1>2, <1>5, <1>6 DEF Fits
  <2>4. /\ j \in JobRecords /\ j.at = "rtcp" /\ j.port = p /\ j.token = t /\ j.even = 1 /\ j.rtcp = 0
        /\ j.todo = <<>> /\ j.tries < MaxTry
    BY <1>1, <1>2, <1>6 DEF JobShape, JobRecords, Working
  <2> HIDE DEF j
  <2>5. JobShape(j) /\ Working(j)
    BY <2>3, <2>4 DEF JobShape, Working
  <2>6. PortsOf(j) = PortsOf(job[th]) \cup {p, p + 1} /\ SocketsOf(j) = SocketsOf(job[th])
    BY <1>3, <2>4, <2>5, WorkingHas
  <2>7. PortsAlone'
    <3>1. \A M \in SUBSET Ports :
             M \subseteq free /\ free' = free \ M /\ PortsOf(j) = PortsOf(job[th]) \cup M => PortsAlone'
      BY <1>1, <2>2, <2>5, PortsMove
    <3>2. {p, p + 1} \subseteq free
      BY <2>3
    <3> QED BY <2>3, <2>6, <3>1, <3>2, Zenon
  <2>8. SocketsAlone' /\ RelayTypes' /\ SessionIsIdle' /\ LockedIsHead'
    <3>1. free' \subseteq Ports /\ os' \subseteq Ports
      BY <1>1, <1>2, <2>3
    <3> QED BY <1>1, <1>4, <2>2, <2>5, <2>6, <3>1, ThreadStep
  <2>9. TokensApart'
    <3>1. job'[th] = j /\ \A u \in Threads : u # th => job'[u] = job[u]
      BY <1>2, <2>2
    <3>2. t \notin DOMAIN reserved /\ \A u \in Threads : job[u].token # t
      BY <2>1 DEF Fresh
    <3>3. reserved' = reserved
      BY <1>1
    <3> QED BY <1>2, <2>4, <3>1, <3>2, <3>3 DEF TokensApart
  <2> QED BY <2>7, <2>8, <2>9 DEF RelayInv
<1>7. CASE job[th].even # 1
  <2> DEFINE j == [job[th] EXCEPT !.at = "rtp", !.port = p]
  <2>1. job' = [job EXCEPT ![th] = j]
    BY <1>2, <1>5, <1>7
  <2>2. p \in free /\ free' = free \ {p} /\ {p} \in SUBSET Ports
    BY <1>2, <1>5, <1>7 DEF Fits
  <2>3. /\ j \in JobRecords /\ j.at = "rtp" /\ j.port = p /\ j.even # 1 /\ j.rtcp = 0
        /\ j.todo = <<>> /\ j.tries < MaxTry
    BY <1>1, <1>2, <1>7 DEF JobShape, JobRecords, Working
  <2> HIDE DEF j
  <2>4. JobShape(j) /\ Working(j) /\ ~Tokened(j)
    BY <2>3 DEF JobShape, Working, Tokened
  <2>5. PortsOf(j) = PortsOf(job[th]) \cup {p} /\ SocketsOf(j) = SocketsOf(job[th])
    BY <1>3, <2>3, <2>4, WorkingHas
  <2>6. PortsAlone'
    BY <1>1, <2>1, <2>2, <2>4, <2>5, PortsMove
  <2>7. SocketsAlone' /\ RelayTypes' /\ SessionIsIdle' /\ LockedIsHead' /\ TokensApart'
    <3>1. free' \subseteq Ports /\ os' \subseteq Ports
      BY <1>1, <1>2, <2>2
    <3> QED BY <1>1, <1>4, <2>1, <2>4, <2>5, <3>1, ThreadStep
  <2> QED BY <2>6, <2>7 DEF RelayInv
<1> QED BY <1>6, <1>7

\* A thread that undoes what it has keeps the invariant.
LEMMA UndoKeeps ==
    ASSUME RelayAssumption, RelayInv, NEW th \in Threads, relay[th] = 0, NEW calls, CallList(calls),
           NEW next \in {"port", "idle"}, next = "port" => job[th].tries < MaxTry, Undo(th, calls, next),
           Releases(calls) = PortsOf(job[th]), Shuts(calls) = SocketsOf(job[th]),
           UNCHANGED <<free, os, reserved, relay, due, locked>>
    PROVE  RelayInv'
<1>1. JobShape(job[th]) /\ free' \subseteq Ports /\ os' \subseteq Ports
  BY DEF RelayInv, RelayTypes
<1>2. PICK j : /\ job' = [job EXCEPT ![th] = j] /\ JobShape(j) /\ ~Working(j)
               /\ PortsOf(j) = Releases(calls) /\ SocketsOf(j) = Shuts(calls)
  BY <1>1, UndoJob
<1>3. ~Tokened(j)
  BY <1>2 DEF Tokened
<1> QED BY <1>1, <1>2, <1>3, ThreadStep DEF RelayInv

\* BindRtcp keeps the invariant: the socket of the reserved port is the
\* thread's, or both ports are to be given back.
LEMMA BindRtcpKeeps ==
    ASSUME RelayAssumption, RelayInv, NEW th \in Threads, BindRtcp(th)
    PROVE  RelayInv'
<1> DEFINE p == job[th].port
<1>1. job[th].at = "rtcp" /\ UNCHANGED <<free, reserved, relay, due, locked>>
  BY DEF BindRtcp
<1>2. /\ JobShape(job[th]) /\ Working(job[th]) /\ free \subseteq Ports /\ os \subseteq Ports /\ job \in [Threads -> JobRecords]
      /\ job[th].even = 1 /\ job[th].rtcp = 0 /\ p \in Ports /\ p + 1 \in Ports /\ job[th].tries < MaxTry
  BY <1>1 DEF RelayInv, RelayTypes, Working, JobShape
<1>3. PortsOf(job[th]) = {p, p + 1} /\ SocketsOf(job[th]) = {}
  BY <1>1, <1>2, WorkingHas
<1>4. relay[th] = 0 /\ p # p + 1
  <2>1. relay[th] = 0
    BY <1>1, BusyHasNoSession
  <2>2. p # p + 1
    BY <1>2, NextPort
  <2> QED BY <2>1, <2>2
<1>5. CASE Binds(p + 1) /\ os' = os \cup {p + 1} /\ job' = [job EXCEPT ![th].at = "rtp", ![th].rtcp = p + 1]
  <2> DEFINE j == [job[th] EXCEPT !.at = "rtp", !.rtcp = p + 1]
  <2>1. job' = [job EXCEPT ![th] = j]
    BY <1>2, <1>5
  <2>2. /\ j \in JobRecords /\ j.at = "rtp" /\ j.port = p /\ j.even = 1 /\ j.rtcp = p + 1 /\ j.token = job[th].token
        /\ j.todo = <<>> /\ j.tries < MaxTry /\ j.token \in Tokens
    BY <1>1, <1>2 DEF JobShape, JobRecords, Working
  <2> HIDE DEF j
  <2>3. JobShape(j) /\ Working(j) /\ Tokened(job[th])
    BY <1>2, <2>2 DEF JobShape, Working, Tokened
  <2>4. PortsOf(j) = PortsOf(job[th]) /\ SocketsOf(j) = SocketsOf(job[th]) \cup {p + 1}
    <3>1. p + 1 # 0
      BY <1>2 DEF RelayAssumption
    <3> QED BY <1>3, <2>2, <2>3, <3>1, WorkingHas
  <2>5. p + 1 \notin os /\ os' = os \cup {p + 1} /\ free' \subseteq Ports /\ os' \subseteq Ports
    BY <1>1, <1>2, <1>5 DEF Binds
  <2>6. SocketsAlone'
    BY <1>1, <1>2, <2>1, <2>3, <2>4, <2>5, SocketsMove
  <2>7. PortsAlone' /\ RelayTypes' /\ SessionIsIdle' /\ LockedIsHead' /\ TokensApart'
    BY <1>1, <1>4, <2>1, <2>2, <2>3, <2>4, <2>5, ThreadStep
  <2> QED BY <2>6, <2>7 DEF RelayInv
<1>6. CASE \E next \in {"port", "idle"} : Undo(th, <<Release(p), Release(p + 1)>>, next) /\ UNCHANGED os
  <2>1. PICK next \in {"port", "idle"} : Undo(th, <<Release(p), Release(p + 1)>>, next) /\ UNCHANGED os
    BY <1>6
  <2> DEFINE calls == <<Release(p), Release(p + 1)>>
  <2>2. CallList(calls) /\ Releases(calls) = PortsOf(job[th]) /\ Shuts(calls) = SocketsOf(job[th])
    BY <1>2, <1>3, <1>4, CallLists
  <2>3. Undo(th, calls, next)
    BY <2>1
  <2> HIDE DEF calls
  <2> QED BY <1>1, <1>2, <1>4, <2>1, <2>2, <2>3, UndoKeeps
<1> QED BY <1>5, <1>6 DEF BindRtcp

\* What a failed relay socket undoes is what the thread has.
LEMMA RtpFailed ==
    ASSUME RelayAssumption, NEW j, JobShape(j), j.at = "rtp"
    PROVE  /\ CallList(rtp_failed(j))
           /\ Releases(rtp_failed(j)) = PortsOf(j) /\ Shuts(rtp_failed(j)) = SocketsOf(j)
<1> DEFINE p == j.port
<1>1. Working(j) /\ p \in Ports /\ (j.even = 1 => j.rtcp = p + 1 /\ p + 1 \in Ports) /\ (j.even # 1 => j.rtcp = 0)
  BY DEF JobShape, Working
<1>2. p # p + 1 /\ p + 1 # 0
  BY <1>1, NextPort
<1>3. /\ PortsOf(j) = IF j.even = 1 THEN {p, p + 1} ELSE {p}
      /\ SocketsOf(j) = IF j.even = 1 THEN {p + 1} ELSE {}
  BY <1>1, <1>2, WorkingHas
<1>4. CASE j.even = 1
  <2>1. rtp_failed(j) = <<Release(p + 1), Shut(p + 1), Release(p)>>
    BY <1>1, <1>2, <1>4, CallsJoined DEF rtp_failed
  <2>2. /\ CallList(<<Release(p + 1), Shut(p + 1), Release(p)>>)
        /\ Releases(<<Release(p + 1), Shut(p + 1), Release(p)>>) = {p, p + 1}
        /\ Shuts(<<Release(p + 1), Shut(p + 1), Release(p)>>) = {p + 1}
    BY <1>1, <1>2, <1>4, CallLists
  <2> QED BY <1>3, <1>4, <2>1, <2>2
<1>5. CASE j.even # 1
  <2>1. rtp_failed(j) = <<Release(p)>>
    BY <1>1, <1>2, <1>5, CallsJoined DEF rtp_failed
  <2>2. CallList(<<Release(p)>>) /\ Releases(<<Release(p)>>) = {p} /\ Shuts(<<Release(p)>>) = {}
    <3>1. /\ Release(p) \in Calls
          /\ \A x, y : Release(x) # Shut(y) /\ (Release(x) = Release(y) => x = y)
      BY <1>1 DEF Release, Shut, Calls
    <3> QED BY <1>1, <3>1 DEF CallList, Distinct, Releases, Shuts
  <2> QED BY <1>3, <1>5, <2>1, <2>2
<1> QED BY <1>4, <1>5

\* BindRtp keeps the invariant: the relay socket is the thread's, or already
\* the session's, or everything is to be given back.
LEMMA BindRtpKeeps ==
    ASSUME RelayAssumption, RelayInv, NEW th \in Threads, BindRtp(th)
    PROVE  RelayInv'
<1> DEFINE p == job[th].port
<1>1. job[th].at = "rtp" /\ UNCHANGED <<free, reserved, due, locked>>
  BY DEF BindRtp
<1>2. /\ JobShape(job[th]) /\ Working(job[th]) /\ free \subseteq Ports /\ os \subseteq Ports /\ job \in [Threads -> JobRecords]
      /\ p \in Ports /\ job[th].tries < MaxTry /\ RelayTypes /\ SessionIsIdle /\ TokensApart /\ LockedIsHead
      /\ Alone(free, JobPorts, relay, EntryPorts) /\ Alone(Ports \ os, JobSockets, relay, EntrySockets)
  BY <1>1 DEF RelayInv, RelayTypes, Working, JobShape, PortsAlone, SocketsAlone
<1>3. relay[th] = 0
  BY <1>1, BusyHasNoSession
<1>4. CASE Binds(p) /\ os' = os \cup {p} /\ job[th].rtcp # 0 /\ job' = [job EXCEPT ![th].at = "put"] /\ UNCHANGED relay
  <2> DEFINE j == [job[th] EXCEPT !.at = "put"]
  <2>1. job' = [job EXCEPT ![th] = j]
    BY <1>2, <1>4
  <2>2. /\ j \in JobRecords /\ j.at = "put" /\ j.port = p /\ j.even = 1 /\ j.rtcp = p + 1 /\ j.token = job[th].token
        /\ j.todo = <<>> /\ j.tries < MaxTry /\ j.token \in Tokens /\ p + 1 \in Ports /\ job[th].rtcp = p + 1 /\ job[th].even = 1
    BY <1>1, <1>2, <1>4 DEF JobShape, JobRecords, Working
  <2> HIDE DEF j
  <2>3. JobShape(j) /\ Working(j) /\ Tokened(job[th])
    BY <1>2, <2>2 DEF JobShape, Working, Tokened
  <2>4. PortsOf(j) = PortsOf(job[th]) /\ SocketsOf(j) = SocketsOf(job[th]) \cup {p}
    <3>1. PortsOf(j) = {p, p + 1} /\ SocketsOf(j) = {p + 1} \cup {p}
      BY <1>4, <2>2, <2>3, WorkingHas
    <3>2. PortsOf(job[th]) = {p, p + 1} /\ SocketsOf(job[th]) = {p + 1}
      BY <1>1, <1>2, <1>4, <2>2, WorkingHas
    <3> QED BY <3>1, <3>2
  <2>5. p \notin os /\ os' = os \cup {p} /\ free' \subseteq Ports /\ os' \subseteq Ports
    BY <1>1, <1>2, <1>4 DEF Binds
  <2>6. SocketsAlone'
    BY <1>1, <1>2, <1>4, <2>1, <2>3, <2>4, <2>5, SocketsMove
  <2>7. PortsAlone' /\ RelayTypes' /\ SessionIsIdle' /\ LockedIsHead' /\ TokensApart'
    BY <1>1, <1>3, <1>4, <2>1, <2>2, <2>3, <2>4, <2>5, ThreadStep
  <2> QED BY <2>6, <2>7 DEF RelayInv
<1>5. CASE /\ Binds(p) /\ os' = os \cup {p} /\ job[th].rtcp = 0
           /\ job' = [job EXCEPT ![th] = NoJob] /\ relay' = [relay EXCEPT ![th] = p]
  <2>1. JobShape(NoJob) /\ PortsOf(NoJob) = {} /\ SocketsOf(NoJob) = {} /\ ~Tokened(NoJob)
    BY NoJobHas DEF Tokened
  <2>2. PortsOf(job[th]) = {p} /\ SocketsOf(job[th]) = {}
    <3>1. job[th].even # 1
      BY <1>1, <1>2, <1>5 DEF JobShape, Working, RelayAssumption
    <3> QED BY <1>1, <1>2, <1>5, <3>1, WorkingHas
  <2>3. /\ JobPorts' = [JobPorts EXCEPT ![th] = {}] /\ JobSockets' = [JobSockets EXCEPT ![th] = {}]
        /\ job' \in [Threads -> JobRecords] /\ (\A u \in Threads : JobShape(job'[u]))
        /\ job'[th] = NoJob /\ \A u \in Threads : u # th => job'[u] = job[u]
    BY <1>2, <1>5, <2>1, JobChange
  <2>4. /\ JobPorts \in Jobs /\ JobSockets \in Jobs /\ relay \in Ses /\ 0 \notin Ports
        /\ JobPorts[th] = {p} /\ JobSockets[th] = {}
    BY <1>2, <2>2, HasTypes
  <2>5. EntryPorts' = EntryPorts /\ EntrySockets' = EntrySockets
    BY <1>1 DEF EntryPorts, EntrySockets
  <2>6. PortsAlone'
    <3>1. Alone(free, [JobPorts EXCEPT ![th] = {}], [relay EXCEPT ![th] = p], EntryPorts)
      BY <1>2, <1>3, <2>4, JobToSession
    <3>2. Alone(free', JobPorts', relay', EntryPorts')
      BY <1>1, <1>5, <2>3, <2>5, <3>1
    <3> QED BY <3>2 DEF PortsAlone, Alone, AloneAt
  <2>7. SocketsAlone'
    <3>1. p \in Ports \ os /\ Ports \ os' = (Ports \ os) \ {p}
      BY <1>2, <1>5 DEF Binds
    <3>2. Alone((Ports \ os) \ {p}, JobSockets, [relay EXCEPT ![th] = p], EntrySockets)
      BY <1>2, <1>3, <2>4, <3>1, LeftToSession
    <3>3. JobSockets' = JobSockets
      BY <2>3, <2>4 DEF Jobs
    <3>4. Alone(Ports \ os', JobSockets', relay', EntrySockets')
      BY <1>5, <2>5, <3>1, <3>2, <3>3
    <3> QED BY <3>4 DEF SocketsAlone, Alone, AloneAt
  <2>8. RelayTypes'
    <3>1. relay' \in [Threads -> Ports \cup {0}] /\ os' \subseteq Ports
      BY <1>2, <1>5 DEF RelayTypes
    <3> QED BY <1>1, <1>2, <2>3, <3>1 DEF RelayTypes
  <2>9. TokensApart' /\ LockedIsHead'
    BY <1>1, <1>2, <1>5, <2>1, SameTokens
  <2>10. SessionIsIdle'
    <3>1. \A u \in Threads : u # th => relay'[u] = relay[u]
      BY <1>2, <1>5 DEF RelayTypes
    <3> QED BY <1>2, <2>3, <3>1 DEF SessionIsIdle
  <2> QED BY <2>6, <2>7, <2>8, <2>9, <2>10 DEF RelayInv
<1>6. CASE \E next \in {"port", "idle"} : Undo(th, rtp_failed(job[th]), next) /\ UNCHANGED <<os, relay>>
  <2>1. PICK next \in {"port", "idle"} : Undo(th, rtp_failed(job[th]), next) /\ UNCHANGED <<os, relay>>
    BY <1>6
  <2> DEFINE calls == rtp_failed(job[th])
  <2>2. CallList(calls) /\ Releases(calls) = PortsOf(job[th]) /\ Shuts(calls) = SocketsOf(job[th])
    BY <1>1, <1>2, RtpFailed
  <2>3. Undo(th, calls, next)
    BY <2>1
  <2> HIDE DEF calls
  <2> QED BY <1>1, <1>2, <1>3, <2>1, <2>2, <2>3, UndoKeeps
<1> QED BY <1>4, <1>5, <1>6 DEF BindRtp

\* rtcp_map_put keeps the invariant: the pair goes to the session and to the
\* reservation, or both are to be closed.
LEMMA PutKeeps ==
    ASSUME RelayAssumption, RelayInv, NEW th \in Threads, rtcp_map_put(th)
    PROVE  RelayInv'
<1> DEFINE p == job[th].port
           q == job[th].rtcp
           t == job[th].token
<1>1. job[th].at = "put" /\ locked = 0 /\ UNCHANGED <<free, os, due, locked>>
  BY DEF rtcp_map_put
<1>2. /\ JobShape(job[th]) /\ Working(job[th]) /\ job \in [Threads -> JobRecords]
      /\ job[th].even = 1 /\ q = p + 1 /\ p \in Ports /\ q \in Ports /\ t \in Tokens /\ job[th].tries < MaxTry
  BY <1>1 DEF RelayInv, RelayTypes, Working, JobShape
<1>3. /\ RelayTypes /\ SessionIsIdle /\ TokensApart /\ LockedIsHead
      /\ Alone(free, JobPorts, relay, EntryPorts) /\ Alone(Ports \ os, JobSockets, relay, EntrySockets)
  BY DEF RelayInv, PortsAlone, SocketsAlone
<1>4. p # q /\ q # 0
  BY <1>2, NextPort
<1>5. PortsOf(job[th]) = {p, q} /\ SocketsOf(job[th]) = {p, q}
  BY <1>1, <1>2, <1>4, WorkingHas
<1>6. relay[th] = 0
  BY <1>1, BusyHasNoSession
<1>7. CASE /\ reserved' = ur_map_put(t, [port |-> q, age |-> 0])
           /\ relay' = [relay EXCEPT ![th] = p]
           /\ job' = [job EXCEPT ![th] = NoJob]
  <2>1. JobShape(NoJob) /\ PortsOf(NoJob) = {} /\ SocketsOf(NoJob) = {} /\ ~Working(NoJob)
    BY NoJobHas
  <2>2. /\ JobPorts' = [JobPorts EXCEPT ![th] = {}] /\ JobSockets' = [JobSockets EXCEPT ![th] = {}]
        /\ job' \in [Threads -> JobRecords] /\ (\A u \in Threads : JobShape(job'[u]))
        /\ job'[th] = NoJob /\ \A u \in Threads : u # th => job'[u] = job[u]
    BY <1>3, <1>7, <2>1, JobChange
  <2>3. /\ JobPorts \in Jobs /\ JobSockets \in Jobs /\ relay \in Ses /\ 0 \notin Ports
        /\ JobPorts[th] = {p, q} /\ JobSockets[th] = {p, q}
        /\ DOMAIN EntrySockets = DOMAIN reserved /\ EntryPorts = EntrySockets
        /\ \A u \in DOMAIN reserved : EntrySockets[u] = reserved[u].port
    BY <1>1, <1>3, <1>5, HasTypes
  <2>4. t \notin DOMAIN reserved
    BY <1>2, <1>3 DEF TokensApart, Tokened
  <2>5. /\ DOMAIN reserved' = DOMAIN reserved \cup {t} /\ reserved'[t] = [port |-> q, age |-> 0]
        /\ \A u \in DOMAIN reserved : reserved'[u] = reserved[u]
    BY <1>7, <2>4 DEF ur_map_put
  <2>6. \A u \in DOMAIN reserved : reserved[u] \in [port : Ports, age : 0 .. Timeout + 1]
    BY <1>3 DEF RelayTypes
  <2>7. [port |-> q, age |-> 0] \in [port : Ports, age : 0 .. Timeout + 1] /\ [port |-> q, age |-> 0].port = q
    BY <1>2 DEF RelayAssumption
  <2>8. reserved' \in [DOMAIN reserved' -> [port : Ports, age : 0 .. Timeout + 1]]
    <3>1. \A u \in DOMAIN reserved' : reserved'[u] \in [port : Ports, age : 0 .. Timeout + 1]
      BY <2>5, <2>6, <2>7
    <3>2. reserved' = [u \in DOMAIN reserved' |-> reserved'[u]]
      BY <1>7 DEF ur_map_put
    <3> QED BY <3>1, <3>2
  <2> DEFINE E == [u \in DOMAIN EntrySockets \cup {t} |-> IF u = t THEN q ELSE EntrySockets[u]]
  <2>9. EntrySockets' = E /\ EntryPorts' = E
    <3>1. EntrySockets' = [u \in DOMAIN reserved' |-> reserved'[u].port]
      BY DEF EntrySockets
    <3>2. EntrySockets' = E
      BY <2>3, <2>4, <2>5, <2>7, <3>1
    <3>3. EntryPorts' = [u \in {v \in DOMAIN reserved' : reserved'[v].port # locked'} |-> reserved'[u].port]
      BY DEF EntryPorts
    <3>4. \A v \in DOMAIN reserved' : reserved'[v].port \in Ports
      BY <2>8
    <3>5. {v \in DOMAIN reserved' : reserved'[v].port # locked'} = DOMAIN reserved'
      BY <1>1, <2>3, <3>4
    <3> QED BY <3>1, <3>2, <3>3, <3>5
  <2>. DOMAIN E = DOMAIN EntrySockets \cup {t} /\ E[t] = q /\ \A u \in DOMAIN EntrySockets : E[u] = EntrySockets[u]
    BY <2>3, <2>4
  <2> HIDE DEF E, p, q, t
  <2>10. PortsAlone'
    <3>0. 0 \notin Ports /\ JobPorts \in Jobs /\ relay \in Ses /\ Alone(free, JobPorts, relay, EntrySockets)
         /\ p \in Ports /\ q \in Ports /\ p # q /\ JobPorts[th] = {p, q} /\ relay[th] = 0 /\ t \notin DOMAIN EntrySockets
      BY <1>2, <1>3, <1>4, <1>6, <2>3, <2>4
    <3>1. Alone(free, [JobPorts EXCEPT ![th] = {}], [relay EXCEPT ![th] = p], E)
      BY <3>0, PutEntry, Zenon
    <3>2. Alone(free', JobPorts', relay', EntryPorts')
      BY <1>1, <1>7, <2>2, <2>9, <3>1
    <3> QED BY <3>2 DEF PortsAlone, Alone, AloneAt
  <2>11. SocketsAlone'
    <3>0. 0 \notin Ports /\ JobSockets \in Jobs /\ relay \in Ses /\ Alone(Ports \ os, JobSockets, relay, EntrySockets)
         /\ p \in Ports /\ q \in Ports /\ p # q /\ JobSockets[th] = {p, q} /\ relay[th] = 0 /\ t \notin DOMAIN EntrySockets
      BY <1>2, <1>3, <1>4, <1>6, <2>3, <2>4
    <3>1. Alone(Ports \ os, [JobSockets EXCEPT ![th] = {}], [relay EXCEPT ![th] = p], E)
      BY <3>0, PutEntry, Zenon
    <3>2. Alone(Ports \ os', JobSockets', relay', EntrySockets')
      BY <1>1, <1>7, <2>2, <2>9, <3>1
    <3> QED BY <3>2 DEF SocketsAlone, Alone, AloneAt
  <2>12. RelayTypes'
    <3>1. relay' \in [Threads -> Ports \cup {0}]
      BY <1>2, <1>3, <1>7 DEF RelayTypes
    <3>2. DOMAIN reserved' \subseteq Tokens
      BY <1>2, <1>3, <2>5 DEF RelayTypes
    <3> QED BY <1>1, <1>3, <2>2, <2>8, <3>1, <3>2 DEF RelayTypes
  <2>13. TokensApart'
    <3>1. \A u \in Threads : Tokened(job'[u]) => u # th /\ Tokened(job[u]) /\ job'[u] = job[u]
      BY <2>1, <2>2 DEF Tokened
    <3>2. \A u \in Threads : u # th /\ Tokened(job[u]) => job[u].token # t
      BY <1>2, <1>3 DEF TokensApart, Tokened, t
    <3> QED BY <1>3, <2>5, <3>1, <3>2 DEF TokensApart
  <2>14. LockedIsHead'
    BY <1>1 DEF LockedIsHead
  <2>15. SessionIsIdle'
    <3>1. \A u \in Threads : u # th => relay'[u] = relay[u]
      BY <1>3, <1>7 DEF RelayTypes
    <3> QED BY <1>3, <2>2, <3>1 DEF SessionIsIdle
  <2> QED BY <2>10, <2>11, <2>12, <2>13, <2>14, <2>15 DEF RelayInv
<1>8. CASE Undo(th, close_ioa_socket(p) \o close_ioa_socket(q), "idle") /\ UNCHANGED <<reserved, relay>>
  <2> DEFINE calls == close_ioa_socket(p) \o close_ioa_socket(q)
  <2>1. calls = <<Release(p), Shut(p), Release(q), Shut(q)>>
    BY CallsJoined
  <2>2. Undo(th, calls, "idle")
    BY <1>8
  <2> HIDE DEF calls
  <2>3. CallList(calls) /\ Releases(calls) = {p, q} /\ Shuts(calls) = {p, q}
    BY <1>2, <1>4, <2>1, CallLists
  <2> QED BY <1>1, <1>2, <1>5, <1>6, <1>8, <2>2, <2>3, UndoKeeps
<1> QED BY <1>7, <1>8 DEF rtcp_map_put

\* The next call, and what the calls after it give back and close.
LEMMA NextCall ==
    ASSUME NEW s, CallList(s)
    PROVE  /\ Head(s).op \in {"release", "shut"} /\ Head(s).port \in Ports
           /\ Tail(s) \in Seq(Calls) /\ Distinct(Tail(s)) /\ (Len(s) = 1 <=> Tail(s) = <<>>)
           /\ Head(s).op = "release" => /\ Head(s).port \in Releases(s) /\ Releases(Tail(s)) = Releases(s) \ {Head(s).port}
                                        /\ Shuts(Tail(s)) = Shuts(s)
           /\ Head(s).op = "shut" => /\ Head(s).port \in Shuts(s) /\ Shuts(Tail(s)) = Shuts(s) \ {Head(s).port}
                                     /\ Releases(Tail(s)) = Releases(s)
<1> DEFINE c == Head(s)
           r == Tail(s)
           n == Len(s)
<1>1. s \in Seq(Calls) /\ s # <<>> /\ \A i, k \in DOMAIN s : s[i] = s[k] => i = k
  BY DEF CallList, Distinct
<1>2. n \in Nat /\ n >= 1 /\ DOMAIN s = 1 .. n /\ c = s[1]
  BY <1>1
<1>3. c \in Calls /\ r \in Seq(Calls) /\ Len(r) = n - 1 /\ DOMAIN r = 1 .. n - 1 /\ \A i \in 1 .. n - 1 : r[i] = s[i + 1]
  BY <1>1, <1>2
<1>4. /\ c.op \in {"release", "shut"} /\ c.port \in Ports
      /\ c.op = "release" => c = Release(c.port)
      /\ c.op = "shut" => c = Shut(c.port)
  BY <1>3 DEF Calls, Release, Shut
<1>5. n = 1 <=> r = <<>>
  <2> HIDE DEF r
  <2>1. r = <<>> <=> Len(r) = 0
    BY <1>3, EmptySeq
  <2> QED BY <1>2, <1>3, <2>1
<1> HIDE DEF c, r, n
<1>6. Distinct(r)
  <2> SUFFICES ASSUME NEW i \in 1 .. n - 1, NEW k \in 1 .. n - 1, r[i] = r[k] PROVE i = k
    BY <1>3 DEF Distinct
  <2>1. i + 1 \in DOMAIN s /\ k + 1 \in DOMAIN s /\ s[i + 1] = s[k + 1]
    BY <1>2, <1>3
  <2>2. i + 1 = k + 1
    BY <1>1, <2>1
  <2> QED BY <1>2, <2>2
<1>7. \A x : (\E i \in DOMAIN r : r[i] = x) <=> x # c /\ \E i \in DOMAIN s : s[i] = x
  <2>1. ASSUME NEW x, NEW i \in DOMAIN r, r[i] = x PROVE x # c /\ \E k \in DOMAIN s : s[k] = x
    <3>1. i + 1 \in DOMAIN s /\ i + 1 # 1 /\ s[i + 1] = x /\ 1 \in DOMAIN s
      BY <1>2, <1>3, <2>1
    <3> QED BY <1>1, <1>2, <3>1
  <2>2. ASSUME NEW x, x # c, NEW k \in DOMAIN s, s[k] = x PROVE \E i \in DOMAIN r : r[i] = x
    <3>1. k - 1 \in DOMAIN r /\ r[k - 1] = s[(k - 1) + 1]
      BY <1>2, <1>3, <2>2
    <3>2. (k - 1) + 1 = k
      BY <1>2
    <3> QED BY <2>2, <3>1, <3>2
  <2> QED BY <2>1, <2>2
<1>8. \A x, y : Release(x) # Shut(y) /\ (Release(x) = Release(y) => x = y) /\ (Shut(x) = Shut(y) => x = y)
  BY DEF Release, Shut
<1>9. 1 \in DOMAIN s /\ s[1] = c
  BY <1>2
<1>10. c.op = "release" => c.port \in Releases(s) /\ Releases(r) = Releases(s) \ {c.port} /\ Shuts(r) = Shuts(s)
  BY <1>4, <1>7, <1>8, <1>9 DEF Releases, Shuts
<1>11. c.op = "shut" => c.port \in Shuts(s) /\ Shuts(r) = Shuts(s) \ {c.port} /\ Releases(r) = Releases(s)
  BY <1>4, <1>7, <1>8, <1>9 DEF Releases, Shuts
<1> QED BY <1>3, <1>4, <1>5, <1>6, <1>10, <1>11 DEF c, r, n

\* UndoStep keeps the invariant: a port goes back to the pool, or a socket of
\* the thread is closed.
LEMMA UndoStepKeeps ==
    ASSUME RelayAssumption, RelayInv, NEW th \in Threads, UndoStep(th)
    PROVE  RelayInv'
<1> DEFINE s == job[th].todo
           c == Head(s)
           j == IF Len(s) = 1 THEN [job[th] EXCEPT !.at = job[th].next, !.todo = <<>>, !.next = "idle"]
                ELSE [job[th] EXCEPT !.todo = Tail(s)]
<1>1. /\ job[th].at = "undo" /\ UNCHANGED <<reserved, relay, due, locked>>
      /\ free' = (IF c.op = "release" THEN free \cup {c.port} ELSE free)
      /\ os' = (IF c.op = "shut" THEN os \ {c.port} ELSE os)
      /\ job' = [job EXCEPT ![th] = j]
  BY DEF UndoStep
<1>2. JobShape(job[th]) /\ ~Working(job[th]) /\ free \subseteq Ports /\ os \subseteq Ports /\ job[th] \in JobRecords
  BY <1>1 DEF RelayInv, RelayTypes, Working, JobShape
<1>3. CallList(s)
  BY <1>1, <1>2 DEF JobShape, JobRecords, CallList
<1>4. relay[th] = 0
  BY <1>1, BusyHasNoSession
<1>5. PortsOf(job[th]) = Releases(s) /\ SocketsOf(job[th]) = Shuts(s)
  BY <1>2, OtherHas DEF Releases, Shuts
<1>6. /\ c.op \in {"release", "shut"} /\ c.port \in Ports
      /\ Tail(s) \in Seq(Calls) /\ Distinct(Tail(s)) /\ (Len(s) = 1 <=> Tail(s) = <<>>)
      /\ c.op = "release" => /\ c.port \in Releases(s) /\ Releases(Tail(s)) = Releases(s) \ {c.port}
                             /\ Shuts(Tail(s)) = Shuts(s)
      /\ c.op = "shut" => /\ c.port \in Shuts(s) /\ Shuts(Tail(s)) = Shuts(s) \ {c.port}
                          /\ Releases(Tail(s)) = Releases(s)
  BY <1>3, NextCall
<1>7. /\ j \in JobRecords /\ j.todo = Tail(s) /\ j.rtcp = 0
      /\ j.at = IF Len(s) = 1 THEN job[th].next ELSE "undo"
  <2>1. job[th].rtcp = 0 /\ job[th].at = "undo"
    BY <1>1, <1>2 DEF JobShape
  <2>2. CASE Len(s) = 1
    BY <1>2, <1>6, <2>1, <2>2 DEF JobRecords
  <2>3. CASE Len(s) # 1
    BY <1>2, <1>6, <2>1, <2>3 DEF JobRecords
  <2> QED BY <2>2, <2>3
<1> HIDE DEF j, c
<1>8. JobShape(j) /\ ~Working(j) /\ ~Tokened(j)
  <2>1. job[th].next \in {"idle", "port"}
    BY <1>2 DEF JobRecords
  <2> QED BY <1>6, <1>7, <2>1 DEF JobShape, Working, Tokened
<1>9. PortsOf(j) = Releases(Tail(s)) /\ SocketsOf(j) = Shuts(Tail(s))
  <2>1. PortsOf(j) = Releases(j.todo) /\ SocketsOf(j) = Shuts(j.todo)
    BY <1>8, OtherHas DEF Releases, Shuts
  <2> QED BY <1>7, <2>1
<1>10. free' \subseteq Ports /\ os' \subseteq Ports
  BY <1>1, <1>2, <1>6
<1>11. RelayTypes' /\ SessionIsIdle' /\ LockedIsHead' /\ TokensApart'
  BY <1>1, <1>4, <1>8, <1>10, ThreadStep
<1>12. CASE c.op = "release"
  <2>1. PortsAlone'
    <3>1. c.port \in PortsOf(job[th]) /\ PortsOf(j) = PortsOf(job[th]) \ {c.port} /\ free' = free \cup {c.port}
      BY <1>1, <1>5, <1>6, <1>9, <1>12
    <3> QED BY <1>1, <1>8, <3>1, PortsMove
  <2>2. SocketsAlone'
    <3>1. SocketsOf(j) = SocketsOf(job[th]) /\ os' = os
      BY <1>1, <1>5, <1>6, <1>9, <1>12
    <3> QED BY <1>1, <1>4, <1>8, <1>10, <3>1, ThreadStep
  <2> QED BY <1>11, <2>1, <2>2 DEF RelayInv
<1>13. CASE c.op = "shut"
  <2>1. SocketsAlone'
    <3>1. c.port \in SocketsOf(job[th]) /\ SocketsOf(j) = SocketsOf(job[th]) \ {c.port} /\ os' = os \ {c.port}
      BY <1>1, <1>5, <1>6, <1>9, <1>13
    <3> QED BY <1>1, <1>8, <3>1, SocketsMove
  <2>2. PortsAlone'
    <3>1. PortsOf(j) = PortsOf(job[th]) /\ free' = free
      BY <1>1, <1>5, <1>6, <1>9, <1>13
    <3> QED BY <1>1, <1>4, <1>8, <1>10, <3>1, ThreadStep
  <2> QED BY <1>11, <2>1, <2>2 DEF RelayInv
<1> QED BY <1>6, <1>12, <1>13

\* AllocateReserved keeps the invariant: the reservation's socket is the
\* session's.
LEMMA AllocateReservedKeeps ==
    ASSUME RelayAssumption, RelayInv, NEW th \in Threads, NEW t \in Tokens, AllocateReserved(th, t)
    PROVE  RelayInv'
<1>1. /\ job[th] = NoJob /\ relay[th] = 0 /\ locked = 0 /\ t \in DOMAIN reserved
      /\ relay' = [relay EXCEPT ![th] = reserved[t].port] /\ reserved' = [u \in DOMAIN reserved \ {t} |-> reserved[u]]
      /\ UNCHANGED <<free, os, job, due, locked>>
  BY DEF AllocateReserved, rtcp_map_get, ur_map_del
<1>2. /\ RelayTypes /\ SessionIsIdle /\ TokensApart
      /\ Alone(free, JobPorts, relay, EntryPorts) /\ Alone(Ports \ os, JobSockets, relay, EntrySockets)
  BY DEF RelayInv, PortsAlone, SocketsAlone
<1>3. /\ JobPorts \in Jobs /\ JobSockets \in Jobs /\ relay \in Ses /\ 0 \notin Ports
      /\ DOMAIN EntrySockets = DOMAIN reserved /\ EntryPorts = EntrySockets
      /\ \A u \in DOMAIN reserved : EntrySockets[u] = reserved[u].port
  BY <1>1, <1>2, HasTypes
<1>4. \A u \in DOMAIN reserved : reserved[u].port \in Ports /\ reserved[u] \in [port : Ports, age : 0 .. Timeout + 1]
  BY <1>2 DEF RelayTypes
<1>5. DOMAIN reserved' = DOMAIN reserved \ {t} /\ \A u \in DOMAIN reserved' : reserved'[u] = reserved[u]
  BY <1>1
<1>6. JobPorts' = JobPorts /\ JobSockets' = JobSockets
  BY <1>1 DEF JobPorts, JobSockets
<1> DEFINE F == [u \in DOMAIN EntrySockets \ {t} |-> EntrySockets[u]]
<1>7. EntrySockets' = F /\ EntryPorts' = F
  <2>1. EntrySockets' = [u \in DOMAIN reserved' |-> reserved'[u].port]
    BY DEF EntrySockets
  <2>2. EntryPorts' = [u \in {v \in DOMAIN reserved' : reserved'[v].port # locked'} |-> reserved'[u].port]
    BY DEF EntryPorts
  <2>3. {v \in DOMAIN reserved' : reserved'[v].port # locked'} = DOMAIN reserved'
    BY <1>1, <1>3, <1>4, <1>5
  <2>4. EntrySockets' = F
    BY <1>3, <1>5, <2>1
  <2> QED BY <2>1, <2>2, <2>3, <2>4
<1>8. DOMAIN F = DOMAIN EntrySockets \ {t} /\ (\A u \in DOMAIN F : F[u] = EntrySockets[u])
      /\ EntrySockets[t] = reserved[t].port /\ EntrySockets[t] \in Ports /\ t \in DOMAIN EntrySockets
  BY <1>1, <1>3, <1>4
<1> HIDE DEF F
<1>9. PortsAlone'
  <2>1. Alone(free, JobPorts, [relay EXCEPT ![th] = EntrySockets[t]], F)
    BY <1>1, <1>2, <1>3, <1>8, EntryToSession
  <2>2. Alone(free', JobPorts', relay', EntryPorts')
    BY <1>1, <1>6, <1>7, <1>8, <2>1
  <2> QED BY <2>2 DEF PortsAlone, Alone, AloneAt
<1>10. SocketsAlone'
  <2>1. Alone(Ports \ os, JobSockets, [relay EXCEPT ![th] = EntrySockets[t]], F)
    BY <1>1, <1>2, <1>3, <1>8, EntryToSession
  <2>2. Alone(Ports \ os', JobSockets', relay', EntrySockets')
    BY <1>1, <1>6, <1>7, <1>8, <2>1
  <2> QED BY <2>2 DEF SocketsAlone, Alone, AloneAt
<1>11. RelayTypes'
  <2>1. relay' \in [Threads -> Ports \cup {0}]
    BY <1>1, <1>2, <1>4 DEF RelayTypes
  <2>2. reserved' \in [DOMAIN reserved' -> [port : Ports, age : 0 .. Timeout + 1]] /\ DOMAIN reserved' \subseteq Tokens
    BY <1>1, <1>2, <1>4, <1>5 DEF RelayTypes
  <2> QED BY <1>1, <1>2, <2>1, <2>2 DEF RelayTypes
<1>12. TokensApart'
  BY <1>1, <1>2, <1>5 DEF TokensApart
<1>13. LockedIsHead'
  BY <1>1 DEF LockedIsHead
<1>14. SessionIsIdle'
  <2>1. \A u \in Threads : u # th => relay'[u] = relay[u]
    BY <1>1, <1>2 DEF RelayTypes
  <2> QED BY <1>1, <1>2, <2>1 DEF SessionIsIdle
<1> QED BY <1>9, <1>10, <1>11, <1>12, <1>13, <1>14 DEF RelayInv

\* EndSession keeps the invariant: the session's socket is the thread's to
\* close.
LEMMA EndSessionKeeps ==
    ASSUME RelayAssumption, RelayInv, NEW th \in Threads, EndSession(th)
    PROVE  RelayInv'
<1> DEFINE p == relay[th]
           calls == close_ioa_socket(p)
<1>1. /\ job[th] = NoJob /\ p # 0 /\ Undo(th, calls, "idle") /\ relay' = [relay EXCEPT ![th] = 0]
      /\ UNCHANGED <<free, os, reserved, due, locked>>
  BY DEF EndSession
<1>2. /\ RelayTypes /\ SessionIsIdle /\ TokensApart /\ LockedIsHead
      /\ Alone(free, JobPorts, relay, EntryPorts) /\ Alone(Ports \ os, JobSockets, relay, EntrySockets)
  BY DEF RelayInv, PortsAlone, SocketsAlone
<1>3. p \in Ports /\ JobShape(job[th])
  BY <1>1, <1>2 DEF RelayTypes
<1>4. CallList(calls) /\ Releases(calls) = {p} /\ Shuts(calls) = {p}
  BY <1>3, CloseList
<1> HIDE DEF calls
<1>5. PICK j : /\ job' = [job EXCEPT ![th] = j] /\ JobShape(j) /\ ~Working(j)
               /\ PortsOf(j) = Releases(calls) /\ SocketsOf(j) = Shuts(calls)
  BY <1>1, <1>3, <1>4, UndoJob
<1>6. /\ JobPorts \in Jobs /\ JobSockets \in Jobs /\ relay \in Ses /\ 0 \notin Ports
      /\ JobPorts[th] = {} /\ JobSockets[th] = {}
  BY <1>1, <1>2, HasTypes, NoJobHas
<1>7. /\ JobPorts' = [JobPorts EXCEPT ![th] = JobPorts[th] \cup {p}]
      /\ JobSockets' = [JobSockets EXCEPT ![th] = JobSockets[th] \cup {p}]
      /\ job' \in [Threads -> JobRecords] /\ (\A u \in Threads : JobShape(job'[u]))
      /\ job'[th] = j /\ \A u \in Threads : u # th => job'[u] = job[u]
  <2>1. PortsOf(j) = JobPorts[th] \cup {p} /\ SocketsOf(j) = JobSockets[th] \cup {p}
    BY <1>4, <1>5, <1>6
  <2> QED BY <1>2, <1>5, <2>1, JobChange
<1>8. EntryPorts' = EntryPorts /\ EntrySockets' = EntrySockets
  BY <1>1 DEF EntryPorts, EntrySockets
<1>9. PortsAlone'
  <2>1. Alone(free, [JobPorts EXCEPT ![th] = JobPorts[th] \cup {p}], [relay EXCEPT ![th] = 0], EntryPorts)
    BY <1>2, <1>3, <1>6, SessionToJob
  <2>2. Alone(free', JobPorts', relay', EntryPorts')
    BY <1>1, <1>7, <1>8, <2>1
  <2> QED BY <2>2 DEF PortsAlone, Alone, AloneAt
<1>10. SocketsAlone'
  <2>1. Alone(Ports \ os, [JobSockets EXCEPT ![th] = JobSockets[th] \cup {p}], [relay EXCEPT ![th] = 0], EntrySockets)
    BY <1>2, <1>3, <1>6, SessionToJob
  <2>2. Alone(Ports \ os', JobSockets', relay', EntrySockets')
    BY <1>1, <1>7, <1>8, <2>1
  <2> QED BY <2>2 DEF SocketsAlone, Alone, AloneAt
<1>11. RelayTypes'
  <2>1. relay' \in [Threads -> Ports \cup {0}]
    BY <1>1, <1>2 DEF RelayTypes
  <2> QED BY <1>1, <1>2, <1>7, <2>1 DEF RelayTypes
<1>12. TokensApart' /\ LockedIsHead'
  BY <1>1, <1>2, <1>5, SameTokens DEF Tokened
<1>13. SessionIsIdle'
  <2>1. relay'[th] = 0 /\ \A u \in Threads : u # th => relay'[u] = relay[u]
    BY <1>1, <1>2 DEF RelayTypes
  <2> QED BY <1>2, <1>7, <2>1 DEF SessionIsIdle
<1> QED BY <1>9, <1>10, <1>11, <1>12, <1>13 DEF RelayInv

-----------------------------------------------------------------------------
\* Tick keeps the invariant: it changes ages only.
LEMMA TickKeeps ==
    ASSUME RelayAssumption, RelayInv, Tick
    PROVE  RelayInv'
<1>1. /\ reserved' = [t \in DOMAIN reserved |-> [reserved[t] EXCEPT !.age = IF @ > Timeout THEN @ ELSE @ + 1]]
      /\ UNCHANGED <<free, os, relay, job, due, locked>>
  BY DEF Tick
<1>2. RelayTypes /\ SessionIsIdle /\ TokensApart /\ LockedIsHead /\ PortsAlone /\ SocketsAlone
  BY DEF RelayInv
<1>3. \A t \in DOMAIN reserved : reserved[t] \in [port : Ports, age : 0 .. Timeout + 1]
  BY <1>2 DEF RelayTypes
<1>4. DOMAIN reserved' = DOMAIN reserved
  BY <1>1
<1>5. \A t \in DOMAIN reserved : /\ reserved'[t].port = reserved[t].port
                                 /\ reserved'[t] \in [port : Ports, age : 0 .. Timeout + 1]
  BY <1>1, <1>3 DEF RelayAssumption
<1>6. reserved' \in [DOMAIN reserved' -> [port : Ports, age : 0 .. Timeout + 1]]
  BY <1>1, <1>4, <1>5
<1>7. RelayTypes'
  BY <1>1, <1>2, <1>4, <1>6 DEF RelayTypes
<1>8. EntryPorts' = EntryPorts /\ EntrySockets' = EntrySockets /\ JobPorts' = JobPorts /\ JobSockets' = JobSockets
  <2>1. EntrySockets' = EntrySockets
    BY <1>4, <1>5 DEF EntrySockets
  <2>2. {u \in DOMAIN reserved' : reserved'[u].port # locked'} = {u \in DOMAIN reserved : reserved[u].port # locked}
    BY <1>1, <1>4, <1>5
  <2>3. EntryPorts' = EntryPorts
    BY <1>5, <2>2 DEF EntryPorts
  <2>4. JobPorts' = JobPorts /\ JobSockets' = JobSockets
    BY <1>1 DEF JobPorts, JobSockets
  <2> QED BY <2>1, <2>3, <2>4
<1>9. PortsAlone' /\ SocketsAlone'
  BY <1>1, <1>2, <1>8 DEF PortsAlone, SocketsAlone
<1>10. SessionIsIdle' /\ TokensApart'
  BY <1>1, <1>2, <1>4 DEF SessionIsIdle, TokensApart
<1>11. LockedIsHead'
  BY <1>1, <1>2, <1>4, <1>5 DEF LockedIsHead
<1> QED BY <1>7, <1>9, <1>10, <1>11 DEF RelayInv

\* The timer's list alone does not matter while nothing is locked.
LEMMA ListChangeKeeps ==
    ASSUME RelayInv, locked = 0, UNCHANGED <<free, os, reserved, relay, job, locked>>
    PROVE  RelayInv'
<1>1. RelayTypes' /\ SessionIsIdle' /\ TokensApart' /\ LockedIsHead'
  BY DEF RelayInv, RelayTypes, SessionIsIdle, TokensApart, LockedIsHead
<1>2. PortsAlone' /\ SocketsAlone'
  BY DEF RelayInv, PortsAlone, SocketsAlone, JobPorts, JobSockets, EntryPorts, EntrySockets
<1> QED BY <1>1, <1>2 DEF RelayInv

\* DeleteOld keeps the invariant: the port of an entry goes back to the pool,
\* and the map stays locked until its socket is closed.
LEMMA DeleteOldKeeps ==
    ASSUME RelayAssumption, RelayInv, DeleteOld
    PROVE  RelayInv'
<1> DEFINE t == Head(due)
<1>1. locked = 0 /\ UNCHANGED <<os, relay, job, reserved>>
  BY DEF DeleteOld, rtcp_map_del
<1>2. CASE t \notin DOMAIN reserved
  BY <1>1, <1>2, ListChangeKeeps DEF DeleteOld, rtcp_map_del
<1>3. CASE t \in DOMAIN reserved
  <2> DEFINE p == reserved[t].port
  <2>1. free' = free \cup {p} /\ locked' = p /\ due' = due
    BY <1>3 DEF DeleteOld, rtcp_map_del
  <2>2. /\ RelayTypes /\ SessionIsIdle /\ TokensApart
        /\ Alone(free, JobPorts, relay, EntryPorts) /\ Alone(Ports \ os, JobSockets, relay, EntrySockets)
    BY DEF RelayInv, PortsAlone, SocketsAlone
  <2>3. /\ JobPorts \in Jobs /\ relay \in Ses /\ 0 \notin Ports
        /\ DOMAIN EntrySockets = DOMAIN reserved /\ EntryPorts = EntrySockets
        /\ \A u \in DOMAIN reserved : EntrySockets[u] = reserved[u].port
    BY <1>1, <2>2, HasTypes
  <2>4. p \in Ports
    BY <1>3, <2>2 DEF RelayTypes
  <2>5. \A u \in DOMAIN reserved : reserved[u].port = p => u = t
    <3>1. AloneAt(p, Ports \ os, JobSockets, relay, EntrySockets)
      BY <2>2, <2>4 DEF Alone
    <3>2. EntrySockets[t] = p /\ t \in DOMAIN EntrySockets
      BY <1>3, <2>3
    <3> HIDE DEF t, p
    <3> QED BY <2>3, <3>1, <3>2 DEF AloneAt
  <2> DEFINE F == [u \in DOMAIN EntrySockets \ {t} |-> EntrySockets[u]]
  <2>6. EntryPorts' = F
    <3>1. EntryPorts' = [u \in {v \in DOMAIN reserved' : reserved'[v].port # locked'} |-> reserved'[u].port]
      BY DEF EntryPorts
    <3>2. {v \in DOMAIN reserved' : reserved'[v].port # locked'} = DOMAIN EntrySockets \ {t}
      BY <1>1, <2>1, <2>3, <2>5
    <3> QED BY <1>1, <2>3, <3>1, <3>2
  <2>7. DOMAIN F = DOMAIN EntrySockets \ {t} /\ (\A u \in DOMAIN F : F[u] = EntrySockets[u])
        /\ EntrySockets[t] = p /\ t \in DOMAIN EntrySockets
    BY <1>3, <2>3
  <2> HIDE DEF F
  <2>8. JobPorts' = JobPorts /\ JobSockets' = JobSockets /\ EntrySockets' = EntrySockets
    BY <1>1 DEF JobPorts, JobSockets, EntrySockets
  <2>9. PortsAlone'
    <3>1. Alone(free \cup {EntrySockets[t]}, JobPorts, relay, F)
      BY <2>2, <2>3, <2>4, <2>7, EntryToLeft
    <3>2. Alone(free', JobPorts', relay', EntryPorts')
      BY <1>1, <2>1, <2>6, <2>7, <2>8, <3>1
    <3> QED BY <3>2 DEF PortsAlone, Alone, AloneAt
  <2>10. SocketsAlone'
    <3>1. Alone(Ports \ os', JobSockets', relay', EntrySockets')
      BY <1>1, <2>2, <2>8
    <3> QED BY <3>1 DEF SocketsAlone, Alone, AloneAt
  <2>11. RelayTypes' /\ SessionIsIdle' /\ TokensApart'
    BY <1>1, <2>1, <2>2, <2>4 DEF RelayTypes, SessionIsIdle, TokensApart
  <2>12. LockedIsHead'
    BY <1>1, <1>3, <2>1, <2>5 DEF LockedIsHead
  <2> QED BY <2>9, <2>10, <2>11, <2>12 DEF RelayInv
<1> QED BY <1>2, <1>3

\* rtcp_alloc_free keeps the invariant: the socket of the locked entry is
\* closed, and the entry goes, whose port went before.
LEMMA AllocFreeKeeps ==
    ASSUME RelayAssumption, RelayInv, rtcp_alloc_free
    PROVE  RelayInv'
<1> DEFINE t == Head(due)
<1>1. /\ locked # 0 /\ os' = os \ {locked} /\ reserved' = [u \in DOMAIN reserved \ {t} |-> reserved[u]]
      /\ locked' = 0 /\ UNCHANGED <<free, relay, job>>
  BY DEF rtcp_alloc_free, ur_map_del
<1>2. /\ RelayTypes /\ SessionIsIdle /\ TokensApart /\ LockedIsHead
      /\ Alone(free, JobPorts, relay, EntryPorts) /\ Alone(Ports \ os, JobSockets, relay, EntrySockets)
  BY DEF RelayInv, PortsAlone, SocketsAlone
<1>3. /\ t \in DOMAIN reserved /\ reserved[t].port = locked
      /\ \A u \in DOMAIN reserved : reserved[u].port = locked => u = t
  BY <1>1, <1>2 DEF LockedIsHead
<1>4. /\ JobSockets \in Jobs /\ relay \in Ses /\ 0 \notin Ports
      /\ DOMAIN EntrySockets = DOMAIN reserved
      /\ \A u \in DOMAIN reserved : EntrySockets[u] = reserved[u].port
  BY <1>2, HasTypes
<1>5. \A u \in DOMAIN reserved : reserved[u].port \in Ports /\ reserved[u] \in [port : Ports, age : 0 .. Timeout + 1]
  BY <1>2 DEF RelayTypes
<1> HIDE DEF t
<1>6. DOMAIN reserved' = DOMAIN reserved \ {t} /\ \A u \in DOMAIN reserved' : reserved'[u] = reserved[u]
  BY <1>1
<1>7. EntryPorts' = EntryPorts
  <2>1. EntryPorts' = [u \in {v \in DOMAIN reserved' : reserved'[v].port # locked'} |-> reserved'[u].port]
    BY DEF EntryPorts
  <2>2. {v \in DOMAIN reserved' : reserved'[v].port # locked'} = {v \in DOMAIN reserved : reserved[v].port # locked}
    BY <1>1, <1>3, <1>4, <1>5, <1>6
  <2>3. {v \in DOMAIN reserved : reserved[v].port # locked} \subseteq DOMAIN reserved'
    BY <1>3, <1>6
  <2> QED BY <1>6, <2>1, <2>2, <2>3 DEF EntryPorts
<1> DEFINE F == [u \in DOMAIN EntrySockets \ {t} |-> EntrySockets[u]]
<1>8. EntrySockets' = F
  <2>1. EntrySockets' = [u \in DOMAIN reserved' |-> reserved'[u].port]
    BY DEF EntrySockets
  <2> QED BY <1>4, <1>6, <2>1
<1>9. DOMAIN F = DOMAIN EntrySockets \ {t} /\ (\A u \in DOMAIN F : F[u] = EntrySockets[u])
      /\ EntrySockets[t] = locked /\ t \in DOMAIN EntrySockets /\ locked \in Ports
  BY <1>3, <1>4, <1>5
<1> HIDE DEF F
<1>10. JobPorts' = JobPorts /\ JobSockets' = JobSockets
  BY <1>1 DEF JobPorts, JobSockets
<1>11. PortsAlone'
  <2>1. Alone(free', JobPorts', relay', EntryPorts')
    BY <1>1, <1>2, <1>7, <1>10
  <2> QED BY <2>1 DEF PortsAlone, Alone, AloneAt
<1>12. SocketsAlone'
  <2>1. Alone((Ports \ os) \cup {EntrySockets[t]}, JobSockets, relay, F)
    BY <1>2, <1>4, <1>9, EntryToLeft
  <2>2. Ports \ os' = (Ports \ os) \cup {EntrySockets[t]}
    BY <1>1, <1>9
  <2>3. Alone(Ports \ os', JobSockets', relay', EntrySockets')
    BY <1>1, <1>8, <1>10, <2>1, <2>2
  <2> QED BY <2>3 DEF SocketsAlone, Alone, AloneAt
<1>13. RelayTypes'
  <2>1. reserved' \in [DOMAIN reserved' -> [port : Ports, age : 0 .. Timeout + 1]] /\ DOMAIN reserved' \subseteq Tokens
    BY <1>1, <1>2, <1>5, <1>6 DEF RelayTypes
  <2> QED BY <1>1, <1>2, <2>1 DEF RelayTypes
<1>14. SessionIsIdle' /\ TokensApart' /\ LockedIsHead'
  BY <1>1, <1>2, <1>6 DEF SessionIsIdle, TokensApart, LockedIsHead
<1> QED BY <1>11, <1>12, <1>13, <1>14 DEF RelayInv

\* The invariant holds at the start: all ports are in the pool.
LEMMA RelayInvInit ==
    ASSUME RelayAssumption, RelayInit
    PROVE  RelayInv
<1>1. /\ free = Ports /\ os = {} /\ DOMAIN reserved = {} /\ relay = [th \in Threads |-> 0]
      /\ job = [th \in Threads |-> NoJob] /\ due = <<>> /\ locked = 0
  BY DEF RelayInit
<1>2. JobShape(NoJob) /\ PortsOf(NoJob) = {} /\ SocketsOf(NoJob) = {} /\ ~Working(NoJob) /\ NoJob \in JobRecords
  BY NoJobHas DEF JobShape
<1>3. RelayTypes
  <2>1. reserved \in [DOMAIN reserved -> [port : Ports, age : 0 .. Timeout + 1]]
    BY DEF RelayInit
  <2> QED BY <1>1, <1>2, <2>1 DEF RelayTypes
<1>4. SessionIsIdle /\ TokensApart /\ LockedIsHead
  BY <1>1, <1>2 DEF SessionIsIdle, TokensApart, LockedIsHead, Tokened
<1>5. /\ 0 \notin Ports /\ DOMAIN EntryPorts = {} /\ DOMAIN EntrySockets = {}
      /\ \A th \in Threads : JobPorts[th] = {} /\ JobSockets[th] = {} /\ relay[th] = 0
  BY <1>1, <1>2 DEF EntryPorts, EntrySockets, JobPorts, JobSockets, RelayAssumption
<1>6. PortsAlone /\ SocketsAlone
  BY <1>1, <1>5 DEF PortsAlone, SocketsAlone, Alone, AloneAt
<1> QED BY <1>3, <1>4, <1>6 DEF RelayInv

\* Every step of the relay keeps the invariant.
LEMMA RelayInvInductive ==
    ASSUME RelayAssumption, RelayInv, [RelayNext]_relayVars
    PROVE  RelayInv'
<1>1. CASE Tick
  BY <1>1, TickKeeps
<1>2. CASE rtcp_map_timeout_handler
  BY <1>2, ListChangeKeeps DEF rtcp_map_timeout_handler
<1>3. CASE DeleteOld
  BY <1>3, DeleteOldKeeps
<1>4. CASE rtcp_alloc_free
  BY <1>4, AllocFreeKeeps
<1>5. ASSUME NEW th \in Threads, Thread(th) PROVE RelayInv'
  BY <1>5, TakePortKeeps, NoPortKeeps, BindRtcpKeeps, BindRtpKeeps, PutKeeps, UndoStepKeeps DEF Thread
<1>6. ASSUME NEW th \in Threads, EndSession(th) PROVE RelayInv'
  BY <1>6, EndSessionKeeps
<1>7. ASSUME NEW th \in Threads, NEW even \in {-1, 0, 1}, Allocate(th, even) PROVE RelayInv'
  BY <1>7, AllocateKeeps
<1>8. ASSUME NEW th \in Threads, NEW t \in Tokens, AllocateReserved(th, t) PROVE RelayInv'
  BY <1>8, AllocateReservedKeeps
<1>9. CASE UNCHANGED relayVars
  <2>1. RelayTypes' /\ SessionIsIdle' /\ TokensApart' /\ LockedIsHead'
    BY <1>9 DEF RelayInv, RelayTypes, SessionIsIdle, TokensApart, LockedIsHead, relayVars
  <2>2. PortsAlone' /\ SocketsAlone'
    BY <1>9 DEF RelayInv, PortsAlone, SocketsAlone, JobPorts, JobSockets, EntryPorts, EntrySockets, relayVars
  <2> QED BY <2>1, <2>2 DEF RelayInv
<1> QED BY <1>1, <1>2, <1>3, <1>4, <1>5, <1>6, <1>7, <1>8, <1>9 DEF RelayNext, Timer

\* The invariant says what the property does: who is alone is counted once.
LEMMA RelayInvOwned ==
    ASSUME RelayAssumption, RelayInv
    PROVE  PortsOwned
<1>1. RelayTypes /\ Alone(free, JobPorts, relay, EntryPorts) /\ Alone(Ports \ os, JobSockets, relay, EntrySockets)
  BY DEF RelayInv, PortsAlone, SocketsAlone
<1>2. RelayTypeOK
  BY <1>1 DEF RelayTypes, RelayTypeOK, JobRecords
<1>3. PortHasOneOwner
  <2> SUFFICES ASSUME NEW p \in Ports PROVE OneHas(p, free, JobPorts, EntryPorts)
    BY DEF PortHasOneOwner
  <2>1. AloneAt(p, free, JobPorts, relay, EntryPorts)
    BY <1>1 DEF Alone
  <2> QED BY <2>1, AloneIsOne
<1>4. SocketHasOneOwner
  <2> SUFFICES ASSUME NEW p \in Ports PROVE OneHas(p, Ports \ os, JobSockets, EntrySockets)
    BY DEF SocketHasOneOwner
  <2>1. AloneAt(p, Ports \ os, JobSockets, relay, EntrySockets)
    BY <1>1 DEF Alone
  <2> QED BY <2>1, AloneIsOne
<1> QED BY <1>2, <1>3, <1>4 DEF PortsOwned

\* For any threads, ports, tokens and limits: a relay port is in the pool or
\* has exactly one owner, and an open relay socket too, whatever binds fail,
\* sockets cannot be had, reservations run out or other programs hold ports
\* (create_relay_ioa_sockets, close_ioa_socket and the reservation map).
THEOREM PortsAlwaysOwned ==
    ASSUME RelayAssumption
    PROVE  RelaySpec => []PortsOwned
<1>1. RelayInit => RelayInv
  BY RelayInvInit
<1>2. RelayInv /\ [RelayNext]_relayVars => RelayInv'
  BY RelayInvInductive
<1>3. RelayInv => PortsOwned
  BY RelayInvOwned
<1> QED BY <1>1, <1>2, <1>3, PTL DEF RelaySpec

-----------------------------------------------------------------------------
(* The local map implements MapSpec.  A key is in one slot of its bucket at   *)
(* most, which is needed because deleting it frees one slot only.             *)

Slot == {Free} \cup [key : Nat \ {0}, value : Values]

(* A key is in one slot of a bucket at most.                                  *)
Single(a) == \A i, j \in 1 .. Len(a) : a[i].value # NoValue /\ a[j].value # NoValue /\ a[i].key = a[j].key => i = j
LmInv ==
  /\ table \in [0 .. HashSize - 1 -> Seq(Slot)] /\ LmTypeOK
  /\ \A h \in 0 .. HashSize - 1 : Single(table[h])

(* The slots in which a key is found, and what a bucket has for a key.        *)
Hits(a, k) == {i \in 1 .. Len(a) : a[i].key = k /\ a[i].value # NoValue}
ValueIn(a, k) == LET i == Found(a, k) IN IF i = 0 THEN NoValue ELSE a[i].value

(* A slot of a bucket is free, has this key or is what it was.                *)
FilledFrom(b, a, k) ==
  \A i \in 1 .. Len(b) :
    b[i] = Free \/ (b[i].key = k /\ b[i].value \in Values) \/ (i \in 1 .. Len(a) /\ b[i] = a[i])

(* The least of a set of natural numbers.                                     *)
LEMMA LeastIs ==
  ASSUME NEW S \in SUBSET Nat, S # {}
  PROVE  Min(S) \in S /\ \A y \in S : Min(S) <= y
<1> DEFINE R == OpToRel(<, Nat)
<1>1. IsWellFoundedOn(R, Nat)
  BY NatLessThanWellFounded
<1>2. \A x, y \in Nat : y < x => <<y, x>> \in R
  BY DEF OpToRel
<1> HIDE DEF R
<1>3. PICK x \in S : \A y \in S : ~(<<y, x>> \in R)
  BY <1>1, WFMin
<1>4. \A y \in S : x <= y
  <2> TAKE y \in S
  <2>1. x \in Nat /\ y \in Nat
    OBVIOUS
  <2>2. ~(y < x)
    BY <1>2, <1>3, <2>1, Zenon
  <2> QED BY <2>1, <2>2
<1> QED BY <1>4 DEF Min

(* lm_map_get: the first slot with the key and a value.                       *)
LEMMA BucketGet ==
  ASSUME NEW a \in Seq(Slot), NEW k
  PROVE  /\ Found(a, k) = IF Hits(a, k) # {} THEN Min(Hits(a, k)) ELSE 0
         /\ Hits(a, k) # {} => /\ Found(a, k) \in Hits(a, k) /\ Found(a, k) # 0
                               /\ \A i \in Hits(a, k) : Found(a, k) <= i
         /\ Hits(a, k) = {} => Found(a, k) = 0
<1>1. Found(a, k) = IF Hits(a, k) # {} THEN Min(Hits(a, k)) ELSE 0
  BY DEF Found, First, SelectInSeq, Hits
<1>2. Hits(a, k) \in SUBSET Nat /\ 0 \notin Hits(a, k)
  BY LenProperties DEF Hits
<1> QED BY <1>1, <1>2, LeastIs

(* Two buckets in which a key is found in the same slots, with the same       *)
(* value, have the same for it.                                               *)
LEMMA SameValue ==
  ASSUME NEW a \in Seq(Slot), NEW b \in Seq(Slot), NEW k, Hits(a, k) = Hits(b, k),
         \A i \in Hits(a, k) : a[i].value = b[i].value
  PROVE  ValueIn(a, k) = ValueIn(b, k)
<1>1. Found(a, k) = Found(b, k)
  BY BucketGet
<1> QED BY <1>1, BucketGet DEF ValueIn

(* What a bucket has for a key that is in one slot.                           *)
LEMMA OneValue ==
  ASSUME NEW a \in Seq(Slot), NEW k, NEW i, Hits(a, k) = {i}
  PROVE  ValueIn(a, k) = a[i].value
BY BucketGet DEF ValueIn

(* A slot is free or has a key and a value.                                   *)
LEMMA SlotIs ==
  ASSUME LmAssumption, NEW s \in Slot
  PROVE  /\ IsFree(s) <=> s = Free
         /\ IsFree(s) => s.key = 0 /\ s.value = NoValue
         /\ ~IsFree(s) => s.key # 0 /\ s.value # NoValue
BY DEF LmAssumption, Slot, Free, IsFree

AfterPut(a, k, v) ==
  LET i == First(a, IsFree)
      same == First(SubSeq(a, 1, ArraySize), LAMBDA s : s.key = k)
      e == [key |-> k, value |-> v]
  IN IF same # 0 /\ (i = 0 \/ same < i) THEN a
     ELSE IF i = 0 THEN Append(a, e) ELSE [a EXCEPT ![i] = e]

(* lm_map_put for a port that has no channel.                                 *)
LEMMA BucketPut ==
  ASSUME LmAssumption, NEW a \in Seq(Slot), NEW k \in Keys, NEW v \in Values, Hits(a, k) = {}, Len(a) >= ArraySize
  PROVE  LET b == AfterPut(a, k, v)
         IN /\ b \in Seq(Slot) /\ ValueIn(b, k) = v
            /\ \A q \in Keys : q # k => ValueIn(b, q) = ValueIn(a, q)
            /\ Single(a) => Single(b)
            /\ \A i \in 1 .. Len(b) : b[i] = [key |-> k, value |-> v] \/ (i \in 1 .. Len(a) /\ b[i] = a[i])
            /\ Len(b) = Len(a) \/ (Len(b) = Len(a) + 1 /\ \A i \in DOMAIN a : ~IsFree(a[i]))
<1> DEFINE S == {i \in 1 .. Len(a) : IsFree(a[i])}
           f == First(a, IsFree)
           T == {i \in 1 .. Len(SubSeq(a, 1, ArraySize)) : SubSeq(a, 1, ArraySize)[i].key = k}
           same == First(SubSeq(a, 1, ArraySize), LAMBDA s : s.key = k)
           e == [key |-> k, value |-> v]
           b == AfterPut(a, k, v)
           n == IF f = 0 THEN Len(a) + 1 ELSE f
<1>1. e \in Slot /\ e.key = k /\ e.value = v /\ v # NoValue /\ k # 0
  BY DEF LmAssumption, Slot
<1>2. /\ Len(a) \in Nat /\ DOMAIN a = 1 .. Len(a) /\ S \in SUBSET Nat /\ 0 \notin S
      /\ \A i \in 1 .. Len(a) : a[i] \in Slot
      /\ ArraySize \in Nat
  BY LenProperties, ElementOfSeq DEF LmAssumption
<1>3. f = IF S # {} THEN Min(S) ELSE 0
  BY DEF First, SelectInSeq
<1>4. (f = 0 => S = {}) /\ (f # 0 => f \in S)
  <2> HIDE DEF S, f
  <2> QED BY <1>2, <1>3, LeastIs
<1>5. \A i \in 1 .. Len(a) : a[i].key # k
  BY <1>1, <1>2, SlotIs DEF Hits
<1>6. same = 0
  <2>1. \A i \in 1 .. ArraySize : a[i] \in Slot
    BY <1>2
  <2>2. /\ Len(SubSeq(a, 1, ArraySize)) = (IF 1 <= ArraySize THEN ArraySize - 1 + 1 ELSE 0)
        /\ \A i \in 1 .. (ArraySize - 1 + 1) : SubSeq(a, 1, ArraySize)[i] = a[1 + i - 1]
    BY <1>2, <2>1, SubSeqProperties
  <2>3. T = {}
    BY <1>2, <1>5, <2>2
  <2>4. same = IF T # {} THEN Min(T) ELSE 0
    BY DEF First, SelectInSeq
  <2> HIDE DEF T, same
  <2> QED BY <2>3, <2>4
<1>7. b = IF f = 0 THEN Append(a, e) ELSE [a EXCEPT ![f] = e]
  BY <1>6 DEF AfterPut
<1> HIDE DEF e, b, f, same
<1>8. /\ b \in Seq(Slot) /\ n \in 1 .. Len(b) /\ b[n] = e
      /\ Len(b) = Len(a) \/ (Len(b) = Len(a) + 1 /\ S = {})
      /\ \A i \in 1 .. Len(b) : i # n => i \in 1 .. Len(a) /\ b[i] = a[i]
      /\ \A i \in 1 .. Len(a) : i # n => i \in 1 .. Len(b)
      /\ n \notin 1 .. Len(a) \/ IsFree(a[n])
  <2>1. CASE f = 0
    <3>1. b = Append(a, e) /\ n = Len(a) + 1 /\ S = {}
      BY <1>4, <1>7, <2>1
    <3>2. b \in Seq(Slot) /\ Len(b) = Len(a) + 1 /\ b[Len(a) + 1] = e /\ \A i \in 1 .. Len(a) : b[i] = a[i]
      BY <1>1, <1>2, <3>1, AppendProperties
    <3> HIDE DEF n, S
    <3> QED BY <1>2, <3>1, <3>2
  <2>2. CASE f # 0
    <3>1. f \in 1 .. Len(a) /\ IsFree(a[f])
      BY <1>4, <2>2
    <3>2. b = [a EXCEPT ![f] = e]
      BY <1>7, <2>2
    <3>3. b \in Seq(Slot) /\ Len(b) = Len(a) /\ b[f] = e /\ \A i \in 1 .. Len(a) : i # f => b[i] = a[i]
      BY <1>1, <1>2, <3>1, <3>2, ExceptSeq, LenProperties
    <3> QED BY <1>2, <2>2, <3>1, <3>3
  <2> QED BY <2>1, <2>2
<1> HIDE DEF n
<1>9. Hits(b, k) = {n}
  BY <1>1, <1>5, <1>8 DEF Hits
<1>10. ASSUME NEW q \in Keys, q # k PROVE Hits(b, q) = Hits(a, q) /\ n \notin Hits(a, q)
  <2>1. n \notin Hits(a, q)
    BY <1>2, <1>8, SlotIs DEF Hits
  <2> QED BY <1>1, <1>8, <1>10, <2>1 DEF Hits
<1>11. ASSUME NEW q \in Keys, q # k PROVE ValueIn(b, q) = ValueIn(a, q)
  <2>1. \A i \in Hits(a, q) : b[i] = a[i]
    BY <1>8, <1>10, <1>11 DEF Hits
  <2> QED BY <1>8, <1>10, <1>11, <2>1, SameValue
<1>12. ValueIn(b, k) = v
  BY <1>1, <1>8, <1>9, OneValue
<1>13. Single(a) => Single(b)
  BY <1>1, <1>5, <1>8 DEF Single
<1>14. /\ \A i \in 1 .. Len(b) : b[i] = e \/ (i \in 1 .. Len(a) /\ b[i] = a[i])
       /\ Len(b) = Len(a) \/ (Len(b) = Len(a) + 1 /\ \A i \in DOMAIN a : ~IsFree(a[i]))
  BY <1>2, <1>8
<1> QED BY <1>8, <1>11, <1>12, <1>13, <1>14 DEF b, e

(* lm_map_del frees the one slot of the key.                                  *)
LEMMA BucketDel ==
  ASSUME LmAssumption, NEW a \in Seq(Slot), NEW k \in Keys, Single(a), Hits(a, k) # {}
  PROVE  LET b == [a EXCEPT ![Found(a, k)] = Free]
         IN /\ b \in Seq(Slot) /\ ValueIn(b, k) = NoValue
            /\ \A q \in Keys : q # k => ValueIn(b, q) = ValueIn(a, q)
            /\ Single(b) /\ Len(b) = Len(a)
            /\ \A i \in 1 .. Len(b) : b[i] = Free \/ b[i] = a[i]
<1> DEFINE n == Found(a, k)
           b == [a EXCEPT ![n] = Free]
<1>1. Free \in Slot /\ Free.value = NoValue
  BY DEF Slot, Free
<1>2. n \in Hits(a, k) /\ Len(a) \in Nat
  BY BucketGet, LenProperties
<1>3. n \in 1 .. Len(a) /\ a[n].key = k /\ a[n].value # NoValue
  BY <1>2 DEF Hits
<1> HIDE DEF n
<1>4. b \in Seq(Slot) /\ Len(b) = Len(a) /\ b[n] = Free /\ \A i \in 1 .. Len(a) : i # n => b[i] = a[i]
  BY <1>1, <1>2, <1>3, ExceptSeq, LenProperties
<1> HIDE DEF b
<1>5. Hits(b, k) = {}
  BY <1>1, <1>3, <1>4 DEF Hits, Single
<1>6. ASSUME NEW q \in Keys, q # k PROVE ValueIn(b, q) = ValueIn(a, q)
  <2>1. Hits(b, q) = Hits(a, q) /\ n \notin Hits(a, q)
    BY <1>1, <1>3, <1>4, <1>6 DEF Hits
  <2>2. \A i \in Hits(a, q) : b[i] = a[i]
    BY <1>4, <2>1 DEF Hits
  <2> QED BY <1>4, <2>1, <2>2, SameValue
<1>7. Single(b)
  BY <1>1, <1>4 DEF Single
<1>8. ValueIn(b, k) = NoValue
  BY <1>4, <1>5, BucketGet DEF ValueIn
<1> QED BY <1>4, <1>6, <1>7, <1>8 DEF b, n

(* Every key has a bucket.                                                    *)
LEMMA HashIn == ASSUME LmAssumption, NEW k \in Keys PROVE Hash(k) \in 0 .. HashSize - 1
<1>1. k \in Nat /\ HashSize \in Nat /\ HashSize > 0
  BY DEF LmAssumption
<1> QED BY <1>1 DEF Hash

(* What a reader sees is what the buckets have.                               *)
LEMMA SeenIs == \A k \in Keys : Seen[k] = ValueIn(table[Hash(k)], k)
BY DEF Seen, lm_map_get, ValueIn

(* A new map has nothing.                                                     *)
LEMMA InitHasNothing ==
  ASSUME LmAssumption
  PROVE  /\ lm_map_init \in [0 .. HashSize - 1 -> Seq(Slot)]
         /\ \A h \in 0 .. HashSize - 1 : /\ Single(lm_map_init[h]) /\ Len(lm_map_init[h]) = ArraySize
                                         /\ \A i \in DOMAIN lm_map_init[h] : lm_map_init[h][i] = Free
         /\ \A k \in Keys : ValueIn(lm_map_init[Hash(k)], k) = NoValue
<1> DEFINE a == [i \in 1 .. ArraySize |-> Free]
<1>1. ArraySize \in Nat /\ Free \in Slot /\ Free.value = NoValue
  BY DEF LmAssumption, Free, Slot
<1>2. a \in Seq(Slot) /\ Len(a) = ArraySize
  <2>1. a \in Seq(Slot)
    BY <1>1, IsASeq
  <2> QED BY <1>1, <2>1, LenProperties
<1>3. \A k : Hits(a, k) = {}
  BY <1>1, <1>2 DEF Hits
<1>4. Single(a) /\ \A i \in DOMAIN a : a[i] = Free
  BY <1>1, <1>2 DEF Single
<1>5. \A h \in 0 .. HashSize - 1 : lm_map_init[h] = a
  BY DEF lm_map_init
<1>6. lm_map_init \in [0 .. HashSize - 1 -> Seq(Slot)]
  BY <1>2 DEF lm_map_init
<1> HIDE DEF a
<1>7. \A k \in Keys : ValueIn(a, k) = NoValue
  BY <1>2, <1>3, BucketGet DEF ValueIn
<1> QED BY <1>2, <1>4, <1>5, <1>6, <1>7, HashIn

(* The invariant of a new map.                                                *)
LEMMA NewMap == ASSUME LmAssumption, table = lm_map_init PROVE LmInv /\ Seen = Abstract!Nothing
<1>1. ArraySize \in ArraySize .. ArraySize + MaxExtra
  BY DEF LmAssumption
<1>2. LmInv
  BY <1>1, InitHasNothing DEF LmInv, LmTypeOK
<1> QED BY <1>2, InitHasNothing, SeenIs DEF Seen, Abstract!Nothing

(* One bucket is changed, for one key: so is the map that is seen.            *)
LEMMA OneChanged ==
  ASSUME LmAssumption, LmInv, NEW k \in Keys, NEW b \in Seq(Slot), NEW v,
         table' = [table EXCEPT ![Hash(k)] = b], ValueIn(b, k) = v,
         \A q \in Keys : q # k => ValueIn(b, q) = ValueIn(table[Hash(k)], q),
         Single(b), Len(b) \in ArraySize .. ArraySize + MaxExtra,
         FilledFrom(b, table[Hash(k)], k)
  PROVE  LmInv' /\ Seen' = [Seen EXCEPT ![k] = v]
<1>1. table \in [0 .. HashSize - 1 -> Seq(Slot)] /\ LmTypeOK /\ \A h \in 0 .. HashSize - 1 : Single(table[h])
  BY DEF LmInv
<1>2. \A q \in Keys : Hash(q) \in 0 .. HashSize - 1
  BY HashIn
<1>3. /\ table' \in [0 .. HashSize - 1 -> Seq(Slot)] /\ table'[Hash(k)] = b
      /\ \A h \in 0 .. HashSize - 1 : h # Hash(k) => table'[h] = table[h]
  BY <1>1, <1>2
<1>4. \A q \in Keys : Seen'[q] = ValueIn(table'[Hash(q)], q)
  BY DEF Seen, lm_map_get, ValueIn
<1>5. \A q \in Keys : Seen'[q] = IF q = k THEN v ELSE Seen[q]
  BY <1>2, <1>3, <1>4, SeenIs
<1>6. Seen = [q \in Keys |-> Seen[q]] /\ Seen' = [q \in Keys |-> Seen'[q]]
  BY DEF Seen
<1>7. Seen' = [Seen EXCEPT ![k] = v]
  BY <1>5, <1>6
<1>8. DOMAIN b = 1 .. Len(b) /\ DOMAIN table[Hash(k)] = 1 .. Len(table[Hash(k)])
  BY <1>1, <1>2, LenProperties
<1>9. \A i \in DOMAIN b : b[i] = Free \/ (Hash(b[i].key) = Hash(k) /\ b[i].value \in Values)
  BY <1>1, <1>2, <1>8 DEF LmTypeOK, FilledFrom
<1>10. LmTypeOK'
  <2> SUFFICES ASSUME NEW h \in 0 .. HashSize - 1
               PROVE  /\ Len(table'[h]) \in ArraySize .. ArraySize + MaxExtra
                      /\ \A i \in DOMAIN table'[h] : table'[h][i] = Free \/ (Hash(table'[h][i].key) = h /\ table'[h][i].value \in Values)
    BY <1>3 DEF LmTypeOK
  <2>1. CASE h = Hash(k)
    BY <1>3, <1>9, <2>1
  <2>2. CASE h # Hash(k)
    BY <1>1, <1>3, <2>2 DEF LmTypeOK
  <2> QED BY <2>1, <2>2
<1>11. \A h \in 0 .. HashSize - 1 : Single(table'[h])
  BY <1>1, <1>3
<1> QED BY <1>3, <1>7, <1>10, <1>11 DEF LmInv

(* Every step is one of the abstract map's.                                   *)
LEMMA LmMapStep ==
  ASSUME LmAssumption, LmInv, LmNext
  PROVE  LmInv' /\ Abstract!MapNext
<1>1. table \in [0 .. HashSize - 1 -> Seq(Slot)] /\ LmTypeOK /\ \A h \in 0 .. HashSize - 1 : Single(table[h])
  BY DEF LmInv
<1>2. ASSUME table' = table PROVE LmInv' /\ Seen' = Seen
  BY <1>1, <1>2 DEF LmInv, LmTypeOK, Seen
<1>3. CASE lm_map_clean
  <2>1. LmInv' /\ Seen' = Abstract!Nothing
    <3>1. table' = lm_map_init /\ ArraySize \in ArraySize .. ArraySize + MaxExtra
      BY <1>3 DEF lm_map_clean, LmAssumption
    <3>2. LmInv'
      BY <3>1, InitHasNothing DEF LmInv, LmTypeOK
    <3>3. \A k \in Keys : Seen'[k] = NoValue
      BY <3>1, InitHasNothing DEF Seen, lm_map_get, ValueIn
    <3> QED BY <3>2, <3>3 DEF Seen, Abstract!Nothing
  <2> QED BY <1>3, <2>1 DEF lm_map_clean, Abstract!MapNext, Abstract!Clean
<1>4. ASSUME NEW k \in Keys, Get(k) PROVE LmInv' /\ Abstract!MapNext
  <2>1. Abstract!Get(k)
    BY <1>2, <1>4 DEF Get, Abstract!Get, Seen
  <2> QED BY <1>2, <1>4, <2>1 DEF Get, Abstract!MapNext
<1>5. ASSUME NEW k \in Keys, Del(k) PROVE LmInv' /\ Abstract!MapNext
  <2> DEFINE a == table[Hash(k)]
             b == [a EXCEPT ![Found(a, k)] = Free]
  <2>1. a \in Seq(Slot) /\ Single(a) /\ Len(a) \in ArraySize .. ArraySize + MaxExtra
    BY <1>1, HashIn DEF LmTypeOK
  <2>2. res' = [op |-> "del", value |-> Seen[k]]
    BY <1>5 DEF Del, Seen
  <2>3. LmInv' /\ Seen' = [Seen EXCEPT ![k] = NoValue]
    <3>1. CASE Hits(a, k) = {}
      <4>1. Found(a, k) = 0 /\ table' = table
        BY <1>5, <2>1, <3>1, BucketGet DEF Del, lm_map_del
      <4>2. Seen[k] = NoValue /\ Seen = [q \in Keys |-> Seen[q]]
        BY <4>1 DEF Seen, lm_map_get
      <4>3. [Seen EXCEPT ![k] = NoValue] = Seen
        BY <4>2
      <4> QED BY <1>2, <4>1, <4>3
    <3>2. CASE Hits(a, k) # {}
      <4>1. Found(a, k) # 0
        BY <2>1, <3>2, BucketGet
      <4>2. table' = [table EXCEPT ![Hash(k)] = b]
        BY <1>5, <4>1 DEF Del, lm_map_del
      <4>3. /\ b \in Seq(Slot) /\ ValueIn(b, k) = NoValue /\ Single(b) /\ Len(b) = Len(a)
            /\ \A q \in Keys : q # k => ValueIn(b, q) = ValueIn(a, q)
            /\ \A i \in 1 .. Len(b) : b[i] = Free \/ b[i] = a[i]
        BY <2>1, <3>2, BucketDel
      <4> HIDE DEF b
      <4>4. FilledFrom(b, a, k) /\ Len(b) \in ArraySize .. ArraySize + MaxExtra
        BY <2>1, <4>3 DEF FilledFrom
      <4> QED BY <4>2, <4>3, <4>4, OneChanged
    <3> QED BY <3>1, <3>2
  <2> QED BY <2>2, <2>3 DEF Abstract!MapNext, Abstract!Del
<1>6. ASSUME NEW k \in Keys, NEW v \in Values, Put(k, v) PROVE LmInv' /\ Abstract!MapNext
  <2> DEFINE a == table[Hash(k)]
             b == AfterPut(a, k, v)
             e == [key |-> k, value |-> v]
  <2>1. /\ a \in Seq(Slot) /\ Single(a) /\ Len(a) \in ArraySize .. ArraySize + MaxExtra
        /\ ArraySize \in Nat /\ MaxExtra \in Nat
    BY <1>1, HashIn DEF LmTypeOK, LmAssumption
  <2>2. Hits(a, k) = {}
    <3>1. ValueIn(a, k) = NoValue
      BY <1>6 DEF Put, lm_map_get, ValueIn
    <3> QED BY <2>1, <3>1, BucketGet DEF ValueIn, Hits
  <2>3. res' = [op |-> "put", value |-> v] /\ (Len(a) < ArraySize + MaxExtra \/ \E i \in DOMAIN a : IsFree(a[i]))
    BY <1>6 DEF Put
  <2>4. table' = [table EXCEPT ![Hash(k)] = b]
    <3> DEFINE same == First(SubSeq(a, 1, ArraySize), LAMBDA s : s.key = k)
               i == First(a, IsFree)
    <3>1. CASE same # 0 /\ (i = 0 \/ same < i)
      <4>1. table' = table /\ b = a
        BY <1>6, <3>1 DEF Put, lm_map_put, AfterPut
      <4> QED BY <1>1, <4>1, HashIn
    <3>2. CASE ~(same # 0 /\ (i = 0 \/ same < i))
      BY <1>6, <3>2 DEF Put, lm_map_put, AfterPut
    <3> QED BY <3>1, <3>2
  <2>5. /\ b \in Seq(Slot) /\ ValueIn(b, k) = v /\ Single(b)
        /\ \A q \in Keys : q # k => ValueIn(b, q) = ValueIn(a, q)
        /\ \A i \in 1 .. Len(b) : b[i] = e \/ (i \in 1 .. Len(a) /\ b[i] = a[i])
        /\ Len(b) = Len(a) \/ (Len(b) = Len(a) + 1 /\ \A i \in DOMAIN a : ~IsFree(a[i]))
    <3>1. Len(a) >= ArraySize
      BY <2>1
    <3> QED BY <2>1, <2>2, <3>1, BucketPut
  <2>6. e.key = k /\ e.value \in Values
    OBVIOUS
  <2> HIDE DEF b, e
  <2>7. Len(b) \in ArraySize .. ArraySize + MaxExtra
    <3>1. CASE Len(b) = Len(a)
      BY <2>1, <3>1
    <3>2. CASE Len(b) # Len(a)
      <4>1. Len(b) = Len(a) + 1 /\ Len(a) < ArraySize + MaxExtra
        BY <2>3, <2>5, <3>2
      <4> HIDE DEF a
      <4> QED BY <2>1, <4>1
    <3> QED BY <3>1, <3>2
  <2>8. LmInv' /\ Seen' = [Seen EXCEPT ![k] = v]
    <3>1. FilledFrom(b, a, k)
      BY <2>5, <2>6 DEF FilledFrom
    <3> QED BY <2>4, <2>5, <2>7, <3>1, OneChanged
  <2> QED BY <2>3, <2>8 DEF Abstract!MapNext, Abstract!Put
<1> QED BY <1>3, <1>4, <1>5, <1>6 DEF LmNext

(* For any keys, number of buckets and slots: the local map in which a        *)
(* permission keeps its channels answers like a function from keys to values  *)
(* (lm_map_put, get and del of ns_turn_maps.c), and its buckets keep within   *)
(* their slots.                                                               *)
THEOREM LmMapIsMap ==
  ASSUME LmAssumption
  PROVE  LmSpec => LmImplementsMap /\ []LmTypeOK
<1>1. LmInit => LmInv /\ Abstract!MapInit
  BY NewMap DEF LmInit, Abstract!MapInit
<1>2. LmInv /\ [LmNext]_lmVars => LmInv' /\ [Abstract!MapNext]_(Abstract!mapVars)
  <2> SUFFICES ASSUME LmInv, [LmNext]_lmVars PROVE LmInv' /\ [Abstract!MapNext]_(Abstract!mapVars)
    OBVIOUS
  <2>1. CASE LmNext
    BY <2>1, LmMapStep
  <2>2. CASE UNCHANGED lmVars
    BY <2>2 DEF lmVars, LmInv, LmTypeOK, Abstract!mapVars, Seen, lm_map_get
  <2> QED BY <2>1, <2>2
<1>3. LmInv => LmTypeOK
  BY DEF LmInv
<1> QED BY <1>1, <1>2, <1>3, PTL DEF LmSpec, LmImplementsMap, Abstract!MapSpecification

-----------------------------------------------------------------------------
(* The peers of an allocation.                                                *)

PermEntry == [allocated : BOOLEAN, addr : Ip \cup {NoIp}, ev : BOOLEAN, chns : [PeerPort -> Nat]]
ChnEntry ==
  [allocated : BOOLEAN, chnum : ChNum \cup {0}, peer : (Ip \cup {NoIp}) \X (PeerPort \cup {0}),
   owner : Nat, ev : BOOLEAN]
Events == [kind : {"perm", "chn"}, slot : Nat, left : 0 .. Longest]
Tables == [perms : Seq(PermEntry), chns : Seq(ChnEntry), timers : SUBSET Events]

(* Pointers stay within the tables.                                           *)
Within(P, C) ==
  /\ \A i \in DOMAIN P, p \in PeerPort : P[i].chns[p] <= Len(C)
  /\ \A k \in DOMAIN C : C[k].owner <= Len(P)

(* TablesLinked, and what is in an entry that is in use.                      *)
LinkedBoth(P, C) ==
  /\ \A k \in Allocated(C) :
       /\ C[k].peer \in PeerAddr /\ C[k].chnum \in ChNum
       /\ C[k].owner \in Allocated(P) /\ P[C[k].owner].addr = C[k].peer[1]
       /\ P[C[k].owner].chns[C[k].peer[2]] = k
  /\ \A i \in Allocated(P), p \in PeerPort :
       P[i].chns[p] # 0 => /\ P[i].chns[p] \in Allocated(C)
                           /\ C[P[i].chns[p]].owner = i /\ C[P[i].chns[p]].peer[2] = p

(* An address has one permission and a number one channel.                    *)
OneEach(P, C) ==
  /\ \A i \in Allocated(P) : P[i].addr \in Ip
  /\ \A i, j \in Allocated(P) : P[i].addr = P[j].addr => i = j
  /\ \A j, k \in Allocated(C) : C[j].chnum = C[k].chnum => j = k

(* An event is of an entry that holds its handle, and the only one.           *)
EventsHeld(P, C, T) ==
  /\ \A t \in T : /\ t.kind = "perm" => t.slot \in Allocated(P) /\ P[t.slot].ev
                  /\ t.kind = "chn" => t.slot \in Allocated(C) /\ C[t.slot].ev
  /\ \A t, u \in T : t.kind = u.kind /\ t.slot = u.slot => t = u

(* What holds in the middle of a request, too.                                *)
Sound(a) ==
  /\ a \in Tables /\ Within(a.perms, a.chns) /\ LinkedBoth(a.perms, a.chns)
  /\ OneEach(a.perms, a.chns) /\ EventsHeld(a.perms, a.chns, a.timers)

(* Each entry in use has its event, but for those a request is working on.    *)
TimedBut(a, is, ks) ==
  /\ \A i \in Allocated(a.perms) \ is : \E t \in a.timers : t.kind = "perm" /\ t.slot = i
  /\ \A k \in Allocated(a.chns) \ ks : \E t \in a.timers : t.kind = "chn" /\ t.slot = k

(* The event of a permission comes when what was promised for its address is  *)
(* over, and nothing is promised for an address without a permission.         *)
Owes(a, owed) ==
  /\ \A t \in a.timers : t.kind = "perm" => t.left = owed[a.perms[t.slot].addr]
  /\ \A ip \in Ip : (\A i \in Allocated(a.perms) : a.perms[i].addr # ip) => owed[ip] = 0

(* A channel is of the peer its number was bound to.                          *)
BoundTo(C, b) == \A k \in Allocated(C) : b[C[k].chnum] = C[k].peer

-----------------------------------------------------------------------------
(* There is a first free place, at the end at the latest.                     *)
LEMMA FirstFreeIs ==
  ASSUME NEW E, NEW s \in Seq(E)
  PROVE  FirstFree(s) \in 1 .. Len(s) + 1 /\ FirstFree(s) \notin Allocated(s)
<1>1. Len(s) \in Nat /\ DOMAIN s = 1 .. Len(s)
  BY LenProperties
<1> DEFINE S == {i \in 1 .. Len(s) + 1 : i \notin Allocated(s)}
<1>2. S \in SUBSET Nat
  BY <1>1
<1>3. Len(s) + 1 \in S
  BY <1>1 DEF Allocated
<1>4. PICK m \in S : \A y \in S : m <= y
  <2> HIDE DEF S
  <2> QED BY <1>2, <1>3, LeastIs
<1>5. \A j \in 1 .. m - 1 : j \in Allocated(s)
  <2> TAKE j \in 1 .. m - 1
  <2>1. j \in 1 .. Len(s) + 1 /\ ~(m <= j)
    BY <1>1, <1>4
  <2> QED BY <1>4, <2>1
<1>6. \E i \in 1 .. Len(s) + 1 : i \notin Allocated(s) /\ \A j \in 1 .. i - 1 : j \in Allocated(s)
  BY <1>4, <1>5
<1> QED BY <1>6 DEF FirstFree

(* What putting entry e into place i of table s makes of it.                  *)
IsPut(E, s, i, e, q) ==
  /\ q \in Seq(E) /\ q[i] = e
  /\ \A j \in DOMAIN s : j # i => q[j] = s[j]
  /\ DOMAIN q = DOMAIN s \cup {i}
  /\ Len(q) \in Nat /\ Len(s) <= Len(q) /\ i <= Len(q)

(* Putting an entry into a free place.                                        *)
LEMMA PutIs ==
  ASSUME NEW E, NEW s \in Seq(E), NEW i \in 1 .. Len(s) + 1, NEW e \in E
  PROVE  IsPut(E, s, i, e, SetEntry(s, i, e))
<1>1. Len(s) \in Nat /\ DOMAIN s = 1 .. Len(s)
  BY LenProperties
<1>2. CASE i > Len(s)
  <2>1. i = Len(s) + 1 /\ SetEntry(s, i, e) = Append(s, e)
    BY <1>1, <1>2 DEF SetEntry
  <2>2. /\ Append(s, e) \in Seq(E) /\ Len(Append(s, e)) = Len(s) + 1 /\ Append(s, e)[Len(s) + 1] = e
        /\ \A j \in 1 .. Len(s) : Append(s, e)[j] = s[j]
    BY <1>1, AppendProperties
  <2>3. DOMAIN Append(s, e) = 1 .. Len(s) + 1
    BY <2>2, LenProperties
  <2>4. 1 .. Len(s) + 1 = 1 .. Len(s) \cup {Len(s) + 1} /\ Len(s) + 1 \in Nat /\ Len(s) <= Len(s) + 1
    BY <1>1
  <2>5. PICK q : q = Append(s, e)
    OBVIOUS
  <2>6. SetEntry(s, i, e) = q /\ q \in Seq(E) /\ q[i] = e /\ (\A j \in DOMAIN s : q[j] = s[j]) /\ DOMAIN q = DOMAIN s \cup {i}
    BY <1>1, <2>1, <2>2, <2>3, <2>4, <2>5
  <2>7. Len(q) = Len(s) + 1
    BY <2>2, <2>5
  <2> HIDE <2>5
  <2> QED BY <2>1, <2>4, <2>6, <2>7 DEF IsPut
<1>3. CASE ~(i > Len(s))
  <2>1. i \in 1 .. Len(s) /\ SetEntry(s, i, e) = [s EXCEPT ![i] = e]
    BY <1>1, <1>3 DEF SetEntry
  <2>2. [s EXCEPT ![i] = e] \in Seq(E) /\ Len([s EXCEPT ![i] = e]) = Len(s)
    BY <1>1, <2>1, ExceptSeq
  <2> QED BY <1>1, <2>1, <2>2 DEF IsPut
<1> QED BY <1>2, <1>3

(* A new entry in use is one more of them.                                    *)
LEMMA PutAllocated ==
  ASSUME NEW E, NEW s \in Seq(E), NEW i \in 1 .. Len(s) + 1, NEW e \in E, e.allocated, i \notin Allocated(s)
  PROVE  Allocated(SetEntry(s, i, e)) = Allocated(s) \cup {i}
<1>1. PICK q : q = SetEntry(s, i, e)
  OBVIOUS
<1>2. IsPut(E, s, i, e, q)
  BY <1>1, PutIs
<1>3. Allocated(q) = Allocated(s) \cup {i}
  BY <1>2 DEF Allocated, IsPut
<1> QED BY <1>1, <1>3

(* The entries of well-formed tables.                                         *)
LEMMA EntryTypes ==
  ASSUME NEW a \in Tables
  PROVE  /\ a.perms \in Seq(PermEntry) /\ a.chns \in Seq(ChnEntry) /\ a.timers \in SUBSET Events
         /\ Len(a.perms) \in Nat /\ DOMAIN a.perms = 1 .. Len(a.perms)
         /\ Len(a.chns) \in Nat /\ DOMAIN a.chns = 1 .. Len(a.chns)
         /\ \A i \in DOMAIN a.perms : a.perms[i] \in PermEntry
         /\ \A k \in DOMAIN a.chns : a.chns[k] \in ChnEntry
<1>1. a.perms \in Seq(PermEntry) /\ a.chns \in Seq(ChnEntry) /\ a.timers \in SUBSET Events
  BY DEF Tables
<1> HIDE DEF PermEntry, ChnEntry, Events
<1>2. /\ Len(a.perms) \in Nat /\ DOMAIN a.perms = 1 .. Len(a.perms)
      /\ Len(a.chns) \in Nat /\ DOMAIN a.chns = 1 .. Len(a.chns)
  BY <1>1, LenProperties
<1> QED BY <1>1, <1>2, ElementOfSeq

(* What adding a permission for ip at place i does.                           *)
PermissionAdded(a, ip, i, b) ==
  /\ b \in Tables /\ b.chns = a.chns /\ b.timers = a.timers
  /\ Len(a.perms) <= Len(b.perms) /\ i \notin Allocated(a.perms) /\ Allocated(b.perms) = Allocated(a.perms) \cup {i}
  /\ \A j \in DOMAIN b.perms : j # i => j \in DOMAIN a.perms /\ b.perms[j] = a.perms[j]
  /\ i \in DOMAIN b.perms /\ b.perms[i].addr = ip /\ \A p \in PeerPort : b.perms[i].chns[p] = 0

(* It takes the first free place of the table.                                *)
LEMMA AddPermission ==
  ASSUME NEW a \in Tables, NEW ip \in Ip
  PROVE  PermissionAdded(a, ip, FirstFree(a.perms), allocation_add_permission(a, ip))
<1> DEFINE e == NewPermission(ip)
           i == FirstFree(a.perms)
           q == SetEntry(a.perms, i, e)
           b == allocation_add_permission(a, ip)
<1>1. a.perms \in Seq(PermEntry) /\ a.chns \in Seq(ChnEntry) /\ a.timers \in SUBSET Events
  BY DEF Tables
<1>3. e \in PermEntry /\ e.allocated /\ e.addr = ip /\ \A p \in PeerPort : e.chns[p] = 0
  BY DEF PermEntry, NewPermission
<1>4. i \in 1 .. Len(a.perms) + 1 /\ i \notin Allocated(a.perms)
  BY <1>1, FirstFreeIs
<1>5. b = [a EXCEPT !.perms = q]
  BY DEF allocation_add_permission
<1> HIDE DEF e, i, b
<1>6. IsPut(PermEntry, a.perms, i, e, q)
  BY <1>1, <1>3, <1>4, PutIs
<1>7. Allocated(q) = Allocated(a.perms) \cup {i}
  BY <1>1, <1>3, <1>4, PutAllocated
<1> HIDE DEF q
<1>8. b \in Tables /\ b.perms = q /\ b.chns = a.chns /\ b.timers = a.timers
  BY <1>1, <1>5, <1>6 DEF Tables, IsPut
<1>9. PermissionAdded(a, ip, i, b)
  BY <1>3, <1>4, <1>6, <1>7, <1>8 DEF PermissionAdded, IsPut
<1> QED BY <1>9 DEF i, b

(* It keeps what holds in the middle of a request.                            *)
LEMMA AddedSound ==
  ASSUME PeersAssumption, NEW a, Sound(a), NEW ip \in Ip, NEW i, NEW b, PermissionAdded(a, ip, i, b),
         get_from_turn_permission_hashtable(a, ip) = {}
  PROVE  Sound(b)
<1> DEFINE P == a.perms
           Q == b.perms
           C == a.chns
<1>1. /\ b \in Tables /\ b.chns = C /\ b.timers = a.timers
      /\ Len(P) <= Len(Q) /\ i \notin Allocated(P) /\ Allocated(Q) = Allocated(P) \cup {i}
      /\ \A j \in DOMAIN Q : j # i => j \in DOMAIN P /\ Q[j] = P[j]
      /\ i \in DOMAIN Q /\ Q[i].addr = ip /\ \A p \in PeerPort : Q[i].chns[p] = 0
  BY DEF PermissionAdded
<1>2. a \in Tables /\ Within(P, C) /\ LinkedBoth(P, C) /\ OneEach(P, C) /\ EventsHeld(P, C, a.timers)
  BY DEF Sound
<1>3. Len(P) \in Nat /\ Len(Q) \in Nat /\ Len(C) \in Nat /\ \A k \in DOMAIN C : C[k].owner \in Nat
  BY <1>1, <1>2, EntryTypes DEF ChnEntry
<1>4. \A j \in Allocated(P) : P[j].addr # ip
  BY DEF get_from_turn_permission_hashtable
<1>5. \A j \in Allocated(P) : j \in Allocated(Q) /\ j # i /\ j \in DOMAIN Q /\ Q[j] = P[j]
  BY <1>1 DEF Allocated
<1>6. \A j \in Allocated(Q) : j = i \/ j \in Allocated(P)
  BY <1>1
<1> HIDE DEF P, Q, C
<1>7. Within(Q, C)
  BY <1>1, <1>2, <1>3 DEF Within
<1>8. LinkedBoth(Q, C)
  BY <1>1, <1>2, <1>5, <1>6 DEF LinkedBoth
<1>9. OneEach(Q, C)
  BY <1>1, <1>2, <1>4, <1>5, <1>6 DEF OneEach
<1>10. EventsHeld(Q, C, a.timers)
  BY <1>2, <1>5 DEF EventsHeld
<1> QED BY <1>1, <1>7, <1>8, <1>9, <1>10 DEF Sound, P, Q, C

(* There is a permission for ip, at place i, after it was asked for.          *)
PermissionHad(a, ip, i, b) ==
  /\ i \in Allocated(b.perms) /\ b.perms[i].addr = ip
  /\ \/ b = a
     \/ PermissionAdded(a, ip, i, b) /\ get_from_turn_permission_hashtable(a, ip) = {}

(* It is made when the address has none.                                      *)
LEMMA GetPermission ==
  ASSUME PeersAssumption, NEW a, Sound(a), NEW ip \in Ip, NEW b, b = allocation_get_permission(a, ip)
  PROVE  Sound(b) /\ PermissionHad(a, ip, PermissionOf(b, ip), b)
<1>1. a \in Tables
  BY DEF Sound
<1>2. CASE get_from_turn_permission_hashtable(a, ip) = {}
  <2>1. PICK i : i = FirstFree(a.perms)
    OBVIOUS
  <2>2. PermissionAdded(a, ip, i, b)
    BY <1>1, <1>2, <2>1, AddPermission DEF allocation_get_permission
  <2>3. Sound(b)
    BY <1>2, <2>2, AddedSound
  <2>4. get_from_turn_permission_hashtable(b, ip) = {i}
    BY <1>2, <2>2 DEF PermissionAdded, get_from_turn_permission_hashtable, Allocated
  <2>5. PermissionOf(b, ip) = i
    BY <2>4 DEF PermissionOf
  <2>6. i \in Allocated(b.perms) /\ b.perms[i].addr = ip
    BY <2>2 DEF PermissionAdded
  <2> QED BY <1>2, <2>2, <2>3, <2>5, <2>6 DEF PermissionHad
<1>3. CASE get_from_turn_permission_hashtable(a, ip) # {}
  <2>1. b = a
    BY <1>3 DEF allocation_get_permission
  <2>2. PermissionOf(a, ip) \in get_from_turn_permission_hashtable(a, ip)
    BY <1>3 DEF PermissionOf
  <2> QED BY <2>1, <2>2 DEF PermissionHad, get_from_turn_permission_hashtable
<1> QED BY <1>2, <1>3

-----------------------------------------------------------------------------
(* Tables that differ in what events their entries hold only.                 *)
SameButEv(P, C, Q, D) ==
  /\ DOMAIN Q = DOMAIN P /\ DOMAIN D = DOMAIN C /\ Len(Q) = Len(P) /\ Len(D) = Len(C)
  /\ \A i \in DOMAIN P : Q[i].allocated = P[i].allocated /\ Q[i].addr = P[i].addr /\ Q[i].chns = P[i].chns
  /\ \A k \in DOMAIN C : /\ D[k].allocated = C[k].allocated /\ D[k].chnum = C[k].chnum
                         /\ D[k].peer = C[k].peer /\ D[k].owner = C[k].owner

(* They are linked alike.                                                     *)
LEMMA SameLinks ==
  ASSUME NEW P, NEW C, NEW Q, NEW D, SameButEv(P, C, Q, D)
  PROVE  /\ Allocated(Q) = Allocated(P) /\ Allocated(D) = Allocated(C)
         /\ Within(P, C) => Within(Q, D)
         /\ LinkedBoth(P, C) => LinkedBoth(Q, D)
         /\ OneEach(P, C) => OneEach(Q, D)
<1>1. Allocated(Q) = Allocated(P) /\ Allocated(D) = Allocated(C)
  BY DEF SameButEv, Allocated
<1>2. /\ \A i \in Allocated(P) : i \in DOMAIN P /\ Q[i].addr = P[i].addr /\ Q[i].chns = P[i].chns
      /\ \A k \in Allocated(C) : /\ k \in DOMAIN C /\ D[k].chnum = C[k].chnum /\ D[k].peer = C[k].peer
                               /\ D[k].owner = C[k].owner
  BY DEF SameButEv, Allocated
<1>3. Within(P, C) => Within(Q, D)
  BY DEF SameButEv, Within
<1>4. LinkedBoth(P, C) => LinkedBoth(Q, D)
  BY <1>1, <1>2 DEF LinkedBoth
<1>5. OneEach(P, C) => OneEach(Q, D)
  BY <1>1, <1>2 DEF OneEach
<1> QED BY <1>1, <1>3, <1>4, <1>5

(* The events of one kind without those of one entry.                         *)
Without(T, kind, i) == {t \in T : ~(t.kind = kind /\ t.slot = i)}

(* The event of permission i is started anew.                                 *)
PermissionTimed(a, i, d, b) ==
  /\ b \in Tables /\ b.chns = a.chns /\ SameButEv(a.perms, a.chns, b.perms, b.chns)
  /\ b.timers = Without(a.timers, "perm", i) \cup {Event("perm", i, d)}

(* Nothing but the event and the handle in the entry changes.                 *)
LEMMA TimePermission ==
  ASSUME PeersAssumption, NEW a, Sound(a), NEW i \in Allocated(a.perms), NEW d \in 0 .. Longest,
         NEW b, b = update_turn_permission_lifetime(a, i, d)
  PROVE  Sound(b) /\ PermissionTimed(a, i, d, b)
<1>1. /\ a \in Tables /\ Within(a.perms, a.chns) /\ LinkedBoth(a.perms, a.chns) /\ OneEach(a.perms, a.chns)
      /\ EventsHeld(a.perms, a.chns, a.timers)
  BY DEF Sound
<1>2. /\ a.perms \in Seq(PermEntry) /\ a.chns \in Seq(ChnEntry) /\ a.timers \in SUBSET Events
      /\ Len(a.perms) \in Nat /\ DOMAIN a.perms = 1 .. Len(a.perms)
      /\ \A j \in DOMAIN a.perms : a.perms[j] \in PermEntry
  BY <1>1, EntryTypes
<1>3. i \in DOMAIN a.perms /\ i \in Nat
  BY <1>2 DEF Allocated
<1> DEFINE e == [a.perms[i] EXCEPT !.ev = TRUE]
           Q == [a.perms EXCEPT ![i] = e]
           T == Without(a.timers, "perm", i) \cup {Event("perm", i, d)}
<1>4. PICK r : r = a.perms[i]
  OBVIOUS
<1>5. r \in PermEntry
  BY <1>2, <1>3, <1>4
<1>6. e \in PermEntry /\ e.allocated = r.allocated /\ e.addr = r.addr /\ e.chns = r.chns /\ e.ev
  <2>1. PICK u : u = TRUE
    OBVIOUS
  <2>2. PICK f : f = [r EXCEPT !.ev = u]
    OBVIOUS
  <2>3. u \in BOOLEAN
    BY <2>1
  <2>4. f \in PermEntry /\ f.allocated = r.allocated /\ f.addr = r.addr /\ f.chns = r.chns /\ f.ev = u
    BY <1>5, <2>2, <2>3 DEF PermEntry
  <2>5. f = e
    BY <1>4, <2>1, <2>2
  <2> QED BY <2>1, <2>4, <2>5
<1> HIDE DEF e
<1>7. Q \in Seq(PermEntry) /\ Len(Q) = Len(a.perms) /\ DOMAIN Q = DOMAIN a.perms
  BY <1>2, <1>3, <1>6, ExceptSeq
<1>8. Q[i] = e /\ \A j \in DOMAIN a.perms : j # i => Q[j] = a.perms[j]
  BY <1>3
<1> HIDE DEF Q
<1>9. SameButEv(a.perms, a.chns, Q, a.chns)
  BY <1>4, <1>6, <1>7, <1>8 DEF SameButEv
<1>10. EventDel(a.timers, "perm", a.perms, {i}) = Without(a.timers, "perm", i)
  BY <1>1 DEF EventDel, Without, EventsHeld
<1>11. b = [[a EXCEPT !.timers = T] EXCEPT !.perms = Q]
  BY <1>10 DEF update_turn_permission_lifetime, Q, e
<1>12. Event("perm", i, d) \in Events /\ Event("perm", i, d).kind = "perm" /\ Event("perm", i, d).slot = i
  BY <1>3 DEF Event, Events
<1>13. T \in SUBSET Events
  BY <1>2, <1>12 DEF Without
<1>14. Allocated(Q) = Allocated(a.perms)
  BY <1>9, SameLinks
<1>15. EventsHeld(Q, a.chns, T)
  <2>1. \A t \in T : (t \in a.timers /\ ~(t.kind = "perm" /\ t.slot = i)) \/ t = Event("perm", i, d)
    BY DEF Without
  <2>2. \A j \in Allocated(Q) : a.perms[j].ev => Q[j].ev
    BY <1>6, <1>8, <1>14 DEF Allocated
  <2>3. Q[i].ev /\ i \in Allocated(Q)
    BY <1>6, <1>8, <1>14
  <2> HIDE DEF T
  <2>4. \A t \in T : /\ t.kind = "perm" => t.slot \in Allocated(Q) /\ Q[t.slot].ev
                     /\ t.kind = "chn" => t.slot \in Allocated(a.chns) /\ a.chns[t.slot].ev
    BY <1>1, <1>12, <1>14, <2>1, <2>2, <2>3 DEF EventsHeld
  <2>5. \A t, u \in T : t.kind = u.kind /\ t.slot = u.slot => t = u
    BY <1>1, <1>12, <2>1 DEF EventsHeld
  <2> QED BY <2>4, <2>5 DEF EventsHeld
<1>16. b \in Tables /\ b.perms = Q /\ b.chns = a.chns /\ b.timers = T
  <2> HIDE DEF T
  <2> QED BY <1>1, <1>2, <1>7, <1>11, <1>13 DEF Tables
<1>17. Within(Q, a.chns) /\ LinkedBoth(Q, a.chns) /\ OneEach(Q, a.chns)
  BY <1>1, <1>9, SameLinks
<1> QED BY <1>9, <1>15, <1>16, <1>17 DEF Sound, PermissionTimed

(* So is the event of channel k.                                              *)
ChannelTimed(a, k, d, b) ==
  /\ b \in Tables /\ b.perms = a.perms /\ SameButEv(a.perms, a.chns, b.perms, b.chns)
  /\ b.timers = Without(a.timers, "chn", k) \cup {Event("chn", k, d)}

(* Nothing but the event and the handle in the entry changes.                 *)
LEMMA TimeChannel ==
  ASSUME PeersAssumption, NEW a, Sound(a), NEW k \in Allocated(a.chns), NEW d \in 0 .. Longest, NEW b,
         b = [a EXCEPT !.timers = EventDel(@, "chn", a.chns, {k}) \cup {Event("chn", k, d)}, !.chns[k].ev = TRUE]
  PROVE  Sound(b) /\ ChannelTimed(a, k, d, b)
<1>1. /\ a \in Tables /\ Within(a.perms, a.chns) /\ LinkedBoth(a.perms, a.chns) /\ OneEach(a.perms, a.chns)
      /\ EventsHeld(a.perms, a.chns, a.timers)
  BY DEF Sound
<1>2. /\ a.perms \in Seq(PermEntry) /\ a.chns \in Seq(ChnEntry) /\ a.timers \in SUBSET Events
      /\ Len(a.chns) \in Nat /\ DOMAIN a.chns = 1 .. Len(a.chns)
      /\ \A j \in DOMAIN a.chns : a.chns[j] \in ChnEntry
  BY <1>1, EntryTypes
<1>3. k \in DOMAIN a.chns /\ k \in Nat
  BY <1>2 DEF Allocated
<1> DEFINE e == [a.chns[k] EXCEPT !.ev = TRUE]
           Q == [a.chns EXCEPT ![k] = e]
           T == Without(a.timers, "chn", k) \cup {Event("chn", k, d)}
<1>4. PICK r : r = a.chns[k]
  OBVIOUS
<1>5. r \in ChnEntry
  BY <1>2, <1>3, <1>4
<1>6. /\ e \in ChnEntry /\ e.allocated = r.allocated /\ e.chnum = r.chnum /\ e.peer = r.peer /\ e.owner = r.owner
      /\ e.ev
  <2>1. PICK u : u = TRUE
    OBVIOUS
  <2>2. PICK f : f = [r EXCEPT !.ev = u]
    OBVIOUS
  <2>3. u \in BOOLEAN
    BY <2>1
  <2>4. /\ f \in ChnEntry /\ f.allocated = r.allocated /\ f.chnum = r.chnum /\ f.peer = r.peer /\ f.owner = r.owner
        /\ f.ev = u
    BY <1>5, <2>2, <2>3 DEF ChnEntry
  <2>5. f = e
    BY <1>4, <2>1, <2>2
  <2> QED BY <2>1, <2>4, <2>5
<1> HIDE DEF e
<1>7. Q \in Seq(ChnEntry) /\ Len(Q) = Len(a.chns) /\ DOMAIN Q = DOMAIN a.chns
  BY <1>2, <1>3, <1>6, ExceptSeq
<1>8. Q[k] = e /\ \A j \in DOMAIN a.chns : j # k => Q[j] = a.chns[j]
  BY <1>3
<1> HIDE DEF Q
<1>9. SameButEv(a.perms, a.chns, a.perms, Q)
  BY <1>4, <1>6, <1>7, <1>8 DEF SameButEv
<1>10. EventDel(a.timers, "chn", a.chns, {k}) = Without(a.timers, "chn", k)
  BY <1>1 DEF EventDel, Without, EventsHeld
<1>11. b = [[a EXCEPT !.timers = T] EXCEPT !.chns = Q]
  BY <1>10 DEF Q, e
<1>12. Event("chn", k, d) \in Events /\ Event("chn", k, d).kind = "chn" /\ Event("chn", k, d).slot = k
  BY <1>3 DEF Event, Events
<1>13. T \in SUBSET Events
  BY <1>2, <1>12 DEF Without
<1>14. Allocated(Q) = Allocated(a.chns)
  BY <1>9, SameLinks
<1>15. EventsHeld(a.perms, Q, T)
  <2>1. \A t \in T : (t \in a.timers /\ ~(t.kind = "chn" /\ t.slot = k)) \/ t = Event("chn", k, d)
    BY DEF Without
  <2>2. \A j \in Allocated(Q) : a.chns[j].ev => Q[j].ev
    BY <1>6, <1>8, <1>14 DEF Allocated
  <2>3. Q[k].ev /\ k \in Allocated(Q)
    BY <1>6, <1>8, <1>14
  <2> HIDE DEF T
  <2>4. \A t \in T : /\ t.kind = "perm" => t.slot \in Allocated(a.perms) /\ a.perms[t.slot].ev
                     /\ t.kind = "chn" => t.slot \in Allocated(Q) /\ Q[t.slot].ev
    BY <1>1, <1>12, <1>14, <2>1, <2>2, <2>3 DEF EventsHeld
  <2>5. \A t, u \in T : t.kind = u.kind /\ t.slot = u.slot => t = u
    BY <1>1, <1>12, <2>1 DEF EventsHeld
  <2> QED BY <2>4, <2>5 DEF EventsHeld
<1>16. b \in Tables /\ b.perms = a.perms /\ b.chns = Q /\ b.timers = T
  <2> HIDE DEF T
  <2> QED BY <1>1, <1>2, <1>7, <1>11, <1>13 DEF Tables
<1>17. Within(a.perms, Q) /\ LinkedBoth(a.perms, Q) /\ OneEach(a.perms, Q)
  BY <1>1, <1>9, SameLinks
<1> QED BY <1>9, <1>15, <1>16, <1>17 DEF Sound, ChannelTimed

(* Once its event is started anew, a permission has one, and what is promised *)
(* for its address is what the event says.                                    *)
LEMMA TimedAsPromised ==
  ASSUME PeersAssumption, NEW a, Sound(a), NEW i \in Allocated(a.perms), NEW d \in 0 .. Longest, NEW ks,
         TimedBut(a, {i}, ks), NEW owed \in [Ip -> Nat], Owes(a, owed), NEW b, PermissionTimed(a, i, d, b)
  PROVE  TimedBut(b, {}, ks) /\ Owes(b, [owed EXCEPT ![a.perms[i].addr] = d])
<1> DEFINE e == Event("perm", i, d)
           ip == a.perms[i].addr
           new == [owed EXCEPT ![ip] = d]
<1>1. /\ b.chns = a.chns /\ SameButEv(a.perms, a.chns, b.perms, b.chns)
      /\ b.timers = Without(a.timers, "perm", i) \cup {e}
  BY DEF PermissionTimed
<1>2. Allocated(b.perms) = Allocated(a.perms) /\ Allocated(b.chns) = Allocated(a.chns)
  BY <1>1, SameLinks
<1>3. \A j \in Allocated(a.perms) : b.perms[j].addr = a.perms[j].addr
  BY <1>1 DEF SameButEv, Allocated
<1>4. e.kind = "perm" /\ e.slot = i /\ e.left = d /\ e \in b.timers
  BY <1>1 DEF Event
<1> HIDE DEF e
<1>5. /\ \A t \in b.timers : t = e \/ (t \in a.timers /\ ~(t.kind = "perm" /\ t.slot = i))
      /\ \A t \in a.timers : ~(t.kind = "perm" /\ t.slot = i) => t \in b.timers
  BY <1>1 DEF Without
<1>6. TimedBut(b, {}, ks)
  BY <1>2, <1>4, <1>5 DEF TimedBut
<1>7. ip \in Ip
  BY DEF Sound, OneEach
<1>8. new[ip] = d /\ \A x \in Ip : x # ip => new[x] = owed[x]
  BY <1>7
<1> HIDE DEF new
<1>9. ASSUME NEW t \in b.timers, t.kind = "perm" PROVE t.left = new[b.perms[t.slot].addr]
  <2>1. CASE t = e
    BY <1>3, <1>4, <1>8, <2>1
  <2>2. CASE t # e
    <3>1. t \in a.timers /\ t.slot # i
      BY <1>5, <1>9, <2>2
    <3>2. t.slot \in Allocated(a.perms) /\ t.left = owed[a.perms[t.slot].addr]
      BY <1>9, <3>1 DEF Owes, Sound, EventsHeld
    <3>3. a.perms[t.slot].addr \in Ip /\ a.perms[t.slot].addr # ip
      BY <3>1, <3>2 DEF Sound, OneEach
    <3> QED BY <1>3, <1>8, <3>2, <3>3
  <2> QED BY <2>1, <2>2
<1>10. ASSUME NEW x \in Ip, \A j \in Allocated(b.perms) : b.perms[j].addr # x PROVE new[x] = 0
  <2>1. x # ip /\ \A j \in Allocated(a.perms) : a.perms[j].addr # x
    BY <1>2, <1>3, <1>10
  <2> QED BY <1>8, <2>1 DEF Owes
<1>11. Owes(b, new)
  BY <1>9, <1>10 DEF Owes
<1> QED BY <1>6, <1>11 DEF new

(* A permission that was asked for has no event yet, but changes nothing of   *)
(* what is promised.                                                          *)
LEMMA HadAsPromised ==
  ASSUME NEW a, Sound(a), NEW ip \in Ip, NEW i, NEW b, Sound(b), PermissionHad(a, ip, i, b), TimedBut(a, {}, {}),
         NEW owed, Owes(a, owed)
  PROVE  b.chns = a.chns /\ b.timers = a.timers /\ TimedBut(b, {i}, {}) /\ Owes(b, owed)
<1>1. b.chns = a.chns /\ b.timers = a.timers
  BY DEF PermissionHad, PermissionAdded
<1>2. \A j \in Allocated(b.perms) : j = i \/ j \in Allocated(a.perms)
  BY DEF PermissionHad, PermissionAdded, Allocated
<1>3. \A j \in Allocated(a.perms) : j \in Allocated(b.perms) /\ b.perms[j] = a.perms[j]
  BY DEF PermissionHad, PermissionAdded, Allocated
<1>4. TimedBut(b, {i}, {})
  BY <1>1, <1>2 DEF TimedBut
<1>5. \A t \in a.timers : t.kind = "perm" => t.slot \in Allocated(a.perms)
  BY DEF Sound, EventsHeld
<1>6. Owes(b, owed)
  BY <1>1, <1>3, <1>5 DEF Owes
<1> QED BY <1>1, <1>4, <1>6

(* A permission for ip, made or found, is timed as promised.                  *)
LEMMA UpdatePermission ==
  ASSUME PeersAssumption, NEW a, Sound(a), NEW ip \in Ip, TimedBut(a, {}, {}),
         NEW owed \in [Ip -> Nat], Owes(a, owed), NEW c, c = update_permission(a, ip, 0)
  PROVE  /\ Sound(c) /\ c.chns = a.chns /\ TimedBut(c, {}, {})
         /\ Owes(c, [owed EXCEPT ![ip] = PermissionLifetime])
<1>1. PICK b : b = allocation_get_permission(a, ip)
  OBVIOUS
<1>2. PICK i : i = PermissionOf(b, ip)
  OBVIOUS
<1>3. Sound(b) /\ PermissionHad(a, ip, i, b)
  BY <1>1, <1>2, GetPermission
<1>4. i \in Allocated(b.perms) /\ b.perms[i].addr = ip
  BY <1>3 DEF PermissionHad
<1>5. b.chns = a.chns /\ TimedBut(b, {i}, {}) /\ Owes(b, owed)
  BY <1>3, HadAsPromised
<1>6. PermissionLifetime \in 0 .. Longest
  BY DEF PeersAssumption, Longest
<1>7. PICK f : f = update_turn_permission_lifetime(b, i, PermissionLifetime)
  OBVIOUS
<1>8. Sound(f) /\ PermissionTimed(b, i, PermissionLifetime, f)
  BY <1>3, <1>4, <1>6, <1>7, TimePermission
<1>9. c = f
  <2>1. get_turn_channel(f, i, 0) = {}
    BY DEF PeersAssumption, get_turn_channel
  <2> QED BY <1>1, <1>2, <1>7, <2>1 DEF update_permission
<1>10. TimedBut(f, {}, {}) /\ Owes(f, [owed EXCEPT ![ip] = PermissionLifetime])
  BY <1>3, <1>4, <1>5, <1>6, <1>8, TimedAsPromised
<1> QED BY <1>5, <1>8, <1>9, <1>10 DEF PermissionTimed

-----------------------------------------------------------------------------
(* The states between the addresses of a request.                             *)
Grants(g, a, ips, k) == g = [n \in 0 .. k |-> IF n = 0 THEN a ELSE update_permission(g[n - 1], ips[n], 0)]

(* There are such states for every number of addresses.                       *)
LEMMA GrantsExist ==
  ASSUME NEW a, NEW ips, NEW k \in Nat
  PROVE  \E g : Grants(g, a, ips, k)
<1> DEFINE Bad == {n \in Nat : ~ \E g : Grants(g, a, ips, n)}
<1> SUFFICES ASSUME Bad # {} PROVE FALSE
  OBVIOUS
<1> DEFINE b == Min(Bad)
<1>1. b \in Bad /\ \A y \in Bad : b <= y
  BY LeastIs
<1> HIDE DEF b
<1>2. CASE b = 0
  <2> DEFINE e == [n \in 0 .. 0 |-> a]
  <2>1. Grants(e, a, ips, 0)
    BY DEF Grants
  <2> QED BY <1>1, <1>2, <2>1
<1>3. CASE b # 0
  <2>1. b - 1 \in Nat /\ b - 1 \notin Bad /\ b \in Nat
    BY <1>1, <1>3
  <2>2. PICK f : Grants(f, a, ips, b - 1)
    BY <2>1
  <2> DEFINE g == [n \in 0 .. b |-> IF n = 0 THEN a ELSE update_permission(f[n - 1], ips[n], 0)]
  <2>3. \A n \in 0 .. b - 1 : f[n] = g[n]
    BY <2>1, <2>2 DEF Grants
  <2>4. \A n \in 0 .. b : n # 0 => n - 1 \in 0 .. b - 1
    BY <2>1
  <2>5. g = [n \in 0 .. b |-> IF n = 0 THEN a ELSE update_permission(g[n - 1], ips[n], 0)]
    BY <2>3, <2>4
  <2>6. Grants(g, a, ips, b)
    BY <2>5 DEF Grants
  <2> QED BY <1>1, <2>6
<1> QED BY <1>2, <1>3

(* What is promised after the first n addresses.                              *)
OwedAfter(owed, ips, n) ==
  [x \in Ip |-> IF \E m \in 1 .. n : ips[m] = x THEN PermissionLifetime ELSE owed[x]]

(* All addresses are granted as promised.                                     *)
LEMMA GrantedIs ==
  ASSUME PeersAssumption, NEW a, Sound(a), TimedBut(a, {}, {}), NEW owed \in [Ip -> Nat], Owes(a, owed),
         NEW k \in Nat, NEW ips \in [1 .. k -> Ip], NEW b, b = Granted(a, ips)
  PROVE  Sound(b) /\ b.chns = a.chns /\ TimedBut(b, {}, {}) /\ Owes(b, OwedAfter(owed, ips, k))
<1>1. Len(ips) = k
  BY IsASeq, LenProperties
<1>2. PICK g : Grants(g, a, ips, k) /\ b = g[k]
  <2>1. \E g : Grants(g, a, ips, k)
    BY GrantsExist
  <2>2. b = (CHOOSE g : Grants(g, a, ips, k))[k]
    BY <1>1 DEF Granted, Grants
  <2> QED BY <2>1, <2>2
<1>3. g[0] = a /\ \A n \in 1 .. k : g[n] = update_permission(g[n - 1], ips[n], 0)
  BY <1>2 DEF Grants
<1> DEFINE Right(n) == /\ Sound(g[n]) /\ g[n].chns = a.chns /\ TimedBut(g[n], {}, {})
                       /\ Owes(g[n], OwedAfter(owed, ips, n))
           Bad == {n \in 0 .. k : ~Right(n)}
<1>4. Right(0)
  <2>1. OwedAfter(owed, ips, 0) = owed
    BY DEF OwedAfter
  <2> QED BY <1>3, <2>1
<1>5. ASSUME NEW n \in 1 .. k, Right(n - 1) PROVE Right(n)
  <2>1. PICK w : w = OwedAfter(owed, ips, n - 1)
    OBVIOUS
  <2>2. w \in [Ip -> Nat] /\ ips[n] \in Ip
    BY <2>1 DEF OwedAfter, PeersAssumption
  <2>3. PICK f : f = g[n - 1]
    OBVIOUS
  <2>4. Sound(f) /\ f.chns = a.chns /\ TimedBut(f, {}, {}) /\ Owes(f, w)
    BY <1>5, <2>1, <2>3
  <2>5. PICK h : h = g[n]
    OBVIOUS
  <2>6. h = update_permission(f, ips[n], 0)
    BY <1>3, <2>3, <2>5
  <2>7. Sound(h) /\ h.chns = f.chns /\ TimedBut(h, {}, {}) /\ Owes(h, [w EXCEPT ![ips[n]] = PermissionLifetime])
    BY <2>2, <2>4, <2>6, UpdatePermission
  <2>8. [w EXCEPT ![ips[n]] = PermissionLifetime] = OwedAfter(owed, ips, n)
    <3>1. \A m \in 1 .. n : m = n \/ m \in 1 .. n - 1
      OBVIOUS
    <3>2. \A m \in 1 .. n - 1 : m \in 1 .. n
      OBVIOUS
    <3>3. n \in 1 .. n
      OBVIOUS
    <3> QED BY <2>1, <3>1, <3>2, <3>3 DEF OwedAfter
  <2> QED BY <2>4, <2>5, <2>7, <2>8
<1> HIDE DEF Right
<1>6. Bad = {}
  <2> SUFFICES ASSUME Bad # {} PROVE FALSE
    OBVIOUS
  <2>1. Bad \in SUBSET Nat
    OBVIOUS
  <2>2. PICK m \in Bad : \A y \in Bad : m <= y
    <3> HIDE DEF Bad
    <3> QED BY <2>1, LeastIs
  <2>3. m # 0 /\ m \in 1 .. k
    BY <1>4, <2>2
  <2>4. m - 1 \in 0 .. k /\ m - 1 \notin Bad
    BY <2>2, <2>3
  <2>5. Right(m - 1)
    BY <2>4
  <2> QED BY <1>5, <2>2, <2>3, <2>5
<1>7. Right(k)
  BY <1>6
<1> QED BY <1>2, <1>7 DEF Right

-----------------------------------------------------------------------------
(* The map of permission i gets a pointer at port p, to channel k or to none. *)
PointerSet(P, i, p, k, Q) ==
  /\ Q \in Seq(PermEntry) /\ DOMAIN Q = DOMAIN P /\ Len(Q) = Len(P)
  /\ \A j \in DOMAIN P :
       /\ Q[j].allocated = P[j].allocated /\ Q[j].addr = P[j].addr /\ Q[j].ev = P[j].ev
       /\ \A q \in PeerPort : Q[j].chns[q] = IF j = i /\ q = p THEN k ELSE P[j].chns[q]

(* Nothing else of the table changes.                                         *)
LEMMA SetPointer ==
  ASSUME NEW P \in Seq(PermEntry), NEW i \in DOMAIN P, NEW p \in PeerPort, NEW k \in Nat
  PROVE  PointerSet(P, i, p, k, [P EXCEPT ![i].chns[p] = k])
<1>1. Len(P) \in Nat /\ DOMAIN P = 1 .. Len(P) /\ \A j \in DOMAIN P : P[j] \in PermEntry
  <2> HIDE DEF PermEntry
  <2>1. Len(P) \in Nat /\ DOMAIN P = 1 .. Len(P)
    BY LenProperties
  <2> QED BY <2>1, ElementOfSeq
<1>2. PICK r : r = P[i]
  OBVIOUS
<1>3. r \in PermEntry /\ r.chns \in [PeerPort -> Nat]
  BY <1>1, <1>2 DEF PermEntry
<1>4. PICK m : m = [r.chns EXCEPT ![p] = k]
  OBVIOUS
<1>5. m \in [PeerPort -> Nat] /\ \A q \in PeerPort : m[q] = IF q = p THEN k ELSE r.chns[q]
  BY <1>3, <1>4
<1>6. PICK n : n = [r EXCEPT !.chns = m]
  OBVIOUS
<1>7. n \in PermEntry /\ n.allocated = r.allocated /\ n.addr = r.addr /\ n.ev = r.ev /\ n.chns = m
  BY <1>3, <1>5, <1>6 DEF PermEntry
<1>8. PICK Q : Q = [P EXCEPT ![i] = n]
  OBVIOUS
<1>9. Q \in Seq(PermEntry) /\ Len(Q) = Len(P) /\ DOMAIN Q = DOMAIN P
  BY <1>1, <1>7, <1>8, ExceptSeq
<1>10. Q[i] = n /\ \A j \in DOMAIN P : j # i => Q[j] = P[j]
  BY <1>8
<1>11. Q = [P EXCEPT ![i].chns[p] = k]
  BY <1>2, <1>4, <1>6, <1>8
<1> HIDE <1>4, <1>6, <1>8
<1>12. ASSUME NEW j \in DOMAIN P
       PROVE  /\ Q[j].allocated = P[j].allocated /\ Q[j].addr = P[j].addr /\ Q[j].ev = P[j].ev
              /\ \A q \in PeerPort : Q[j].chns[q] = IF j = i /\ q = p THEN k ELSE P[j].chns[q]
  <2>1. CASE j = i
    <3>1. Q[j] = n /\ P[j] = r
      BY <1>2, <1>10, <2>1
    <3>2. \A q \in PeerPort : n.chns[q] = IF q = p THEN k ELSE r.chns[q]
      BY <1>5, <1>7
    <3>3. n.allocated = r.allocated /\ n.addr = r.addr /\ n.ev = r.ev
      BY <1>7
    <3> QED BY <2>1, <3>1, <3>2, <3>3, Zenon
  <2>2. CASE j # i
    <3>1. Q[j] = P[j]
      BY <1>10, <2>2
    <3> QED BY <2>2, <3>1, Zenon
  <2> QED BY <2>1, <2>2
<1> QED BY <1>9, <1>11, <1>12 DEF PointerSet

(* What adding a channel at place k under permission i does.                  *)
ChannelAdded(b, c, peer, i, k, f) ==
  /\ f \in Tables /\ f.timers = b.timers
  /\ k \in Nat /\ k # 0 /\ k <= Len(f.chns) /\ Len(b.chns) <= Len(f.chns) /\ k \notin Allocated(b.chns)
  /\ Allocated(f.chns) = Allocated(b.chns) \cup {k} /\ f.chns[k] = NewChannel(c, peer, i) /\ k \in DOMAIN f.chns
  /\ \A j \in DOMAIN f.chns : j # k => j \in DOMAIN b.chns /\ f.chns[j] = b.chns[j]
  /\ DOMAIN f.perms = DOMAIN b.perms /\ Len(f.perms) = Len(b.perms)
  /\ \A j \in DOMAIN b.perms :
       /\ f.perms[j].allocated = b.perms[j].allocated /\ f.perms[j].addr = b.perms[j].addr
       /\ f.perms[j].ev = b.perms[j].ev
       /\ \A p \in PeerPort : f.perms[j].chns[p] = IF j = i /\ p = peer[2] THEN k ELSE b.perms[j].chns[p]

(* It takes the first free place, and the permission points to it.            *)
LEMMA AddChannel ==
  ASSUME PeersAssumption, NEW b \in Tables, NEW c \in ChNum, NEW peer \in PeerAddr, NEW i \in DOMAIN b.perms,
         NEW k, k = FirstFree(b.chns), NEW f,
         f = [b EXCEPT !.chns = SetEntry(@, k, NewChannel(c, peer, i)), !.perms[i].chns[peer[2]] = k]
  PROVE  ChannelAdded(b, c, peer, i, k, f)
<1>1. /\ b.perms \in Seq(PermEntry) /\ b.chns \in Seq(ChnEntry) /\ b.timers \in SUBSET Events
      /\ Len(b.perms) \in Nat /\ DOMAIN b.perms = 1 .. Len(b.perms)
      /\ Len(b.chns) \in Nat /\ \A j \in DOMAIN b.perms : b.perms[j] \in PermEntry
  BY EntryTypes
<1>2. k \in 1 .. Len(b.chns) + 1 /\ k \notin Allocated(b.chns)
  BY <1>1, FirstFreeIs
<1>3. i \in Nat /\ peer[1] \in Ip /\ peer[2] \in PeerPort /\ k \in Nat /\ k # 0
  BY <1>1, <1>2 DEF PeerAddr
<1> DEFINE e == NewChannel(c, peer, i)
           D == SetEntry(b.chns, k, e)
<1>4. e \in ChnEntry /\ e.allocated
  BY <1>3 DEF NewChannel, ChnEntry, PeerAddr
<1> HIDE DEF e
<1>5. IsPut(ChnEntry, b.chns, k, e, D)
  BY <1>1, <1>2, <1>4, PutIs
<1>6. Allocated(D) = Allocated(b.chns) \cup {k}
  BY <1>1, <1>2, <1>4, PutAllocated
<1> HIDE DEF D
<1>7. PICK Q : Q = [b.perms EXCEPT ![i].chns[peer[2]] = k]
  OBVIOUS
<1>8. PointerSet(b.perms, i, peer[2], k, Q)
  BY <1>1, <1>3, <1>7, SetPointer
<1>9. f = [[b EXCEPT !.chns = D] EXCEPT !.perms = Q]
  BY <1>7 DEF D, e
<1>10. f \in Tables /\ f.perms = Q /\ f.chns = D /\ f.timers = b.timers
  BY <1>1, <1>5, <1>8, <1>9 DEF Tables, IsPut, PointerSet
<1> HIDE <1>7, <1>9
<1>11. D[k] = NewChannel(c, peer, i)
  BY <1>5 DEF IsPut, e
<1>12. /\ k <= Len(D) /\ Len(b.chns) <= Len(D) /\ k \in DOMAIN D
       /\ \A j \in DOMAIN D : j # k => j \in DOMAIN b.chns /\ D[j] = b.chns[j]
  BY <1>5 DEF IsPut
<1> QED BY <1>2, <1>3, <1>6, <1>8, <1>10, <1>11, <1>12 DEF ChannelAdded, PointerSet

(* It keeps what holds in the middle of a request, when neither the number    *)
(* nor the peer has a channel.                                                *)
LEMMA ChannelAddedSound ==
  ASSUME PeersAssumption, NEW b, Sound(b), NEW c \in ChNum, NEW peer \in PeerAddr, NEW i \in Allocated(b.perms),
         b.perms[i].addr = peer[1], b.perms[i].chns[peer[2]] = 0, allocation_get_ch_info(b, c) = {},
         NEW k, NEW f, ChannelAdded(b, c, peer, i, k, f)
  PROVE  Sound(f) /\ Allocated(f.perms) = Allocated(b.perms)
<1> DEFINE P == b.perms
           C == b.chns
           Q == f.perms
           D == f.chns
<1>1. /\ f \in Tables /\ f.timers = b.timers
      /\ k \in Nat /\ k # 0 /\ k <= Len(D) /\ Len(C) <= Len(D) /\ k \notin Allocated(C)
      /\ Allocated(D) = Allocated(C) \cup {k} /\ D[k] = NewChannel(c, peer, i) /\ k \in DOMAIN D
      /\ \A j \in DOMAIN D : j # k => j \in DOMAIN C /\ D[j] = C[j]
      /\ DOMAIN Q = DOMAIN P /\ Len(Q) = Len(P)
      /\ \A j \in DOMAIN P :
           /\ Q[j].allocated = P[j].allocated /\ Q[j].addr = P[j].addr /\ Q[j].ev = P[j].ev
           /\ \A p \in PeerPort : Q[j].chns[p] = IF j = i /\ p = peer[2] THEN k ELSE P[j].chns[p]
  BY DEF ChannelAdded
<1>2. b \in Tables /\ Within(P, C) /\ LinkedBoth(P, C) /\ OneEach(P, C) /\ EventsHeld(P, C, b.timers)
  BY DEF Sound
<1>3. /\ Len(P) \in Nat /\ Len(C) \in Nat /\ Len(D) \in Nat /\ DOMAIN P = 1 .. Len(P)
      /\ \A j \in DOMAIN P : P[j] \in PermEntry
  BY <1>1, <1>2, EntryTypes
<1>4. peer[1] \in Ip /\ peer[2] \in PeerPort
  BY DEF PeerAddr
<1>5. /\ D[k].chnum = c /\ D[k].peer = peer /\ D[k].owner = i
  BY <1>1 DEF NewChannel
<1>6. \A j \in Allocated(C) : C[j].chnum # c
  BY DEF allocation_get_ch_info
<1>7. Allocated(Q) = Allocated(P)
  BY <1>1 DEF Allocated
<1>8. \A j \in Allocated(C) : j \in Allocated(D) /\ j # k /\ D[j] = C[j]
  BY <1>1 DEF Allocated
<1>9. \A j \in Allocated(D) : j = k \/ j \in Allocated(C)
  BY <1>1
<1>10. i \in DOMAIN P /\ P[i].addr = peer[1] /\ P[i].chns[peer[2]] = 0
  BY DEF Allocated
<1>11. \A j \in Allocated(P) : j \in DOMAIN P /\ Q[j].addr = P[j].addr /\ Q[j].ev = P[j].ev
          /\ \A p \in PeerPort : Q[j].chns[p] = IF j = i /\ p = peer[2] THEN k ELSE P[j].chns[p]
  BY <1>1 DEF Allocated
<1>12. i \in Allocated(P)
  OBVIOUS
<1> HIDE DEF P, C, Q, D
<1>13. Within(Q, D)
  <2>1. \A j \in DOMAIN P, p \in PeerPort : P[j].chns[p] \in Nat
    BY <1>3 DEF PermEntry
  <2>2. ASSUME NEW j \in DOMAIN Q, NEW p \in PeerPort PROVE Q[j].chns[p] <= Len(D)
    <3>1. P[j].chns[p] <= Len(C) /\ P[j].chns[p] \in Nat
      BY <1>1, <1>2, <2>1 DEF Within
    <3> QED BY <1>1, <1>3, <3>1
  <2>3. ASSUME NEW j \in DOMAIN D PROVE D[j].owner <= Len(Q)
    BY <1>1, <1>2, <1>3, <1>5, <1>10 DEF Within
  <2> QED BY <2>2, <2>3 DEF Within
<1>14. LinkedBoth(Q, D)
  <2>1. ASSUME NEW j \in Allocated(D)
        PROVE  /\ D[j].peer \in PeerAddr /\ D[j].chnum \in ChNum
               /\ D[j].owner \in Allocated(Q) /\ Q[D[j].owner].addr = D[j].peer[1]
               /\ Q[D[j].owner].chns[D[j].peer[2]] = j
    <3>1. CASE j = k
      BY <1>4, <1>5, <1>7, <1>10, <1>11, <1>12, <3>1
    <3>2. CASE j # k
      <4>1. j \in Allocated(C) /\ D[j] = C[j]
        BY <1>8, <1>9, <3>2
      <4>2. /\ C[j].peer \in PeerAddr /\ C[j].chnum \in ChNum
            /\ C[j].owner \in Allocated(P) /\ P[C[j].owner].addr = C[j].peer[1]
            /\ P[C[j].owner].chns[C[j].peer[2]] = j
        BY <1>2, <4>1 DEF LinkedBoth
      <4>3. C[j].peer[2] \in PeerPort /\ j # 0
        BY <4>1, <4>2, <1>2, EntryTypes DEF PeerAddr, Allocated, C
      <4> QED BY <1>7, <1>10, <1>11, <4>1, <4>2, <4>3
    <3> QED BY <3>1, <3>2
  <2>2. ASSUME NEW j \in Allocated(Q), NEW p \in PeerPort, Q[j].chns[p] # 0
        PROVE  /\ Q[j].chns[p] \in Allocated(D)
               /\ D[Q[j].chns[p]].owner = j /\ D[Q[j].chns[p]].peer[2] = p
    <3>1. CASE j = i /\ p = peer[2]
      BY <1>1, <1>5, <1>7, <1>11, <3>1
    <3>2. CASE ~(j = i /\ p = peer[2])
      <4>1. j \in Allocated(P) /\ Q[j].chns[p] = P[j].chns[p]
        BY <1>7, <1>11, <3>2
      <4>2. /\ P[j].chns[p] \in Allocated(C) /\ C[P[j].chns[p]].owner = j
            /\ C[P[j].chns[p]].peer[2] = p
        BY <1>2, <2>2, <4>1 DEF LinkedBoth
      <4> QED BY <1>8, <4>1, <4>2
    <3> QED BY <3>1, <3>2
  <2> QED BY <2>1, <2>2 DEF LinkedBoth
<1>15. OneEach(Q, D)
  BY <1>2, <1>5, <1>6, <1>7, <1>8, <1>9, <1>11 DEF OneEach
<1>16. EventsHeld(Q, D, b.timers)
  BY <1>2, <1>7, <1>8, <1>11 DEF EventsHeld
<1>17. Sound(f)
  BY <1>1, <1>13, <1>14, <1>15, <1>16 DEF Sound, P, C, Q, D
<1> QED BY <1>7, <1>17 DEF P, Q

-----------------------------------------------------------------------------
(* A channel is refreshed together with its permission: both get an event, at *)
(* the time promised for the address.                                         *)
LEMMA RefreshChannel ==
  ASSUME PeersAssumption, NEW f, Sound(f), NEW k \in Allocated(f.chns), NEW i, i = f.chns[k].owner,
         TimedBut(f, {i}, {k}), NEW owed \in [Ip -> Nat], Owes(f, owed), NEW h, h = update_channel_lifetime(f, k)
  PROVE  /\ Sound(h) /\ TimedBut(h, {}, {}) /\ SameButEv(f.perms, f.chns, h.perms, h.chns)
         /\ Owes(h, [owed EXCEPT ![f.perms[i].addr] = ChannelLifetime])
<1> DEFINE new == [owed EXCEPT ![f.perms[i].addr] = ChannelLifetime]
<1>1. i \in Allocated(f.perms)
  BY DEF Sound, LinkedBoth
<1>2. ChannelLifetime \in 0 .. Longest
  BY DEF PeersAssumption, Longest
<1>3. PICK b : b = update_turn_permission_lifetime(f, i, ChannelLifetime)
  OBVIOUS
<1>4. Sound(b) /\ PermissionTimed(f, i, ChannelLifetime, b)
  BY <1>1, <1>2, <1>3, TimePermission
<1>5. TimedBut(b, {}, {k}) /\ Owes(b, new)
  BY <1>1, <1>2, <1>4, TimedAsPromised
<1> HIDE DEF new
<1>6. b.chns = f.chns /\ SameButEv(f.perms, f.chns, b.perms, b.chns)
  BY <1>4 DEF PermissionTimed
<1>7. k \in Allocated(b.chns)
  BY <1>6
<1>8. h = [b EXCEPT !.timers = EventDel(@, "chn", b.chns, {k}) \cup {Event("chn", k, ChannelLifetime)},
                    !.chns[k].ev = TRUE]
  BY <1>3 DEF update_channel_lifetime
<1>9. Sound(h) /\ ChannelTimed(b, k, ChannelLifetime, h)
  BY <1>2, <1>4, <1>7, <1>8, TimeChannel
<1>10. /\ h.perms = b.perms /\ SameButEv(b.perms, b.chns, h.perms, h.chns)
       /\ h.timers = Without(b.timers, "chn", k) \cup {Event("chn", k, ChannelLifetime)}
  BY <1>9 DEF ChannelTimed
<1> HIDE <1>8
<1>11. Allocated(h.perms) = Allocated(b.perms) /\ Allocated(h.chns) = Allocated(b.chns)
  BY <1>10, SameLinks
<1> DEFINE e == Event("chn", k, ChannelLifetime)
<1>12. e.kind = "chn" /\ e.slot = k /\ e \in h.timers
  BY <1>10 DEF Event
<1> HIDE DEF e
<1>13. /\ \A t \in b.timers : ~(t.kind = "chn" /\ t.slot = k) => t \in h.timers
       /\ \A t \in h.timers : t.kind = "perm" => t \in b.timers
  BY <1>10, <1>12 DEF Without, e
<1>14. TimedBut(h, {}, {})
  BY <1>5, <1>11, <1>12, <1>13 DEF TimedBut
<1>15. Owes(h, new)
  BY <1>5, <1>10, <1>13 DEF Owes
<1>16. SameButEv(f.perms, f.chns, h.perms, h.chns)
  BY <1>6, <1>10 DEF SameButEv
<1> QED BY <1>9, <1>14, <1>15, <1>16 DEF new

(* The number of a channel that is refreshed is bound to its peer, the others *)
(* stay bound.                                                                *)
LEMMA RefreshedBound ==
  ASSUME PeersAssumption, NEW f, Sound(f), NEW k \in Allocated(f.chns), NEW b, DOMAIN b = ChNum,
         \A j \in Allocated(f.chns) : j # k => b[f.chns[j].chnum] = f.chns[j].peer,
         NEW h, SameButEv(f.perms, f.chns, h.perms, h.chns)
  PROVE  BoundTo(h.chns, [b EXCEPT ![f.chns[k].chnum] = f.chns[k].peer])
<1>1. Allocated(h.chns) = Allocated(f.chns)
  BY SameLinks
<1>2. \A j \in Allocated(f.chns) : /\ h.chns[j].chnum = f.chns[j].chnum /\ h.chns[j].peer = f.chns[j].peer
                                 /\ f.chns[j].chnum \in ChNum
  BY DEF SameButEv, Allocated, Sound, LinkedBoth
<1>3. \A j \in Allocated(f.chns) : j # k => f.chns[j].chnum # f.chns[k].chnum
  BY DEF Sound, OneEach
<1> QED BY <1>1, <1>2, <1>3 DEF BoundTo

(* What holds between two steps, but for what was last relayed.               *)
Kept(a, owed, b) ==
  /\ Sound(a) /\ TimedBut(a, {}, {}) /\ owed \in [Ip -> Nat] /\ DOMAIN b = ChNum
  /\ Owes(a, owed) /\ BoundTo(a.chns, b)

(* The inductive invariant.                                                   *)
PeersInv == is_valid \in BOOLEAN /\ Kept(al, owedPerm, bound) /\ RelayedAsGranted

(* A ChannelBind for a number that has the channel of the peer refreshes it.  *)
LEMMA BindKnown ==
  ASSUME PeersAssumption, NEW a, NEW owed, NEW b, Kept(a, owed, b), NEW c, NEW k \in allocation_get_ch_info(a, c),
         NEW peer, a.chns[k].peer = peer, NEW h, h = update_channel_lifetime(a, k)
  PROVE  Kept(h, [owed EXCEPT ![peer[1]] = ChannelLifetime], [b EXCEPT ![c] = peer])
<1>1. /\ Sound(a) /\ TimedBut(a, {}, {}) /\ owed \in [Ip -> Nat] /\ DOMAIN b = ChNum
      /\ Owes(a, owed) /\ BoundTo(a.chns, b)
  BY DEF Kept
<1>2. k \in Allocated(a.chns) /\ a.chns[k].chnum = c
  BY DEF allocation_get_ch_info
<1>3. PICK i : i = a.chns[k].owner
  OBVIOUS
<1>4. a.perms[i].addr = peer[1]
  BY <1>1, <1>2, <1>3 DEF Sound, LinkedBoth
<1>5. TimedBut(a, {i}, {k})
  BY <1>1 DEF TimedBut
<1>6. /\ Sound(h) /\ TimedBut(h, {}, {}) /\ SameButEv(a.perms, a.chns, h.perms, h.chns)
      /\ Owes(h, [owed EXCEPT ![peer[1]] = ChannelLifetime])
  BY <1>1, <1>2, <1>3, <1>4, <1>5, RefreshChannel
<1>7. BoundTo(h.chns, [b EXCEPT ![c] = peer])
  <2>1. \A j \in Allocated(a.chns) : j # k => b[a.chns[j].chnum] = a.chns[j].peer
    BY <1>1 DEF BoundTo
  <2> QED BY <1>1, <1>2, <1>6, <2>1, RefreshedBound
<1>8. [owed EXCEPT ![peer[1]] = ChannelLifetime] \in [Ip -> Nat] /\ DOMAIN [b EXCEPT ![c] = peer] = ChNum
  BY <1>1 DEF PeersAssumption
<1> QED BY <1>6, <1>7, <1>8 DEF Kept

(* A permission that was asked for has no channel at a port when the peer has *)
(* none.                                                                      *)
LEMMA NoChannelYet ==
  ASSUME NEW a, Sound(a), NEW peer \in PeerAddr, allocation_get_ch_info_by_peer_addr(a, peer) = {},
         NEW i, NEW b, PermissionHad(a, peer[1], i, b)
  PROVE  b.perms[i].chns[peer[2]] = 0
<1>1. peer[2] \in PeerPort
  BY DEF PeerAddr
<1>2. CASE PermissionAdded(a, peer[1], i, b)
  BY <1>1, <1>2 DEF PermissionAdded
<1>3. CASE b = a
  <2>1. i \in get_from_turn_permission_hashtable(a, peer[1]) /\ i \in Allocated(a.perms)
    BY <1>3 DEF PermissionHad, get_from_turn_permission_hashtable
  <2>2. get_turn_channel(a, i, peer[2]) = {}
    BY <2>1 DEF allocation_get_ch_info_by_peer_addr
  <2>3. a.perms[i].chns[peer[2]] = 0 \/ a.chns[a.perms[i].chns[peer[2]]].chnum \notin ChNum
    BY <1>1, <2>2 DEF get_turn_channel
  <2>4. a.perms[i].chns[peer[2]] # 0 => a.chns[a.perms[i].chns[peer[2]]].chnum \in ChNum
    BY <1>1, <2>1 DEF Sound, LinkedBoth
  <2> QED BY <1>3, <2>3, <2>4
<1> QED BY <1>2, <1>3 DEF PermissionHad

(* A ChannelBind of a number and a peer without a channel makes one.          *)
LEMMA BindNew ==
  ASSUME PeersAssumption, NEW a, NEW owed, NEW bd, Kept(a, owed, bd), NEW c \in ChNum, NEW peer \in PeerAddr,
         allocation_get_ch_info(a, c) = {}, allocation_get_ch_info_by_peer_addr(a, peer) = {},
         NEW h, h = update_channel_lifetime(allocation_get_new_ch_info(a, c, peer), FirstFree(a.chns))
  PROVE  Kept(h, [owed EXCEPT ![peer[1]] = ChannelLifetime], [bd EXCEPT ![c] = peer])
<1>1. /\ Sound(a) /\ TimedBut(a, {}, {}) /\ owed \in [Ip -> Nat] /\ DOMAIN bd = ChNum
      /\ Owes(a, owed) /\ BoundTo(a.chns, bd)
  BY DEF Kept
<1>2. peer[1] \in Ip /\ peer[2] \in PeerPort
  BY DEF PeerAddr
<1>3. PICK b : b = allocation_get_permission(a, peer[1])
  OBVIOUS
<1>4. PICK i : i = PermissionOf(b, peer[1])
  OBVIOUS
<1>5. Sound(b) /\ PermissionHad(a, peer[1], i, b)
  BY <1>1, <1>2, <1>3, <1>4, GetPermission
<1>6. b.chns = a.chns /\ b.timers = a.timers /\ TimedBut(b, {i}, {}) /\ Owes(b, owed)
  BY <1>1, <1>2, <1>5, HadAsPromised
<1>7. PICK k : k = FirstFree(b.chns)
  OBVIOUS
<1>8. PICK f : f = [b EXCEPT !.chns = SetEntry(@, k, NewChannel(c, peer, i)), !.perms[i].chns[peer[2]] = k]
  OBVIOUS
<1>9. h = update_channel_lifetime(f, k)
  BY <1>3, <1>4, <1>6, <1>7, <1>8 DEF allocation_get_new_ch_info
<1>10. i \in Allocated(b.perms) /\ b.perms[i].addr = peer[1] /\ i \in DOMAIN b.perms
  BY <1>5 DEF PermissionHad, Allocated
<1>11. ChannelAdded(b, c, peer, i, k, f)
  <2>1. b \in Tables
    BY <1>5 DEF Sound
  <2> QED BY <1>7, <1>8, <1>10, <2>1, AddChannel
<1> HIDE <1>8
<1>12. b.perms[i].chns[peer[2]] = 0
  BY <1>1, <1>5, NoChannelYet
<1>13. allocation_get_ch_info(b, c) = {}
  BY <1>6 DEF allocation_get_ch_info
<1>14. Sound(f) /\ Allocated(f.perms) = Allocated(b.perms)
  BY <1>5, <1>10, <1>11, <1>12, <1>13, ChannelAddedSound
<1>15. /\ f.timers = b.timers /\ k \in Allocated(f.chns) /\ Allocated(f.chns) = Allocated(b.chns) \cup {k}
       /\ \A j \in Allocated(b.perms) : f.perms[j].addr = b.perms[j].addr
  BY <1>11 DEF ChannelAdded, Allocated
<1>16. f.chns[k].chnum = c /\ f.chns[k].peer = peer /\ f.chns[k].owner = i
  BY <1>11 DEF ChannelAdded, NewChannel
<1>17. \A j \in Allocated(b.chns) : f.chns[j] = b.chns[j]
  BY <1>11 DEF ChannelAdded, Allocated
<1>18. TimedBut(f, {i}, {k})
  BY <1>6, <1>14, <1>15 DEF TimedBut
<1>19. Owes(f, owed)
  <2>1. \A t \in b.timers : t.kind = "perm" => t.slot \in Allocated(b.perms)
    BY <1>5 DEF Sound, EventsHeld
  <2> QED BY <1>6, <1>14, <1>15, <2>1 DEF Owes
<1>20. f.perms[i].addr = peer[1]
  BY <1>10, <1>15
<1>21. /\ Sound(h) /\ TimedBut(h, {}, {}) /\ SameButEv(f.perms, f.chns, h.perms, h.chns)
       /\ Owes(h, [owed EXCEPT ![peer[1]] = ChannelLifetime])
  <2>1. Sound(f) /\ k \in Allocated(f.chns) /\ i = f.chns[k].owner /\ owed \in [Ip -> Nat]
    BY <1>1, <1>14, <1>15, <1>16
  <2>2. /\ Sound(h) /\ TimedBut(h, {}, {}) /\ SameButEv(f.perms, f.chns, h.perms, h.chns)
        /\ Owes(h, [owed EXCEPT ![f.perms[i].addr] = ChannelLifetime])
    BY <1>9, <1>18, <1>19, <2>1, RefreshChannel
  <2> QED BY <1>20, <2>2
<1>22. BoundTo(h.chns, [bd EXCEPT ![c] = peer])
  <2>1. \A j \in Allocated(f.chns) : j # k => bd[f.chns[j].chnum] = f.chns[j].peer
    BY <1>1, <1>6, <1>15, <1>17 DEF BoundTo
  <2> QED BY <1>1, <1>14, <1>15, <1>16, <1>21, <2>1, RefreshedBound
<1>23. [owed EXCEPT ![peer[1]] = ChannelLifetime] \in [Ip -> Nat] /\ DOMAIN [bd EXCEPT ![c] = peer] = ChNum
  BY <1>1 DEF PeersAssumption
<1> QED BY <1>21, <1>22, <1>23 DEF Kept

-----------------------------------------------------------------------------
(* What ch_info_clean does to the channels ks.                                *)
ChannelsCleaned(a, ks, b) ==
  /\ b \in Tables /\ b.perms = a.perms /\ DOMAIN b.chns = DOMAIN a.chns /\ Len(b.chns) = Len(a.chns)
  /\ \A k \in DOMAIN a.chns : b.chns[k] = IF k \in ks THEN NoChannel ELSE a.chns[k]
  /\ b.timers = {t \in a.timers : ~(t.kind = "chn" /\ t.slot \in ks)}

(* It frees them and stops their events.                                      *)
LEMMA CleanChannels ==
  ASSUME NEW a \in Tables, \A t \in a.timers : t.kind = "chn" => a.chns[t.slot].ev, NEW ks,
         NEW b, b = ch_info_clean(a, ks)
  PROVE  ChannelsCleaned(a, ks, b)
<1> DEFINE D == [k \in DOMAIN a.chns |-> IF k \in ks THEN NoChannel ELSE a.chns[k]]
           T == {t \in a.timers : ~(t.kind = "chn" /\ t.slot \in ks)}
<1>1. /\ a.perms \in Seq(PermEntry) /\ a.timers \in SUBSET Events /\ Len(a.chns) \in Nat
      /\ DOMAIN a.chns = 1 .. Len(a.chns) /\ \A k \in DOMAIN a.chns : a.chns[k] \in ChnEntry
  BY EntryTypes
<1>2. NoChannel \in ChnEntry
  BY DEF NoChannel, ChnEntry
<1>3. D \in [1 .. Len(a.chns) -> ChnEntry]
  <2> HIDE DEF ChnEntry, NoChannel
  <2> QED BY <1>1, <1>2
<1>4. D \in Seq(ChnEntry) /\ Len(D) = Len(a.chns) /\ DOMAIN D = DOMAIN a.chns
  <2>1. PICK q : q = D
    OBVIOUS
  <2>2. q \in [1 .. Len(a.chns) -> ChnEntry]
    BY <1>3, <2>1
  <2>3. q \in Seq(ChnEntry) /\ DOMAIN q = 1 .. Len(a.chns)
    BY <1>1, <2>2, IsASeq
  <2>4. Len(q) = Len(a.chns)
    BY <1>1, <2>3, LenProperties
  <2> QED BY <1>1, <2>1, <2>3, <2>4
<1>5. \A k \in DOMAIN a.chns : D[k] = IF k \in ks THEN NoChannel ELSE a.chns[k]
  OBVIOUS
<1>6. T = EventDel(a.timers, "chn", a.chns, ks)
  BY DEF EventDel
<1>7. b = [[a EXCEPT !.timers = T] EXCEPT !.chns = D]
  BY <1>6 DEF ch_info_clean
<1>8. T \in SUBSET Events
  BY <1>1
<1> HIDE DEF D, T
<1>9. b \in Tables /\ b.perms = a.perms /\ b.chns = D /\ b.timers = T
  BY <1>1, <1>4, <1>7, <1>8 DEF Tables
<1>10. b.timers = {t \in a.timers : ~(t.kind = "chn" /\ t.slot \in ks)}
  BY <1>9 DEF T
<1> QED BY <1>4, <1>5, <1>9, <1>10 DEF ChannelsCleaned

(* Permissions is and channels ks are freed, no pointer to them is left and   *)
(* their events are stopped.                                                  *)
Freed(a, is, ks, b) ==
  /\ b \in Tables /\ DOMAIN b.chns = DOMAIN a.chns /\ Len(b.chns) = Len(a.chns)
  /\ DOMAIN b.perms = DOMAIN a.perms /\ Len(b.perms) = Len(a.perms)
  /\ \A k \in DOMAIN a.chns : b.chns[k] = IF k \in ks THEN NoChannel ELSE a.chns[k]
  /\ \A i \in DOMAIN a.perms, p \in PeerPort : b.perms[i].chns[p] \in {0, a.perms[i].chns[p]}
  /\ \A i \in is \cap DOMAIN a.perms : b.perms[i] = NoPermission
  /\ \A i \in DOMAIN a.perms \ is : /\ b.perms[i].allocated = a.perms[i].allocated
                                   /\ b.perms[i].addr = a.perms[i].addr /\ b.perms[i].ev = a.perms[i].ev
  /\ \A i \in Allocated(a.perms) \ is, p \in PeerPort :
       b.perms[i].chns[p] = IF a.perms[i].chns[p] \in ks THEN 0 ELSE a.perms[i].chns[p]
  /\ b.timers = {t \in a.timers : ~(t.kind = "perm" /\ t.slot \in is) /\ ~(t.kind = "chn" /\ t.slot \in ks)}

(* What is left stays linked and timed when the channels of the permissions   *)
(* are freed with them.                                                       *)
LEMMA FreedSound ==
  ASSUME PeersAssumption, NEW a, Sound(a), NEW is, NEW ks, NEW b, Freed(a, is, ks, b), TimedBut(a, is, ks),
         \A k \in Allocated(a.chns) : a.chns[k].owner \in is => k \in ks
  PROVE  /\ Sound(b) /\ TimedBut(b, {}, {})
         /\ Allocated(b.perms) = Allocated(a.perms) \ is /\ Allocated(b.chns) = Allocated(a.chns) \ ks
<1> DEFINE P == a.perms
           C == a.chns
           Q == b.perms
           D == b.chns
<1>1. /\ b \in Tables /\ DOMAIN D = DOMAIN C /\ Len(D) = Len(C) /\ DOMAIN Q = DOMAIN P /\ Len(Q) = Len(P)
      /\ \A k \in DOMAIN C : D[k] = IF k \in ks THEN NoChannel ELSE C[k]
      /\ \A i \in DOMAIN P, p \in PeerPort : Q[i].chns[p] \in {0, P[i].chns[p]}
      /\ \A i \in is \cap DOMAIN P : Q[i] = NoPermission
      /\ \A i \in DOMAIN P \ is : Q[i].allocated = P[i].allocated /\ Q[i].addr = P[i].addr /\ Q[i].ev = P[i].ev
      /\ \A i \in Allocated(P) \ is, p \in PeerPort :
           Q[i].chns[p] = IF P[i].chns[p] \in ks THEN 0 ELSE P[i].chns[p]
      /\ b.timers = {t \in a.timers : ~(t.kind = "perm" /\ t.slot \in is) /\ ~(t.kind = "chn" /\ t.slot \in ks)}
  BY DEF Freed
<1>2. a \in Tables /\ Within(P, C) /\ LinkedBoth(P, C) /\ OneEach(P, C) /\ EventsHeld(P, C, a.timers)
  BY DEF Sound
<1>3. Len(P) \in Nat /\ Len(C) \in Nat
  BY <1>2, EntryTypes
<1>4. \A k \in Allocated(C) : C[k].owner \in is => k \in ks
  OBVIOUS
<1> HIDE DEF P, C, Q, D
<1>5. Allocated(Q) = Allocated(P) \ is
  <2>1. ~NoPermission.allocated
    BY DEF NoPermission
  <2> QED BY <1>1, <2>1 DEF Allocated
<1>6. Allocated(D) = Allocated(C) \ ks
  <2>1. ~NoChannel.allocated
    BY DEF NoChannel
  <2> QED BY <1>1, <2>1 DEF Allocated
<1>7. \A i \in Allocated(Q) : i \in Allocated(P) /\ i \notin is /\ Q[i].addr = P[i].addr /\ Q[i].ev = P[i].ev
  BY <1>1, <1>5 DEF Allocated
<1>8. \A k \in Allocated(D) : k \in Allocated(C) /\ k \notin ks /\ D[k] = C[k]
  BY <1>1, <1>6 DEF Allocated
<1>9. Within(Q, D)
  <2>1. \A k \in DOMAIN D : D[k].owner <= Len(Q)
    <3>1. NoChannel.owner = 0
      BY DEF NoChannel
    <3> QED BY <1>1, <1>2, <1>3, <3>1 DEF Within
  <2>2. \A i \in DOMAIN Q, p \in PeerPort : Q[i].chns[p] <= Len(D)
    BY <1>1, <1>2, <1>3 DEF Within
  <2> QED BY <2>1, <2>2 DEF Within
<1>10. LinkedBoth(Q, D)
  <2>1. ASSUME NEW k \in Allocated(D)
        PROVE  /\ D[k].peer \in PeerAddr /\ D[k].chnum \in ChNum
               /\ D[k].owner \in Allocated(Q) /\ Q[D[k].owner].addr = D[k].peer[1]
               /\ Q[D[k].owner].chns[D[k].peer[2]] = k
    <3>1. k \in Allocated(C) /\ k \notin ks /\ D[k] = C[k] /\ C[k].owner \notin is
      BY <1>4, <1>8
    <3>2. /\ C[k].peer \in PeerAddr /\ C[k].chnum \in ChNum
          /\ C[k].owner \in Allocated(P) /\ P[C[k].owner].addr = C[k].peer[1]
          /\ P[C[k].owner].chns[C[k].peer[2]] = k
      BY <1>2, <3>1 DEF LinkedBoth
    <3>3. C[k].owner \in Allocated(Q)
      BY <1>5, <3>1, <3>2
    <3>4. C[k].peer[2] \in PeerPort
      BY <3>2 DEF PeerAddr
    <3>5. Q[C[k].owner].chns[C[k].peer[2]] = k
      BY <1>1, <3>1, <3>2, <3>4
    <3> QED BY <1>7, <3>1, <3>2, <3>3, <3>5
  <2>2. ASSUME NEW i \in Allocated(Q), NEW p \in PeerPort, Q[i].chns[p] # 0
        PROVE  /\ Q[i].chns[p] \in Allocated(D)
               /\ D[Q[i].chns[p]].owner = i /\ D[Q[i].chns[p]].peer[2] = p
    <3>1. i \in Allocated(P) /\ i \notin is
      BY <1>7
    <3>2. Q[i].chns[p] = P[i].chns[p] /\ P[i].chns[p] \notin ks
      BY <1>1, <2>2, <3>1
    <3>3. P[i].chns[p] \in Allocated(C) /\ C[P[i].chns[p]].owner = i /\ C[P[i].chns[p]].peer[2] = p
      BY <1>2, <2>2, <3>1, <3>2 DEF LinkedBoth
    <3>4. P[i].chns[p] \in Allocated(D)
      BY <1>6, <3>2, <3>3
    <3> QED BY <1>8, <3>2, <3>3, <3>4
  <2> QED BY <2>1, <2>2 DEF LinkedBoth
<1>11. OneEach(Q, D)
  BY <1>2, <1>7, <1>8 DEF OneEach
<1>12. EventsHeld(Q, D, b.timers)
  <2>1. \A t \in b.timers : t \in a.timers /\ (t.kind = "perm" => t.slot \notin is) /\ (t.kind = "chn" => t.slot \notin ks)
    BY <1>1
  <2>2. \A i \in Allocated(P) \ is : i \in Allocated(Q) /\ Q[i].ev = P[i].ev
    BY <1>5, <1>7
  <2>3. \A k \in Allocated(C) \ ks : k \in Allocated(D) /\ D[k] = C[k]
    BY <1>6, <1>8
  <2>4. \A t \in b.timers : /\ t.kind = "perm" => t.slot \in Allocated(Q) /\ Q[t.slot].ev
                            /\ t.kind = "chn" => t.slot \in Allocated(D) /\ D[t.slot].ev
    BY <1>2, <2>1, <2>2, <2>3 DEF EventsHeld
  <2>5. \A t, u \in b.timers : t.kind = u.kind /\ t.slot = u.slot => t = u
    BY <1>2, <2>1 DEF EventsHeld
  <2> QED BY <2>4, <2>5 DEF EventsHeld
<1>13. TimedBut(b, {}, {})
  <2>1. \A i \in Allocated(Q) : \E t \in b.timers : t.kind = "perm" /\ t.slot = i
    BY <1>1, <1>5 DEF TimedBut, P
  <2>2. \A k \in Allocated(D) : \E t \in b.timers : t.kind = "chn" /\ t.slot = k
    BY <1>1, <1>6 DEF TimedBut, C
  <2> QED BY <2>1, <2>2 DEF TimedBut, Q, D
<1> QED BY <1>1, <1>5, <1>6, <1>9, <1>10, <1>11, <1>12, <1>13 DEF Sound, P, Q, C, D

(* A channel is deleted: the permission loses its pointer.                    *)
LEMMA DeleteChannel ==
  ASSUME PeersAssumption, NEW a, Sound(a), NEW k \in Allocated(a.chns), NEW b, b = turn_channel_delete(a, k)
  PROVE  Freed(a, {}, {k}, b)
<1>1. a \in Tables /\ LinkedBoth(a.perms, a.chns) /\ EventsHeld(a.perms, a.chns, a.timers)
  BY DEF Sound
<1>2. /\ a.perms \in Seq(PermEntry) /\ a.chns \in Seq(ChnEntry) /\ a.timers \in SUBSET Events
      /\ DOMAIN a.perms = 1 .. Len(a.perms) /\ \A j \in DOMAIN a.perms : a.perms[j] \in PermEntry
  BY <1>1, EntryTypes
<1>3. PICK i : i = a.chns[k].owner
  OBVIOUS
<1>4. PICK p : p = a.chns[k].peer[2]
  OBVIOUS
<1>5. i \in Allocated(a.perms) /\ p \in PeerPort /\ a.perms[i].chns[p] = k
  BY <1>1, <1>3, <1>4 DEF LinkedBoth, PeerAddr
<1>6. i \in DOMAIN a.perms /\ i # 0
  BY <1>2, <1>5 DEF Allocated
<1>7. PICK Q : Q = [a.perms EXCEPT ![i].chns[p] = 0]
  OBVIOUS
<1>8. PointerSet(a.perms, i, p, 0, Q)
  BY <1>2, <1>5, <1>6, <1>7, SetPointer
<1>9. PICK c : c = [a EXCEPT !.perms = Q]
  OBVIOUS
<1>10. b = ch_info_clean(c, {k})
  BY <1>3, <1>4, <1>5, <1>6, <1>7, <1>9 DEF turn_channel_delete
<1>11. c \in Tables /\ c.perms = Q /\ c.chns = a.chns /\ c.timers = a.timers
  BY <1>1, <1>2, <1>8, <1>9 DEF Tables, PointerSet
<1> HIDE <1>7, <1>9
<1>12. ChannelsCleaned(c, {k}, b)
  <2>1. \A t \in c.timers : t.kind = "chn" => c.chns[t.slot].ev
    BY <1>1, <1>11 DEF EventsHeld
  <2> QED BY <1>10, <1>11, <2>1, CleanChannels
<1>13. /\ b \in Tables /\ b.perms = Q /\ DOMAIN b.chns = DOMAIN a.chns /\ Len(b.chns) = Len(a.chns)
       /\ \A j \in DOMAIN a.chns : b.chns[j] = IF j \in {k} THEN NoChannel ELSE a.chns[j]
       /\ b.timers = {t \in a.timers : ~(t.kind = "chn" /\ t.slot \in {k})}
  BY <1>11, <1>12 DEF ChannelsCleaned
<1>14. \A j \in DOMAIN a.perms :
         /\ Q[j].allocated = a.perms[j].allocated /\ Q[j].addr = a.perms[j].addr /\ Q[j].ev = a.perms[j].ev
         /\ \A q \in PeerPort : Q[j].chns[q] = IF j = i /\ q = p THEN 0 ELSE a.perms[j].chns[q]
  BY <1>8 DEF PointerSet
<1>15. ASSUME NEW j \in Allocated(a.perms), NEW q \in PeerPort
       PROVE  Q[j].chns[q] = IF a.perms[j].chns[q] \in {k} THEN 0 ELSE a.perms[j].chns[q]
  <2>1. a.perms[j].chns[q] = k => j = i /\ q = p
    <3>1. k # 0
      BY <1>1, EntryTypes DEF Allocated
    <3> QED BY <1>1, <1>3, <1>4, <3>1 DEF LinkedBoth
  <2>2. j \in DOMAIN a.perms
    BY DEF Allocated
  <2> QED BY <1>5, <1>14, <2>1, <2>2
<1>16. \A j \in DOMAIN a.perms, q \in PeerPort : Q[j].chns[q] \in {0, a.perms[j].chns[q]}
  BY <1>14
<1>17. b.timers = {t \in a.timers : ~(t.kind = "perm" /\ t.slot \in {}) /\ ~(t.kind = "chn" /\ t.slot \in {k})}
  BY <1>13
<1>18. DOMAIN Q = DOMAIN a.perms /\ Len(Q) = Len(a.perms)
  BY <1>8 DEF PointerSet
<1> QED BY <1>13, <1>14, <1>15, <1>16, <1>17, <1>18 DEF Freed

(* The channels that permissions point to.                                    *)
Under(P, is) == (UNION {{P[i].chns[p] : p \in PeerPort} : i \in is}) \ {0}

(* Permissions are cleaned with the channels under them, which are all of     *)
(* theirs.                                                                    *)
LEMMA CleanPermissions ==
  ASSUME PeersAssumption, NEW a, Sound(a), NEW is \in SUBSET Allocated(a.perms),
         NEW b, b = turn_permission_clean(a, is)
  PROVE  /\ Freed(a, is, Under(a.perms, is), b)
         /\ \A k \in Allocated(a.chns) : a.chns[k].owner \in is => k \in Under(a.perms, is)
<1>1. a \in Tables /\ LinkedBoth(a.perms, a.chns) /\ EventsHeld(a.perms, a.chns, a.timers)
  BY DEF Sound
<1>2. /\ a.perms \in Seq(PermEntry) /\ a.chns \in Seq(ChnEntry) /\ a.timers \in SUBSET Events
      /\ Len(a.perms) \in Nat /\ DOMAIN a.perms = 1 .. Len(a.perms)
      /\ Len(a.chns) \in Nat /\ DOMAIN a.chns = 1 .. Len(a.chns)
      /\ \A j \in DOMAIN a.perms : a.perms[j] \in PermEntry
  BY <1>1, EntryTypes
<1>3. PICK ks : ks = Under(a.perms, is)
  OBVIOUS
<1>4. \A x : x \in ks <=> x # 0 /\ \E i \in is, p \in PeerPort : x = a.perms[i].chns[p]
  BY <1>3 DEF Under
<1>5. \A k \in Allocated(a.chns) : a.chns[k].owner \in is => k \in ks
  <2>1. \A k \in Allocated(a.chns) : k # 0
    BY <1>2 DEF Allocated
  <2>2. \A k \in Allocated(a.chns) : /\ a.chns[k].peer[2] \in PeerPort
                                   /\ k = a.perms[a.chns[k].owner].chns[a.chns[k].peer[2]]
    BY <1>1 DEF LinkedBoth, PeerAddr
  <2> QED BY <1>4, <2>1, <2>2
<1>6. ASSUME NEW j \in Allocated(a.perms), j \notin is, NEW q \in PeerPort PROVE a.perms[j].chns[q] \notin ks
  <2> SUFFICES ASSUME a.perms[j].chns[q] \in ks PROVE FALSE
    OBVIOUS
  <2>1. PICK i \in is, p \in PeerPort : a.perms[j].chns[q] = a.perms[i].chns[p] /\ a.perms[j].chns[q] # 0
    BY <1>4
  <2>2. a.chns[a.perms[j].chns[q]].owner = j /\ a.chns[a.perms[i].chns[p]].owner = i
    BY <1>1, <2>1 DEF LinkedBoth
  <2> QED BY <1>6, <2>1, <2>2
<1>7. PICK c : c = ch_info_clean(a, ks)
  OBVIOUS
<1>8. ChannelsCleaned(a, ks, c)
  <2>1. \A t \in a.timers : t.kind = "chn" => a.chns[t.slot].ev
    BY <1>1 DEF EventsHeld
  <2> QED BY <1>1, <1>7, <2>1, CleanChannels
<1>9. /\ c \in Tables /\ c.perms = a.perms /\ DOMAIN c.chns = DOMAIN a.chns /\ Len(c.chns) = Len(a.chns)
      /\ \A k \in DOMAIN a.chns : c.chns[k] = IF k \in ks THEN NoChannel ELSE a.chns[k]
      /\ c.timers = {t \in a.timers : ~(t.kind = "chn" /\ t.slot \in ks)}
  BY <1>8 DEF ChannelsCleaned
<1> DEFINE Q == [i \in DOMAIN a.perms |-> IF i \in is THEN NoPermission ELSE a.perms[i]]
           T == {t \in c.timers : ~(t.kind = "perm" /\ t.slot \in is)}
<1>10. T = EventDel(c.timers, "perm", c.perms, is)
  BY <1>1, <1>9 DEF EventDel, EventsHeld
<1>11. b = [[c EXCEPT !.timers = T] EXCEPT !.perms = Q]
  <2>1. is \cap Allocated(a.perms) = is
    OBVIOUS
  <2>2. b = [c EXCEPT !.timers = EventDel(@, "perm", c.perms, is),
                      !.perms = [i \in DOMAIN @ |-> IF i \in is THEN NoPermission ELSE @[i]]]
    BY <1>3, <1>7, <2>1 DEF turn_permission_clean, Under
  <2>3. b = [c EXCEPT !.timers = T, !.perms = Q]
    BY <1>9, <1>10, <2>2
  <2> HIDE DEF T, Q
  <2> QED BY <2>3
<1>12. NoPermission \in PermEntry /\ NoPermission.chns = [p \in PeerPort |-> 0]
  BY DEF NoPermission, PermEntry
<1>13. Q \in [1 .. Len(a.perms) -> PermEntry]
  <2> HIDE DEF PermEntry, NoPermission
  <2> QED BY <1>2, <1>12
<1>14. Q \in Seq(PermEntry) /\ Len(Q) = Len(a.perms) /\ DOMAIN Q = DOMAIN a.perms
  <2>1. PICK q : q = Q
    OBVIOUS
  <2>2. q \in [1 .. Len(a.perms) -> PermEntry]
    BY <1>13, <2>1
  <2>3. q \in Seq(PermEntry) /\ DOMAIN q = 1 .. Len(a.perms)
    BY <1>2, <2>2, IsASeq
  <2>4. Len(q) = Len(a.perms)
    BY <1>2, <2>3, LenProperties
  <2> QED BY <1>2, <2>1, <2>3, <2>4
<1>15. \A i \in DOMAIN a.perms : Q[i] = IF i \in is THEN NoPermission ELSE a.perms[i]
  OBVIOUS
<1>16. T \in SUBSET Events
  BY <1>2, <1>9
<1>17. T = {t \in a.timers : ~(t.kind = "perm" /\ t.slot \in is) /\ ~(t.kind = "chn" /\ t.slot \in ks)}
  BY <1>9
<1> HIDE DEF Q, T
<1>18. b \in Tables /\ b.perms = Q /\ b.chns = c.chns /\ b.timers = T
  <2>1. c.chns \in Seq(ChnEntry)
    BY <1>9, EntryTypes
  <2> QED BY <1>9, <1>11, <1>14, <1>16, <2>1 DEF Tables
<1> HIDE <1>11
<1>19. \A i \in DOMAIN a.perms, p \in PeerPort : Q[i].chns[p] \in {0, a.perms[i].chns[p]}
  BY <1>12, <1>15
<1>20. \A i \in Allocated(a.perms) \ is, p \in PeerPort :
         Q[i].chns[p] = IF a.perms[i].chns[p] \in ks THEN 0 ELSE a.perms[i].chns[p]
  BY <1>6, <1>15 DEF Allocated
<1>21. \A i \in DOMAIN a.perms : (i \in is => Q[i] = NoPermission) /\ (i \notin is => Q[i] = a.perms[i])
  BY <1>15
<1>22. Freed(a, is, ks, b)
  BY <1>9, <1>14, <1>17, <1>18, <1>19, <1>20, <1>21 DEF Freed
<1> QED BY <1>3, <1>5, <1>22

(* An event that fires is no longer pending, and its entry has none.          *)
LEMMA EventFired ==
  ASSUME NEW a, Sound(a), TimedBut(a, {}, {}), NEW owed, Owes(a, owed), NEW t \in a.timers,
         NEW b, b = [a EXCEPT !.timers = @ \ {t}]
  PROVE  /\ Sound(b) /\ b.perms = a.perms /\ b.chns = a.chns /\ Owes(b, owed)
         /\ t.kind = "perm" => TimedBut(b, {t.slot}, {})
         /\ t.kind = "chn" => TimedBut(b, {}, {t.slot})
<1>1. PICK T : T = a.timers \ {t}
  OBVIOUS
<1>2. /\ a \in Tables /\ Within(a.perms, a.chns) /\ LinkedBoth(a.perms, a.chns) /\ OneEach(a.perms, a.chns)
      /\ EventsHeld(a.perms, a.chns, a.timers)
  BY DEF Sound
<1>3. b \in Tables /\ b.perms = a.perms /\ b.chns = a.chns /\ b.timers = T
  BY <1>1, <1>2 DEF Tables
<1>4. \A u \in T : u \in a.timers
  BY <1>1
<1>5. EventsHeld(b.perms, b.chns, T)
  BY <1>2, <1>3, <1>4 DEF EventsHeld
<1>6. Sound(b)
  BY <1>2, <1>3, <1>5 DEF Sound
<1>7. Owes(b, owed)
  BY <1>3, <1>4 DEF Owes
<1>8. \A u \in a.timers : u # t => u \in T
  BY <1>1
<1>9. t.kind = "perm" => TimedBut(b, {t.slot}, {})
  BY <1>3, <1>8 DEF TimedBut
<1>10. t.kind = "chn" => TimedBut(b, {}, {t.slot})
  BY <1>3, <1>8 DEF TimedBut
<1> QED BY <1>3, <1>6, <1>7, <1>9, <1>10

(* What is left after entries are freed is as promised, if nothing is         *)
(* promised any more for the permissions that are gone.                       *)
LEMMA FreedKept ==
  ASSUME NEW a, Sound(a), NEW owed \in [Ip -> Nat], Owes(a, owed), NEW bd, BoundTo(a.chns, bd), NEW is, NEW ks,
         NEW b, Freed(a, is, ks, b),
         Allocated(b.perms) = Allocated(a.perms) \ is, Allocated(b.chns) = Allocated(a.chns) \ ks,
         \A i \in is \cap Allocated(a.perms) : owed[a.perms[i].addr] = 0
  PROVE  Owes(b, owed) /\ BoundTo(b.chns, bd)
<1>1. \A i \in Allocated(b.perms) : i \in Allocated(a.perms) /\ i \notin is /\ b.perms[i].addr = a.perms[i].addr
  BY DEF Freed, Allocated
<1>2. \A k \in Allocated(b.chns) : k \in Allocated(a.chns) /\ b.chns[k] = a.chns[k]
  BY DEF Freed, Allocated
<1>3. \A t \in b.timers : t \in a.timers /\ (t.kind = "perm" => t.slot \in Allocated(a.perms) /\ t.slot \notin is)
  BY DEF Freed, Sound, EventsHeld
<1>4. \A t \in b.timers : t.kind = "perm" => t.slot \in Allocated(b.perms)
  BY <1>3
<1>5. \A t \in b.timers : t.kind = "perm" => t.left = owed[b.perms[t.slot].addr]
  BY <1>1, <1>3, <1>4 DEF Owes
<1>6. ASSUME NEW ip \in Ip, \A i \in Allocated(b.perms) : b.perms[i].addr # ip PROVE owed[ip] = 0
  <2>1. CASE \E i \in Allocated(a.perms) : a.perms[i].addr = ip
    <3>1. PICK i \in Allocated(a.perms) : a.perms[i].addr = ip
      BY <2>1
    <3>2. i \in is
      BY <1>1, <1>6, <3>1
    <3> QED BY <3>1, <3>2
  <2>2. CASE \A i \in Allocated(a.perms) : a.perms[i].addr # ip
    BY <2>2 DEF Owes
  <2> QED BY <2>1, <2>2
<1>7. BoundTo(b.chns, bd)
  BY <1>2 DEF BoundTo
<1> QED BY <1>5, <1>6, <1>7 DEF Owes

-----------------------------------------------------------------------------
(* A permission in use is promised still, or its event is due.                *)
LEMMA StillGranted ==
  ASSUME NEW a, NEW owed, NEW bd, Kept(a, owed, bd), NEW i \in Allocated(a.perms)
  PROVE  owed[a.perms[i].addr] > 0 \/ \E t \in a.timers : t.kind = "perm" /\ t.left = 0 /\ t.slot = i
<1>1. PICK t \in a.timers : t.kind = "perm" /\ t.slot = i
  BY DEF Kept, TimedBut
<1>2. t.left = owed[a.perms[i].addr]
  BY <1>1 DEF Kept, Owes
<1>3. owed[a.perms[i].addr] \in Nat
  BY DEF Kept, Sound, OneEach
<1> QED BY <1>1, <1>2, <1>3

(* CreatePermission grants all or nothing.                                    *)
LEMMA GrantStep ==
  ASSUME PeersAssumption, PeersInv, NEW n \in Nat, NEW ips \in [1 .. n -> Ip], handle_turn_create_permission(ips)
  PROVE  PeersInv'
<1>1. Kept(al, owedPerm, bound) /\ is_valid' = is_valid /\ bound' = bound /\ is_valid \in BOOLEAN
  BY DEF PeersInv, handle_turn_create_permission
<1>2. PICK err : /\ out' = Reply(err) /\ al' = IF err = 0 THEN Granted(al, ips) ELSE al
                 /\ owedPerm' = [ip \in Ip |-> IF err = 0 /\ (\E m \in DOMAIN ips : ips[m] = ip)
                                              THEN PermissionLifetime ELSE owedPerm[ip]]
  BY DEF handle_turn_create_permission
<1>3. Sound(al) /\ TimedBut(al, {}, {}) /\ owedPerm \in [Ip -> Nat] /\ Owes(al, owedPerm) /\ BoundTo(al.chns, bound)
      /\ DOMAIN bound = ChNum
  BY <1>1 DEF Kept
<1>4. RelayedAsGranted'
  BY <1>2 DEF RelayedAsGranted, Reply
<1>5. CASE err = 0
  <2>1. al' = Granted(al, ips)
    BY <1>2, <1>5
  <2>2. PICK b : b = al'
    OBVIOUS
  <2>3. Sound(b) /\ b.chns = al.chns /\ TimedBut(b, {}, {}) /\ Owes(b, OwedAfter(owedPerm, ips, n))
    BY <1>3, <2>1, <2>2, GrantedIs
  <2>4. DOMAIN ips = 1 .. n
    OBVIOUS
  <2>5. owedPerm' = OwedAfter(owedPerm, ips, n)
    BY <1>2, <1>5, <2>4 DEF OwedAfter
  <2>6. OwedAfter(owedPerm, ips, n) \in [Ip -> Nat]
    BY <1>3 DEF OwedAfter, PeersAssumption
  <2>7. BoundTo(b.chns, bound)
    BY <1>3, <2>3
  <2>8. Kept(b, owedPerm', bound')
    BY <1>1, <1>3, <2>3, <2>5, <2>6, <2>7 DEF Kept
  <2> QED BY <1>1, <1>4, <2>2, <2>8 DEF PeersInv
<1>6. CASE err # 0
  <2>1. al' = al /\ owedPerm' = owedPerm
    BY <1>2, <1>3, <1>6
  <2> QED BY <1>1, <1>4, <2>1 DEF PeersInv
<1> QED BY <1>5, <1>6

(* ChannelBind makes a channel, refreshes one, or is refused.                 *)
LEMMA ChannelBindStep ==
  ASSUME PeersAssumption, PeersInv, NEW c \in ChNum, NEW peer \in PeerAddr, handle_turn_channel_bind(c, peer)
  PROVE  PeersInv'
<1>1. Kept(al, owedPerm, bound) /\ is_valid' = is_valid /\ is_valid \in BOOLEAN
  BY DEF PeersInv, handle_turn_channel_bind
<1>2. PICK err : err = ChannelError(c, peer)
  OBVIOUS
<1>3. PICK known : known = allocation_get_ch_info(al, c)
  OBVIOUS
<1>4. out' = Reply(err)
  BY <1>2 DEF handle_turn_channel_bind
<1>5. RelayedAsGranted'
  BY <1>4 DEF RelayedAsGranted, Reply
<1>6. CASE err # 0
  <2>1. al' = al /\ owedPerm' = owedPerm /\ bound' = bound
    BY <1>2, <1>6 DEF handle_turn_channel_bind
  <2> QED BY <1>1, <1>5, <2>1 DEF PeersInv
<1>7. CASE err = 0
  <2>1. owedPerm' = [owedPerm EXCEPT ![peer[1]] = ChannelLifetime] /\ bound' = [bound EXCEPT ![c] = peer]
    BY <1>2, <1>7 DEF handle_turn_channel_bind
  <2>2. PICK h : h = al'
    OBVIOUS
  <2>3. CASE known = {}
    <3>1. h = update_channel_lifetime(allocation_get_new_ch_info(al, c, peer), FirstFree(al.chns))
      BY <1>2, <1>3, <1>7, <2>2, <2>3 DEF handle_turn_channel_bind
    <3>2. allocation_get_ch_info_by_peer_addr(al, peer) = {}
      BY <1>2, <1>3, <1>7, <2>3 DEF ChannelError
    <3>3. Kept(h, owedPerm', bound')
      BY <1>1, <1>3, <2>1, <2>3, <3>1, <3>2, BindNew
    <3> QED BY <1>1, <1>5, <2>2, <3>3 DEF PeersInv
  <2>4. CASE known # {}
    <3>1. PICK k : k = CHOOSE x \in known : TRUE
      OBVIOUS
    <3>2. k \in known
      BY <2>4, <3>1
    <3>3. h = update_channel_lifetime(al, k)
      BY <1>2, <1>3, <1>7, <2>2, <2>4, <3>1 DEF handle_turn_channel_bind
    <3>4. al.chns[k].peer = peer
      BY <1>2, <1>3, <1>7, <2>4, <3>1 DEF ChannelError
    <3>5. Kept(h, owedPerm', bound')
      BY <1>1, <1>3, <2>1, <3>2, <3>3, <3>4, BindKnown
    <3> QED BY <1>1, <1>5, <2>2, <3>5 DEF PeersInv
  <2> QED BY <2>3, <2>4
<1> QED BY <1>6, <1>7

(* What is relayed is granted then, and a channel is of the peer it was bound *)
(* to.                                                                        *)
LEMMA RelayStep ==
  ASSUME PeersAssumption, PeersInv, UNCHANGED <<is_valid, al, owedPerm, owedChn, bound>>,
         \/ \E peer \in PeerAddr : handle_turn_send(peer) \/ peer_input_handler(peer)
         \/ \E c \in ChNum : write_to_peerchannel(c)
  PROVE  PeersInv'
<1>1. Kept(al, owedPerm, bound) /\ is_valid' \in BOOLEAN /\ al' = al /\ owedPerm' = owedPerm /\ bound' = bound
  BY DEF PeersInv
<1>2. ASSUME NEW i \in Allocated(al.perms)
      PROVE  owedPerm[al.perms[i].addr] > 0 \/ PermissionDue(al.perms[i].addr)
  <2>1. owedPerm[al.perms[i].addr] > 0 \/ \E t \in al.timers : t.kind = "perm" /\ t.left = 0 /\ t.slot = i
    BY <1>1, StillGranted
  <2> QED BY <2>1 DEF PermissionDue
<1>3. \A ip : PermissionDue(ip)' <=> PermissionDue(ip)
  BY <1>1 DEF PermissionDue
<1>4. LinkedBoth(al.perms, al.chns) /\ BoundTo(al.chns, bound)
  BY <1>1 DEF Kept, Sound
<1>5. 0 \notin ChNum
  BY DEF PeersAssumption
<1>6. ASSUME out' = NoneRelayed PROVE RelayedAsGranted'
  BY <1>6 DEF RelayedAsGranted, NoneRelayed
<1>7. ASSUME NEW via, NEW peer, NEW i \in Allocated(al.perms), al.perms[i].addr = peer[1],
             via \in ChNum => bound[via] = peer, out' = ToPeer(via, peer) \/ out' = ToClient(via, peer)
      PROVE  RelayedAsGranted'
  <2>1. owedPerm[peer[1]] > 0 \/ PermissionDue(peer[1])
    BY <1>2, <1>7
  <2> QED BY <1>1, <1>3, <1>7, <2>1 DEF RelayedAsGranted, ToPeer, ToClient
<1>8. ASSUME NEW peer \in PeerAddr, handle_turn_send(peer) PROVE RelayedAsGranted'
  <2>1. CASE get_from_turn_permission_hashtable(al, peer[1]) = {}
    BY <1>6, <1>8, <2>1 DEF handle_turn_send
  <2>2. CASE get_from_turn_permission_hashtable(al, peer[1]) # {}
    <3>1. PICK i \in Allocated(al.perms) : al.perms[i].addr = peer[1]
      BY <2>2 DEF get_from_turn_permission_hashtable
    <3>2. out' = ToPeer(0, peer)
      BY <1>8, <2>2 DEF handle_turn_send
    <3> QED BY <1>5, <1>7, <3>1, <3>2
  <2> QED BY <2>1, <2>2
<1>9. ASSUME NEW peer \in PeerAddr, peer_input_handler(peer) PROVE RelayedAsGranted'
  <2>1. PICK chn : chn = allocation_get_ch_info_by_peer_addr(al, peer)
    OBVIOUS
  <2>2. CASE get_from_turn_permission_hashtable(al, peer[1]) = {}
    BY <1>6, <1>9, <2>2 DEF peer_input_handler
  <2>3. CASE get_from_turn_permission_hashtable(al, peer[1]) # {}
    <3>1. PICK i \in Allocated(al.perms) : al.perms[i].addr = peer[1]
      BY <2>3 DEF get_from_turn_permission_hashtable
    <3>2. CASE chn = {}
      <4>1. out' = ToClient(0, peer)
        BY <1>9, <2>1, <2>3, <3>2 DEF peer_input_handler
      <4> QED BY <1>5, <1>7, <3>1, <4>1
    <3>3. CASE chn # {}
      <4>1. PICK k : k = CHOOSE x \in chn : TRUE
        OBVIOUS
      <4>2. k \in chn
        BY <3>3, <4>1
      <4>3. PICK j \in Allocated(al.perms) : /\ al.perms[j].addr = peer[1] /\ k = al.perms[j].chns[peer[2]]
                                             /\ k # 0 /\ peer[2] \in PeerPort
        BY <2>1, <4>2 DEF allocation_get_ch_info_by_peer_addr, get_from_turn_permission_hashtable, get_turn_channel
      <4>4. k \in Allocated(al.chns) /\ al.chns[k].owner = j /\ al.chns[k].peer[2] = peer[2]
        BY <1>4, <4>3 DEF LinkedBoth
      <4>5. al.chns[k].peer[1] = peer[1] /\ al.chns[k].peer \in PeerAddr /\ bound[al.chns[k].chnum] = al.chns[k].peer
        BY <1>4, <4>3, <4>4 DEF LinkedBoth, BoundTo
      <4>6. al.chns[k].peer = peer
        BY <4>4, <4>5 DEF PeerAddr
      <4>7. out' = ToClient(al.chns[k].chnum, peer)
        BY <1>9, <2>1, <2>3, <3>3, <4>1 DEF peer_input_handler
      <4> QED BY <1>7, <3>1, <4>5, <4>6, <4>7
    <3> QED BY <3>2, <3>3
  <2> QED BY <2>2, <2>3
<1>10. ASSUME NEW c \in ChNum, write_to_peerchannel(c) PROVE RelayedAsGranted'
  <2>1. PICK known : known = allocation_get_ch_info(al, c)
    OBVIOUS
  <2>2. CASE known = {}
    BY <1>6, <1>10, <2>1, <2>2 DEF write_to_peerchannel
  <2>3. CASE known # {}
    <3>1. PICK k : k = CHOOSE x \in known : TRUE
      OBVIOUS
    <3>2. k \in Allocated(al.chns) /\ al.chns[k].chnum = c
      BY <2>1, <2>3, <3>1 DEF allocation_get_ch_info
    <3>3. al.chns[k].owner \in Allocated(al.perms) /\ al.perms[al.chns[k].owner].addr = al.chns[k].peer[1]
      BY <1>4, <3>2 DEF LinkedBoth
    <3>4. bound[c] = al.chns[k].peer
      BY <1>4, <3>2 DEF BoundTo
    <3>5. out' = ToPeer(c, al.chns[k].peer)
      BY <1>10, <2>1, <2>3, <3>1 DEF write_to_peerchannel
    <3> QED BY <1>7, <3>3, <3>4, <3>5
  <2> QED BY <2>2, <2>3
<1>11. RelayedAsGranted'
  BY <1>8, <1>9, <1>10
<1> QED BY <1>1, <1>11 DEF PeersInv

(* A permission ends with its channels, when nothing is promised for its      *)
(* address any more.                                                          *)
LEMMA PermissionTimeout ==
  ASSUME PeersAssumption, PeersInv, NEW t \in al.timers, client_ss_perm_timeout_handler(t)
  PROVE  PeersInv'
<1>1. /\ Kept(al, owedPerm, bound) /\ is_valid' \in BOOLEAN /\ owedPerm' = owedPerm /\ bound' = bound
      /\ t.kind = "perm" /\ t.left = 0 /\ out' = NoneRelayed
  BY DEF PeersInv, client_ss_perm_timeout_handler
<1>2. /\ Sound(al) /\ TimedBut(al, {}, {}) /\ owedPerm \in [Ip -> Nat] /\ DOMAIN bound = ChNum
      /\ Owes(al, owedPerm) /\ BoundTo(al.chns, bound)
  BY <1>1 DEF Kept
<1>3. PICK a : a = [al EXCEPT !.timers = @ \ {t}]
  OBVIOUS
<1>4. PICK b : b = al'
  OBVIOUS
<1>5. PICK is : is = {t.slot}
  OBVIOUS
<1>6. b = turn_permission_clean(a, is)
  BY <1>3, <1>4, <1>5 DEF client_ss_perm_timeout_handler
<1>7. Sound(a) /\ a.perms = al.perms /\ a.chns = al.chns /\ Owes(a, owedPerm) /\ TimedBut(a, is, {})
  BY <1>1, <1>2, <1>3, <1>5, EventFired
<1>8. t.slot \in Allocated(al.perms) /\ owedPerm[al.perms[t.slot].addr] = 0
  BY <1>1, <1>2 DEF Sound, EventsHeld, Owes
<1>9. is \in SUBSET Allocated(a.perms)
  BY <1>5, <1>7, <1>8
<1>10. PICK ks : ks = Under(a.perms, is)
  OBVIOUS
<1>11. Freed(a, is, ks, b) /\ \A k \in Allocated(a.chns) : a.chns[k].owner \in is => k \in ks
  BY <1>6, <1>7, <1>9, <1>10, CleanPermissions
<1>12. TimedBut(a, is, ks)
  BY <1>7 DEF TimedBut
<1>13. /\ Sound(b) /\ TimedBut(b, {}, {})
       /\ Allocated(b.perms) = Allocated(a.perms) \ is /\ Allocated(b.chns) = Allocated(a.chns) \ ks
  BY <1>7, <1>11, <1>12, FreedSound
<1>14. \A i \in is \cap Allocated(a.perms) : owedPerm[a.perms[i].addr] = 0
  BY <1>5, <1>7, <1>8
<1>15. Owes(b, owedPerm) /\ BoundTo(b.chns, bound)
  <2>1. BoundTo(a.chns, bound)
    BY <1>2, <1>7
  <2> QED BY <1>2, <1>7, <1>11, <1>13, <1>14, <2>1, FreedKept
<1>16. Kept(b, owedPerm, bound)
  BY <1>2, <1>13, <1>15 DEF Kept
<1>17. RelayedAsGranted'
  BY <1>1 DEF RelayedAsGranted, NoneRelayed
<1> QED BY <1>1, <1>4, <1>16, <1>17 DEF PeersInv

(* A channel ends alone.                                                      *)
LEMMA ChannelTimeout ==
  ASSUME PeersAssumption, PeersInv, NEW t \in al.timers, client_ss_channel_timeout_handler(t)
  PROVE  PeersInv'
<1>1. /\ Kept(al, owedPerm, bound) /\ is_valid' \in BOOLEAN /\ owedPerm' = owedPerm /\ bound' = bound
      /\ t.kind = "chn" /\ out' = NoneRelayed
  BY DEF PeersInv, client_ss_channel_timeout_handler
<1>2. /\ Sound(al) /\ TimedBut(al, {}, {}) /\ owedPerm \in [Ip -> Nat] /\ DOMAIN bound = ChNum
      /\ Owes(al, owedPerm) /\ BoundTo(al.chns, bound)
  BY <1>1 DEF Kept
<1>3. PICK a : a = [al EXCEPT !.timers = @ \ {t}]
  OBVIOUS
<1>4. PICK b : b = al'
  OBVIOUS
<1>5. PICK k : k = t.slot
  OBVIOUS
<1>6. b = turn_channel_delete(a, k)
  BY <1>3, <1>4, <1>5 DEF client_ss_channel_timeout_handler
<1>7. Sound(a) /\ a.perms = al.perms /\ a.chns = al.chns /\ Owes(a, owedPerm) /\ TimedBut(a, {}, {k})
  BY <1>1, <1>2, <1>3, <1>5, EventFired
<1>8. k \in Allocated(a.chns)
  BY <1>1, <1>2, <1>5, <1>7 DEF Sound, EventsHeld
<1>9. Freed(a, {}, {k}, b)
  BY <1>6, <1>7, <1>8, DeleteChannel
<1>10. /\ Sound(b) /\ TimedBut(b, {}, {})
       /\ Allocated(b.perms) = Allocated(a.perms) \ {} /\ Allocated(b.chns) = Allocated(a.chns) \ {k}
  BY <1>7, <1>9, FreedSound
<1>11. Owes(b, owedPerm) /\ BoundTo(b.chns, bound)
  <2>1. BoundTo(a.chns, bound)
    BY <1>2, <1>7
  <2>2. \A i \in {} \cap Allocated(a.perms) : owedPerm[a.perms[i].addr] = 0
    OBVIOUS
  <2> QED BY <1>2, <1>7, <1>9, <1>10, <2>1, <2>2, FreedKept
<1>12. Kept(b, owedPerm, bound)
  BY <1>2, <1>10, <1>11 DEF Kept
<1>13. RelayedAsGranted'
  BY <1>1 DEF RelayedAsGranted, NoneRelayed
<1> QED BY <1>1, <1>4, <1>12, <1>13 DEF PeersInv

(* Time passes for the events and for what is promised alike.                 *)
LEMMA TimePasses ==
  ASSUME PeersAssumption, PeersInv, PeersTick
  PROVE  PeersInv'
<1>1. /\ Kept(al, owedPerm, bound) /\ is_valid' \in BOOLEAN /\ owedPerm' = Pass(owedPerm) /\ bound' = bound
      /\ (\A t \in al.timers : t.left > 0) /\ out' = NoneRelayed
  BY DEF PeersInv, PeersTick
<1>2. /\ Sound(al) /\ TimedBut(al, {}, {}) /\ owedPerm \in [Ip -> Nat] /\ DOMAIN bound = ChNum
      /\ Owes(al, owedPerm) /\ BoundTo(al.chns, bound)
  BY <1>1 DEF Kept
<1>3. /\ al \in Tables /\ Within(al.perms, al.chns) /\ LinkedBoth(al.perms, al.chns) /\ OneEach(al.perms, al.chns)
      /\ EventsHeld(al.perms, al.chns, al.timers)
  BY <1>2 DEF Sound
<1>4. al.perms \in Seq(PermEntry) /\ al.chns \in Seq(ChnEntry) /\ al.timers \in SUBSET Events
  BY <1>3, EntryTypes
<1> DEFINE Older(t) == [t EXCEPT !.left = t.left - 1]
<1>5. PICK T : T = {Older(t) : t \in al.timers}
  OBVIOUS
<1>6. PICK b : b = al'
  OBVIOUS
<1>7. b = [al EXCEPT !.timers = T]
  BY <1>5, <1>6 DEF PeersTick
<1>8. ASSUME NEW t \in al.timers
      PROVE  /\ Older(t) \in Events /\ Older(t).kind = t.kind /\ Older(t).slot = t.slot
             /\ Older(t).left = t.left - 1 /\ Older(t) \in T
  <2>1. t \in Events /\ t.left > 0 /\ t.left \in 0 .. Longest
    BY <1>1, <1>4 DEF Events
  <2>2. t.left - 1 \in 0 .. Longest
    BY <2>1 DEF Longest, PeersAssumption
  <2> QED BY <1>5, <2>1, <2>2 DEF Events
<1>9. \A u \in T : \E t \in al.timers : u = Older(t)
  BY <1>5
<1> HIDE DEF Older
<1>10. T \in SUBSET Events
  BY <1>8, <1>9
<1>11. b \in Tables /\ b.perms = al.perms /\ b.chns = al.chns /\ b.timers = T
  BY <1>3, <1>4, <1>7, <1>10 DEF Tables
<1>12. EventsHeld(b.perms, b.chns, T)
  <2>1. \A u \in T : /\ u.kind = "perm" => u.slot \in Allocated(al.perms) /\ al.perms[u.slot].ev
                     /\ u.kind = "chn" => u.slot \in Allocated(al.chns) /\ al.chns[u.slot].ev
    BY <1>3, <1>8, <1>9 DEF EventsHeld
  <2>2. \A u, v \in T : u.kind = v.kind /\ u.slot = v.slot => u = v
    BY <1>3, <1>8, <1>9 DEF EventsHeld
  <2> QED BY <1>11, <2>1, <2>2 DEF EventsHeld
<1>13. Sound(b)
  BY <1>3, <1>11, <1>12 DEF Sound
<1>14. TimedBut(b, {}, {})
  BY <1>2, <1>8, <1>11 DEF TimedBut
<1>15. Pass(owedPerm) \in [Ip -> Nat] /\ \A x \in Ip : Pass(owedPerm)[x] = IF owedPerm[x] = 0 THEN 0 ELSE owedPerm[x] - 1
  BY <1>2 DEF Pass
<1>16. Owes(b, Pass(owedPerm))
  <2>1. ASSUME NEW u \in T, u.kind = "perm" PROVE u.left = Pass(owedPerm)[al.perms[u.slot].addr]
    <3>1. PICK t \in al.timers : u = Older(t)
      BY <1>9
    <3>2. t.kind = "perm" /\ t.slot = u.slot /\ u.left = t.left - 1
      BY <1>8, <2>1, <3>1
    <3>3. al.perms[t.slot].addr \in Ip /\ t.left = owedPerm[al.perms[t.slot].addr] /\ t.left > 0
      BY <1>1, <1>2, <1>3, <3>2 DEF EventsHeld, OneEach, Owes
    <3> QED BY <1>15, <3>2, <3>3
  <2>2. \A ip \in Ip : (\A i \in Allocated(al.perms) : al.perms[i].addr # ip) => Pass(owedPerm)[ip] = 0
    BY <1>2, <1>15 DEF Owes
  <2> QED BY <1>11, <2>1, <2>2 DEF Owes
<1>17. Kept(b, owedPerm', bound')
  BY <1>1, <1>2, <1>11, <1>13, <1>14, <1>15, <1>16 DEF Kept
<1>18. RelayedAsGranted'
  BY <1>1 DEF RelayedAsGranted, NoneRelayed
<1> QED BY <1>1, <1>6, <1>17, <1>18 DEF PeersInv

(* Empty tables owe nothing.                                                  *)
LEMMA EmptyKept ==
  ASSUME NEW a, a = [perms |-> <<>>, chns |-> <<>>, timers |-> {}], NEW bd, DOMAIN bd = ChNum
  PROVE  Kept(a, [ip \in Ip |-> 0], bd)
<1>1. a.perms = <<>> /\ a.chns = <<>> /\ a.timers = {} /\ a \in Tables
  <2> HIDE DEF PermEntry, ChnEntry, Events
  <2> QED BY DEF Tables
<1>2. Allocated(a.perms) = {} /\ Allocated(a.chns) = {} /\ DOMAIN a.perms = {} /\ DOMAIN a.chns = {}
  BY <1>1 DEF Allocated
<1>3. Sound(a)
  BY <1>1, <1>2 DEF Sound, Within, LinkedBoth, OneEach, EventsHeld
<1>4. TimedBut(a, {}, {}) /\ Owes(a, [ip \in Ip |-> 0]) /\ BoundTo(a.chns, bd)
  BY <1>1, <1>2 DEF TimedBut, Owes, BoundTo
<1> QED BY <1>3, <1>4 DEF Kept

(* The end of the allocation leaves no event.                                 *)
LEMMA ClearPeersStep ==
  ASSUME PeersAssumption, PeersInv, clear_allocation
  PROVE  PeersInv'
<1>1. /\ Kept(al, owedPerm, bound) /\ is_valid' \in BOOLEAN /\ owedPerm' = [ip \in Ip |-> 0] /\ bound' = bound
      /\ out' = NoneRelayed
  BY DEF PeersInv, clear_allocation
<1>2. Sound(al) /\ TimedBut(al, {}, {}) /\ DOMAIN bound = ChNum
  BY <1>1 DEF Kept
<1>3. PICK is : is = Allocated(al.perms)
  OBVIOUS
<1>4. PICK a : a = turn_permission_clean(al, is)
  OBVIOUS
<1>5. PICK ks : ks = Under(al.perms, is)
  OBVIOUS
<1>6. Freed(al, is, ks, a) /\ \A k \in Allocated(al.chns) : al.chns[k].owner \in is => k \in ks
  BY <1>2, <1>3, <1>4, <1>5, CleanPermissions
<1>7. TimedBut(al, is, ks)
  BY <1>2 DEF TimedBut
<1>8. Sound(a) /\ Allocated(a.perms) = Allocated(al.perms) \ is /\ Allocated(a.chns) = Allocated(al.chns) \ ks
  BY <1>2, <1>6, <1>7, FreedSound
<1>9. Allocated(a.perms) = {} /\ Allocated(a.chns) = {}
  <2>1. \A k \in Allocated(al.chns) : al.chns[k].owner \in is
    BY <1>2, <1>3 DEF Sound, LinkedBoth
  <2> QED BY <1>3, <1>6, <1>8, <2>1
<1>10. a.timers = {}
  <2>1. \A t \in a.timers : t.kind \in {"perm", "chn"}
    BY <1>8 DEF Sound, Tables, Events
  <2> QED BY <1>8, <1>9, <2>1 DEF Sound, EventsHeld
<1>11. PICK c : c = ch_info_clean(a, {})
  OBVIOUS
<1>12. c \in Tables /\ c.timers = {}
  <2>1. a \in Tables /\ \A t \in a.timers : t.kind = "chn" => a.chns[t.slot].ev
    BY <1>8, <1>10 DEF Sound
  <2>2. ChannelsCleaned(a, {}, c)
    BY <1>11, <2>1, CleanChannels
  <2> QED BY <1>10, <2>2 DEF ChannelsCleaned
<1>13. PICK b : b = al'
  OBVIOUS
<1>14. b = [c EXCEPT !.perms = <<>>, !.chns = <<>>]
  BY <1>3, <1>4, <1>9, <1>11, <1>13 DEF clear_allocation
<1>15. b = [perms |-> <<>>, chns |-> <<>>, timers |-> {}]
  BY <1>12, <1>14 DEF Tables
<1>16. Kept(b, owedPerm', bound')
  BY <1>1, <1>2, <1>15, EmptyKept
<1>17. RelayedAsGranted'
  BY <1>1 DEF RelayedAsGranted, NoneRelayed
<1> QED BY <1>1, <1>13, <1>16, <1>17 DEF PeersInv

(* Every step keeps the invariant.                                            *)
LEMMA PeersStep ==
  ASSUME PeersAssumption, PeersInv, [PeersNext]_peersVars
  PROVE  PeersInv'
<1>1. ASSUME NEW n \in 1 .. MaxAddresses, NEW ips \in [1 .. n -> Ip], handle_turn_create_permission(ips)
      PROVE  PeersInv'
  <2>1. n \in Nat
    BY DEF PeersAssumption
  <2> QED BY <1>1, <2>1, GrantStep
<1>2. ASSUME NEW peer \in PeerAddr, NEW c \in ChNum, handle_turn_channel_bind(c, peer) PROVE PeersInv'
  BY <1>2, ChannelBindStep
<1>3. ASSUME NEW peer \in PeerAddr, handle_turn_send(peer) \/ peer_input_handler(peer) PROVE PeersInv'
  <2>1. UNCHANGED <<is_valid, al, owedPerm, owedChn, bound>>
    BY <1>3 DEF handle_turn_send, peer_input_handler
  <2> QED BY <1>3, <2>1, RelayStep
<1>4. ASSUME NEW c \in ChNum, write_to_peerchannel(c) PROVE PeersInv'
  <2>1. UNCHANGED <<is_valid, al, owedPerm, owedChn, bound>>
    BY <1>4 DEF write_to_peerchannel
  <2> QED BY <1>4, <2>1, RelayStep
<1>5. ASSUME NEW t \in al.timers, client_ss_perm_timeout_handler(t) \/ client_ss_channel_timeout_handler(t)
      PROVE  PeersInv'
  BY <1>5, PermissionTimeout, ChannelTimeout
<1>6. CASE PeersTick
  BY <1>6, TimePasses
<1>7. CASE clear_allocation
  BY <1>7, ClearPeersStep
<1>8. CASE UNCHANGED peersVars
  BY <1>8 DEF peersVars, PeersInv, Kept, RelayedAsGranted, PermissionDue
<1> QED BY <1>1, <1>2, <1>3, <1>4, <1>5, <1>6, <1>7, <1>8 DEF PeersNext

(* What the invariant says of the tables.                                     *)
LEMMA PeersInvLinked ==
  ASSUME PeersAssumption, PeersInv
  PROVE  PeersTypeOK /\ TablesLinked /\ OneTimerEach /\ ChannelsOneToOne /\ PermissionLasts /\ RelayedAsGranted
<1>1. /\ Sound(al) /\ TimedBut(al, {}, {}) /\ owedPerm \in [Ip -> Nat] /\ Owes(al, owedPerm)
      /\ is_valid \in BOOLEAN /\ RelayedAsGranted
  BY DEF PeersInv, Kept
<1>2. /\ al \in Tables /\ Within(al.perms, al.chns) /\ LinkedBoth(al.perms, al.chns) /\ OneEach(al.perms, al.chns)
      /\ EventsHeld(al.perms, al.chns, al.timers)
  BY <1>1 DEF Sound
<1>3. /\ al.timers \in SUBSET Events /\ Len(al.perms) \in Nat /\ Len(al.chns) \in Nat
      /\ \A i \in DOMAIN al.perms : al.perms[i] \in PermEntry
      /\ \A k \in DOMAIN al.chns : al.chns[k] \in ChnEntry
  BY <1>2, EntryTypes
<1>4. PeersTypeOK
  <2>1. ASSUME NEW i \in DOMAIN al.perms
        PROVE  al.perms[i].addr \in Ip \cup {NoIp} /\ al.perms[i].chns \in [PeerPort -> 0 .. Len(al.chns)]
    <3>1. al.perms[i].addr \in Ip \cup {NoIp} /\ al.perms[i].chns \in [PeerPort -> Nat]
      BY <1>3 DEF PermEntry
    <3>2. \A p \in PeerPort : al.perms[i].chns[p] \in 0 .. Len(al.chns)
      BY <1>2, <1>3, <3>1 DEF Within
    <3> QED BY <3>1, <3>2
  <2>2. ASSUME NEW k \in DOMAIN al.chns
        PROVE  al.chns[k].owner \in 0 .. Len(al.perms) /\ al.chns[k].chnum \in ChNum \cup {0}
    <3>1. al.chns[k].owner \in Nat /\ al.chns[k].chnum \in ChNum \cup {0}
      BY <1>3 DEF ChnEntry
    <3> QED BY <1>2, <1>3, <3>1 DEF Within
  <2>3. \A t \in al.timers : t.kind \in {"perm", "chn"} /\ t.left \in 0 .. Longest
    BY <1>3 DEF Events
  <2> QED BY <1>1, <2>1, <2>2, <2>3 DEF PeersTypeOK
<1>5. TablesLinked
  BY <1>2 DEF TablesLinked, LinkedBoth
<1>6. OneTimerEach
  <2>1. ASSUME NEW kind, NEW i, \E t \in al.timers : t.kind = kind /\ t.slot = i
        PROVE  Cardinality({t \in al.timers : t.kind = kind /\ t.slot = i}) = 1
    <3>1. PICK t \in al.timers : t.kind = kind /\ t.slot = i
      BY <2>1
    <3>2. {u \in al.timers : u.kind = kind /\ u.slot = i} = {t}
      BY <1>2, <3>1 DEF EventsHeld
    <3> QED BY <3>2, FS_Singleton
  <2>2. \A i \in Allocated(al.perms) : Cardinality({t \in al.timers : t.kind = "perm" /\ t.slot = i}) = 1
    BY <1>1, <2>1 DEF TimedBut
  <2>3. \A k \in Allocated(al.chns) : Cardinality({t \in al.timers : t.kind = "chn" /\ t.slot = k}) = 1
    BY <1>1, <2>1 DEF TimedBut
  <2>4. \A t \in al.timers : t.slot \in Allocated(IF t.kind = "perm" THEN al.perms ELSE al.chns)
    <3>1. \A t \in al.timers : t.kind \in {"perm", "chn"}
      BY <1>3 DEF Events
    <3> QED BY <1>2, <3>1 DEF EventsHeld
  <2> QED BY <2>2, <2>3, <2>4 DEF OneTimerEach
<1>7. ChannelsOneToOne
  <2>1. ASSUME NEW j \in Allocated(al.chns), NEW k \in Allocated(al.chns), al.chns[j].peer = al.chns[k].peer
        PROVE  j = k
    <3>1. /\ al.chns[j].owner \in Allocated(al.perms) /\ al.chns[k].owner \in Allocated(al.perms)
          /\ al.perms[al.chns[j].owner].addr = al.chns[j].peer[1]
          /\ al.perms[al.chns[k].owner].addr = al.chns[k].peer[1]
          /\ al.perms[al.chns[j].owner].chns[al.chns[j].peer[2]] = j
          /\ al.perms[al.chns[k].owner].chns[al.chns[k].peer[2]] = k
      BY <1>2 DEF LinkedBoth
    <3>2. al.chns[j].owner = al.chns[k].owner
      BY <1>2, <2>1, <3>1 DEF OneEach
    <3> QED BY <2>1, <3>1, <3>2
  <2>2. \A j, k \in Allocated(al.chns) : j # k => al.chns[j].chnum # al.chns[k].chnum
    BY <1>2 DEF OneEach
  <2> QED BY <2>1, <2>2 DEF ChannelsOneToOne
<1>8. PermissionLasts
  <2>1. \A ip \in Ip : owedPerm[ip] > 0 => \E i \in Allocated(al.perms) : al.perms[i].addr = ip
    BY <1>1 DEF Owes
  <2> QED BY <2>1 DEF PermissionLasts, get_from_turn_permission_hashtable
<1> QED BY <1>1, <1>4, <1>5, <1>6, <1>7, <1>8

(* A request that is refused changes nothing.                                 *)
LEMMA PeersRefusal ==
  ASSUME [PeersNext]_peersVars
  PROVE  [RefusedChangesNothing]_peersVars
<1>1. ASSUME NEW ips, handle_turn_create_permission(ips) PROVE RefusedChangesNothing
  BY <1>1 DEF handle_turn_create_permission, RefusedChangesNothing, Reply
<1>2. ASSUME NEW c, NEW peer, handle_turn_channel_bind(c, peer) PROVE RefusedChangesNothing
  BY <1>2 DEF handle_turn_channel_bind, RefusedChangesNothing, Reply
<1>3. ASSUME NEW peer, handle_turn_send(peer) \/ peer_input_handler(peer) PROVE RefusedChangesNothing
  BY <1>3 DEF handle_turn_send, peer_input_handler, RefusedChangesNothing
<1>4. ASSUME NEW c, write_to_peerchannel(c) PROVE RefusedChangesNothing
  BY <1>4 DEF write_to_peerchannel, RefusedChangesNothing
<1>5. ASSUME out' = NoneRelayed PROVE RefusedChangesNothing
  BY <1>5 DEF NoneRelayed, RefusedChangesNothing
<1>6. ASSUME NEW t, client_ss_perm_timeout_handler(t) \/ client_ss_channel_timeout_handler(t)
      PROVE  RefusedChangesNothing
  BY <1>5, <1>6 DEF client_ss_perm_timeout_handler, client_ss_channel_timeout_handler
<1>7. PeersTick \/ clear_allocation => RefusedChangesNothing
  BY <1>5 DEF PeersTick, clear_allocation
<1> QED BY <1>1, <1>2, <1>3, <1>4, <1>6, <1>7 DEF PeersNext

(* Through every order of requests, timers and packets, for every size of the *)
(* tables, lifetime and number of addresses, the permissions and channels of  *)
(* an allocation point to each other, each in use has its one timer, none is  *)
(* shared, a permission lasts as granted and relayed data use what is granted *)
(* then; a refused request changes nothing (handle_turn_create_permission,    *)
(* handle_turn_channel_bind, the two lifetime timers, handle_turn_send,       *)
(* write_to_peerchannel, peer_input_handler).                                 *)
THEOREM PeersAlwaysRight ==
  ASSUME PeersAssumption
  PROVE  PeersSpec => PeersRight
<1>1. PeersInit => PeersInv
  <2> SUFFICES ASSUME PeersInit PROVE PeersInv
    OBVIOUS
  <2>1. Kept(al, owedPerm, bound)
    <3>1. DOMAIN bound = ChNum
      BY DEF PeersInit
    <3> QED BY <3>1, EmptyKept DEF PeersInit
  <2>2. is_valid \in BOOLEAN
    BY DEF PeersInit
  <2>3. RelayedAsGranted
    BY DEF PeersInit, NoneRelayed, RelayedAsGranted
  <2> QED BY <2>1, <2>2, <2>3 DEF PeersInv
<1>2. PeersInv /\ [PeersNext]_peersVars => PeersInv'
  BY PeersStep
<1>3. PeersInv => PeersTypeOK /\ TablesLinked /\ OneTimerEach /\ ChannelsOneToOne /\ PermissionLasts /\ RelayedAsGranted
  BY PeersInvLinked
<1>4. [PeersNext]_peersVars => [RefusedChangesNothing]_peersVars
  BY PeersRefusal
<1> QED BY <1>1, <1>2, <1>3, <1>4, PTL DEF PeersSpec, PeersRight
=============================================================================
