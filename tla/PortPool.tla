------------------------------ MODULE PortPool ------------------------------
(***************************************************************************)
(* What a range of relay ports promises to the code that opens sockets:    *)
(* a port is given to one holder at a time, a pair is an even port with    *)
(* the odd port after it, and only what is held can be given back.         *)
(***************************************************************************)
EXTENDS Integers

CONSTANTS Start, End

VARIABLE held   \* port -> number of its holders

Range == Start .. End
IsEven(p) == p % 2 = 0

PoolInit == held = [p \in Range |-> 0]

TakePort(p) == held[p] = 0 /\ held' = [held EXCEPT ![p] = 1]

TakePair(p) ==
    /\ IsEven(p) /\ p + 1 \in Range
    /\ held[p] = 0 /\ held[p + 1] = 0
    /\ held' = [held EXCEPT ![p] = 1, ![p + 1] = 1]

GiveBack(p) == held[p] = 1 /\ held' = [held EXCEPT ![p] = 0]

PoolNext == \E p \in Range : TakePort(p) \/ TakePair(p) \/ GiveBack(p)

PoolSpec == PoolInit /\ [][PoolNext]_held
=============================================================================
