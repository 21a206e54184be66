------------------------------- MODULE MapSpec -------------------------------
(* What the maps of server/ns_turn_maps.h promise: a key has at most one      *)
(* value; put gives it one, del takes it away and says whether there was one, *)
(* get finds it, clean takes all away.  A map that was cleaned for good       *)
(* refuses what it is asked.  NoValue is 0 in the code.                       *)
CONSTANTS Keys, Values, NoValue

VARIABLES map, res

mapVars == <<map, res>>

Nothing == [k \in Keys |-> NoValue]

MapInit == map = Nothing /\ res = [op |-> "init", value |-> NoValue]

Put(k, v) == map' = [map EXCEPT ![k] = v] /\ res' = [op |-> "put", value |-> v]
Get(k) == res' = [op |-> "get", value |-> map[k]] /\ UNCHANGED map
Del(k) == map' = [map EXCEPT ![k] = NoValue] /\ res' = [op |-> "del", value |-> map[k]]
Clean == map' = Nothing /\ res' = [op |-> "clean", value |-> NoValue]
Refused == map = Nothing /\ res' = [op |-> "refused", value |-> NoValue] /\ UNCHANGED map

MapNext == Clean \/ Refused \/ \E k \in Keys : Get(k) \/ Del(k) \/ \E v \in Values : Put(k, v)
MapSpecification == MapInit /\ [][MapNext]_mapVars
=============================================================================
