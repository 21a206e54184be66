-------------------------------- MODULE LmMap --------------------------------
(* The local map of server/ns_turn_maps.c, in which a permission keeps its    *)
(* channels by port: a few slots in the bucket itself, then slots allocated   *)
(* one by one that are never given back before the map is cleaned.  A slot    *)
(* whose key or value is 0 is free.                                           *)
EXTENDS Integers, Sequences, FiniteSets, SequencesExt

CONSTANTS
  Keys,          \* positive numbers
  Values, NoValue,
  HashSize,      \* LM_MAP_HASH_SIZE, 8 in the code
  ArraySize,     \* LM_MAP_ARRAY_SIZE, 3 in the code
  MaxExtra       \* bound: slots allocated for a bucket

LmAssumption ==
  /\ Keys \subseteq Nat \ {0} /\ NoValue \notin Values
  /\ HashSize \in Nat \ {0} /\ ArraySize \in Nat /\ MaxExtra \in Nat

VARIABLES table, res

lmVars == <<table, res>>

Free == [key |-> 0, value |-> NoValue]
IsFree(s) == s.key = 0 \/ s.value = NoValue
Hash(k) == k % HashSize

(* The bucket's slots in the order they are searched: the first ArraySize are *)
(* the main ones.                                                             *)
lm_map_init == [h \in 0 .. HashSize - 1 |-> [i \in 1 .. ArraySize |-> Free]]

LmInit == table = lm_map_init /\ res = [op |-> "init", value |-> NoValue]

(* The first slot with the property, 0 if there is none.                      *)
First(a, Test(_)) == SelectInSeq(a, Test)

(* lm_map_get: a main slot with the key counts only if it has a value.        *)
Found(a, k) == First(a, LAMBDA s : s.key = k /\ s.value # NoValue)
lm_map_get(t, k) == LET i == Found(t[Hash(k)], k) IN IF i = 0 THEN NoValue ELSE t[Hash(k)][i].value

(* lm_map_put: the first free slot, or a new one.  A main slot before it that *)
(* has the key already is left as it is; the slots after it are not looked    *)
(* at.                                                                        *)
lm_map_put(t, k, v) ==
  LET a == t[Hash(k)]
      i == First(a, IsFree)
      same == First(SubSeq(a, 1, ArraySize), LAMBDA s : s.key = k)
  IN IF same # 0 /\ (i = 0 \/ same < i) THEN t
     ELSE [t EXCEPT ![Hash(k)] = IF i = 0 THEN Append(a, [key |-> k, value |-> v]) ELSE [a EXCEPT ![i] = [key |-> k, value |-> v]]]

(* lm_map_del: the first slot with the key.                                   *)
lm_map_del(t, k) == LET i == Found(t[Hash(k)], k) IN IF i = 0 THEN t ELSE [t EXCEPT ![Hash(k)][i] = Free]

(* lm_map_foreach: every slot in use, bucket by bucket.                       *)
lm_map_foreach(t) ==
  FlattenSeq([b \in 1 .. HashSize |-> SelectSeq(t[b - 1], LAMBDA s : ~IsFree(s))])

lm_map_size(t) == Len(lm_map_foreach(t))

-----------------------------------------------------------------------------
(* The channels of a permission: a port gets a channel only when it has none  *)
(* (allocation_get_new_ch_info is called when no channel was found), and      *)
(* loses it when the channel expires.                                         *)
Put(k, v) ==
  /\ lm_map_get(table, k) = NoValue
  /\ Len(table[Hash(k)]) < ArraySize + MaxExtra \/ \E i \in DOMAIN table[Hash(k)] : IsFree(table[Hash(k)][i])
  /\ table' = lm_map_put(table, k, v)
  /\ res' = [op |-> "put", value |-> v]

Get(k) == res' = [op |-> "get", value |-> lm_map_get(table, k)] /\ UNCHANGED table

Del(k) ==
  /\ table' = lm_map_del(table, k)
  /\ res' = [op |-> "del", value |-> lm_map_get(table, k)]

lm_map_clean == table' = lm_map_init /\ res' = [op |-> "clean", value |-> NoValue]

LmNext == lm_map_clean \/ \E k \in Keys : Get(k) \/ Del(k) \/ \E v \in Values : Put(k, v)
LmSpec == LmInit /\ [][LmNext]_lmVars

-----------------------------------------------------------------------------
(* The map a reader sees through lm_map_get.                                  *)
Seen == [k \in Keys |-> lm_map_get(table, k)]
Abstract == INSTANCE MapSpec WITH map <- Seen

(* The slots together are a map: what the operations return and leave is what *)
(* the header promises, through every reuse of a freed slot.                  *)
LmImplementsMap == Abstract!MapSpecification

(* lm_map_foreach and lm_map_size see every entry exactly once.               *)
EachOnce ==
  LET visits == lm_map_foreach(table)
  IN /\ IsInjective(visits)
     /\ {visits[i].key : i \in DOMAIN visits} = {k \in Keys : Seen[k] # NoValue}
     /\ lm_map_size(table) = Cardinality({k \in Keys : Seen[k] # NoValue})

(* Slots are in their key's bucket, and a bucket never has more slots beyond  *)
(* the main ones than it had entries at once.                                 *)
LmTypeOK ==
  \A h \in DOMAIN table :
    /\ Len(table[h]) \in ArraySize .. ArraySize + MaxExtra
    /\ \A i \in DOMAIN table[h] : table[h][i] = Free \/ (Hash(table[h][i].key) = h /\ table[h][i].value \in Values)
=============================================================================
