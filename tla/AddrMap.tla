------------------------------- MODULE AddrMap -------------------------------
(* The address map of server/ns_turn_maps.c, in which the UDP listener finds  *)
(* its client sockets and turnipports the ports of an address: lists of a few *)
(* slots in the map itself, then slots allocated one by one that are never    *)
(* given back.  A slot whose value is 0 is free, whatever key it still has.   *)
(* A map that was cleaned has lost its magic number and refuses everything.   *)
EXTENDS Integers, Sequences, FiniteSets, SequencesExt

CONSTANTS
  Keys,          \* addresses, as the numbers addr_hash gives
  Values, NoValue,
  MapSize,       \* ADDR_MAP_SIZE, 1024 in the code
  ArraySize,     \* ADDR_ARRAY_SIZE, 4 in the code
  MaxExtra       \* bound: slots allocated for a list

AddrMapAssumption ==
  /\ Keys \subseteq Nat /\ NoValue \notin Values
  /\ MapSize \in Nat \ {0} /\ ArraySize \in Nat /\ MaxExtra \in Nat

VARIABLES lists, valid, res

addrVars == <<lists, valid, res>>

Zero == [key |-> 0, value |-> NoValue]
addr_map_index(k) == k % MapSize

EmptyLists == [h \in 0 .. MapSize - 1 |-> [i \in 1 .. ArraySize |-> Zero]]

ur_addr_map_init == lists = EmptyLists /\ valid = TRUE /\ res = [op |-> "init", value |-> NoValue]

Used(e) == e.value # NoValue

(* addr_list_get: the first slot in use with the key, 0 if there is none.     *)
addr_list_get(l, k) == SelectInSeq(l, LAMBDA e : Used(e) /\ e.key = k)

(* addr_list_add: the first free slot, or one more.                           *)
addr_list_add(l, k, v) ==
  LET i == SelectInSeq(l, LAMBDA e : ~Used(e))
      elem == [key |-> k, value |-> v]
  IN IF i = 0 THEN Append(l, elem) ELSE [l EXCEPT ![i] = elem]

(* Mutant: only the main slots are searched.                                  *)
addr_list_remove_main(l, k) ==
  [i \in DOMAIN l |-> IF i <= ArraySize /\ Used(l[i]) /\ l[i].key = k THEN [l[i] EXCEPT !.value = NoValue] ELSE l[i]]

(* addr_list_remove: every slot in use with the key.                          *)
addr_list_remove(l, k) ==
  [i \in DOMAIN l |-> IF Used(l[i]) /\ l[i].key = k THEN [l[i] EXCEPT !.value = NoValue] ELSE l[i]]

ur_addr_map_put(ls, k, v) ==
  LET l == ls[addr_map_index(k)]
      i == addr_list_get(l, k)
  IN [ls EXCEPT ![addr_map_index(k)] = IF i # 0 THEN [l EXCEPT ![i].value = v] ELSE addr_list_add(l, k, v)]

ur_addr_map_get(ls, k) ==
  LET l == ls[addr_map_index(k)]
      i == addr_list_get(l, k)
  IN IF i = 0 THEN NoValue ELSE l[i].value

ur_addr_map_del(ls, k) == [ls EXCEPT ![addr_map_index(k)] = addr_list_remove(@, k)]

(* ur_addr_map_foreach: the slots in use, list by list.                       *)
ur_addr_map_foreach(ls) == FlattenSeq([b \in 1 .. MapSize |-> SelectSeq(ls[b - 1], Used)])

ur_addr_map_num_elements(ls) == Len(ur_addr_map_foreach(ls))
ur_addr_map_size(ls) == Len(FlattenSeq([b \in 1 .. MapSize |-> ls[b - 1]]))

-----------------------------------------------------------------------------
Room(k) ==
  LET l == lists[addr_map_index(k)]
  IN Len(l) < ArraySize + MaxExtra \/ addr_list_get(l, k) # 0 \/ \E i \in DOMAIN l : ~Used(l[i])

Refuse == ~valid /\ res' = [op |-> "refused", value |-> NoValue] /\ UNCHANGED <<lists, valid>>

Put(k, v) ==
  /\ valid /\ Room(k)
  /\ lists' = ur_addr_map_put(lists, k, v)
  /\ res' = [op |-> "put", value |-> v]
  /\ UNCHANGED valid

Get(k) == valid /\ res' = [op |-> "get", value |-> ur_addr_map_get(lists, k)] /\ UNCHANGED <<lists, valid>>

Del(k) ==
  /\ valid
  /\ lists' = ur_addr_map_del(lists, k)
  /\ res' = [op |-> "del", value |-> ur_addr_map_get(lists, k)]
  /\ UNCHANGED valid

ur_addr_map_clean ==
  /\ valid
  /\ lists' = EmptyLists /\ valid' = FALSE
  /\ res' = [op |-> "clean", value |-> NoValue]

AddrNext == Refuse \/ ur_addr_map_clean \/ \E k \in Keys : Get(k) \/ Del(k) \/ \E v \in Values : Put(k, v)
AddrSpec == ur_addr_map_init /\ [][AddrNext]_addrVars

-----------------------------------------------------------------------------
(* The map a reader sees through ur_addr_map_get.                             *)
Seen == [k \in Keys |-> ur_addr_map_get(lists, k)]
Abstract == INSTANCE MapSpec WITH map <- Seen

(* The lists together are a map: what put, get and del return and leave is    *)
(* what the header promises, through every reuse of a slot that keeps the key *)
(* of an address long gone.                                                   *)
AddrImplementsMap == Abstract!MapSpecification

(* ur_addr_map_foreach and ur_addr_map_num_elements meet every address that   *)
(* has a value once, and no other.                                            *)
AddrEachOnce ==
  LET visits == ur_addr_map_foreach(lists)
      here == {k \in Keys : Seen[k] # NoValue}
  IN {visits[i].key : i \in DOMAIN visits} = here /\ ur_addr_map_num_elements(lists) = Cardinality(here)

(* Entries are in their key's list, and the lists have no more slots beyond   *)
(* the main ones than they had entries at once.                               *)
AddrTypeOK ==
  /\ valid \in BOOLEAN
  /\ ur_addr_map_size(lists) <= MapSize * (ArraySize + MaxExtra)
  /\ \A h \in DOMAIN lists : \A i \in DOMAIN lists[h] :
       Used(lists[h][i]) => addr_map_index(lists[h][i].key) = h /\ lists[h][i].value \in Values

(* A list gets a slot more only when all it has are in use: addresses that    *)
(* come and go do not make it grow.                                           *)
GrowsWhenFull ==
  \A h \in DOMAIN lists : Len(lists'[h]) > Len(lists[h]) => \A i \in DOMAIN lists[h] : Used(lists[h][i])
=============================================================================
