------------------------------ MODULE StringMap ------------------------------
(* The string map of server/ns_turn_maps.c, which keeps the static users, the *)
(* realms and the origins: linked lists, new entries at the head.  The map    *)
(* owns the values it was given and releases one by del_value_func when it is *)
(* replaced or removed, or when the map is cleaned or freed.                  *)
EXTENDS Integers, Sequences, FiniteSets, SequencesExt

CONSTANTS
  Keys,          \* names, as the numbers string_hash gives
  Values,        \* blocks of memory
  NoValue,
  MapSize        \* STRING_MAP_SIZE, 1024 in the code

StringMapAssumption == Keys \subseteq Nat /\ NoValue \notin Values /\ MapSize \in Nat \ {0}

VARIABLES
  lists,         \* the lists' elements
  valid,         \* the map has its magic number
  res,           \* what the last operation did
  freed          \* how often del_value_func was called for each value

stringVars == <<lists, valid, res, freed>>

string_map_index(k) == k % MapSize
Elem(k, v) == [key |-> k, value |-> v]

EmptyLists == [h \in 0 .. MapSize - 1 |-> <<>>]

ur_string_map_create ==
  /\ lists = EmptyLists /\ valid = TRUE
  /\ res = [op |-> "init", value |-> NoValue]
  /\ freed = [v \in Values |-> 0]

ValuesIn(l) == [i \in DOMAIN l |-> l[i].value]
AllValues(ls) == FlattenSeq([b \in 1 .. MapSize |-> ValuesIn(ls[b - 1])])

(* What del_value_func was called for.                                        *)
Released(vs) == [v \in Values |-> freed[v] + Cardinality({i \in DOMAIN vs : vs[i] = v})]

string_list_get(l, k) == SelectInSeq(l, LAMBDA e : e.key = k)

string_list_add(l, k, v) == <<Elem(k, v)>> \o l

(* string_list_remove: every element with the key.                            *)
string_list_remove(l, k) == SelectSeq(l, LAMBDA e : e.key # k)

(* What putting v in the place of old releases.                               *)
replaced_value(old, v) == IF old = v THEN <<>> ELSE <<old>>

ur_string_map_get(k) ==
  LET l == lists[string_map_index(k)]
      i == string_list_get(l, k)
  IN IF i = 0 THEN NoValue ELSE l[i].value

ur_string_map_put(k, v) ==
  LET l == lists[string_map_index(k)]
      i == string_list_get(l, k)
  IN IF i # 0
     THEN /\ lists' = [lists EXCEPT ![string_map_index(k)][i].value = v]
          /\ freed' = Released(replaced_value(l[i].value, v))
     ELSE /\ lists' = [lists EXCEPT ![string_map_index(k)] = string_list_add(l, k, v)]
          /\ UNCHANGED freed

ur_string_map_del(k) ==
  LET l == lists[string_map_index(k)]
  IN /\ lists' = [lists EXCEPT ![string_map_index(k)] = string_list_remove(l, k)]
     /\ freed' = Released(ValuesIn(SelectSeq(l, LAMBDA e : e.key = k)))

(* string_list_free of every list.                                            *)
string_list_free == lists' = EmptyLists /\ freed' = Released(AllValues(lists))

ur_string_map_size == Len(AllValues(lists))

-----------------------------------------------------------------------------
Live(v) == v \in Range(AllValues(lists))

(* The caller hands over a block of its own, or the one the name has already. *)
Put(k, v) ==
  /\ valid
  /\ (~Live(v) /\ freed[v] = 0) \/ ur_string_map_get(k) = v
  /\ ur_string_map_put(k, v)
  /\ res' = [op |-> "put", value |-> v]
  /\ UNCHANGED valid

Get(k) == valid /\ res' = [op |-> "get", value |-> ur_string_map_get(k)] /\ UNCHANGED <<lists, valid, freed>>

Del(k) ==
  /\ valid
  /\ ur_string_map_del(k)
  /\ res' = [op |-> "del", value |-> ur_string_map_get(k)]
  /\ UNCHANGED valid

ur_string_map_clean ==
  /\ valid
  /\ string_list_free
  /\ res' = [op |-> "clean", value |-> NoValue]
  /\ UNCHANGED valid

(* The map is gone; what is asked of it afterwards is refused.                *)
ur_string_map_free ==
  /\ valid
  /\ string_list_free /\ valid' = FALSE
  /\ res' = [op |-> "clean", value |-> NoValue]

Refuse == ~valid /\ res' = [op |-> "refused", value |-> NoValue] /\ UNCHANGED <<lists, valid, freed>>

StringNext ==
  \/ Refuse \/ ur_string_map_clean \/ ur_string_map_free
  \/ \E k \in Keys : Get(k) \/ Del(k) \/ \E v \in Values : Put(k, v)
StringSpec == ur_string_map_create /\ [][StringNext]_stringVars

-----------------------------------------------------------------------------
(* The map a reader sees through ur_string_map_get.                           *)
Seen == [k \in Keys |-> ur_string_map_get(k)]
Abstract == INSTANCE MapSpec WITH map <- Seen

(* The lists together are a map: what put, get, del and clean return and      *)
(* leave is what the header promises.                                         *)
StringImplementsMap == Abstract!MapSpecification

(* A value is released once at most, never while the map still gives it out,  *)
(* and every value that was put and is not in the map any more was released.  *)
ReleasedOnce ==
  /\ \A v \in Values : freed[v] <= 1 /\ (Live(v) => freed[v] = 0)
  /\ res.op \in {"put", "get"} /\ res.value # NoValue => Live(res.value)

(* A value leaves the map only by being released.                             *)
NothingLost == \A v \in Values : Live(v) /\ ~Live(v)' => freed'[v] = freed[v] + 1

(* A name is in its list once; the size counts names.                         *)
StringTypeOK ==
  /\ valid \in BOOLEAN /\ freed \in [Values -> Nat]
  /\ \A h \in DOMAIN lists : \A i \in DOMAIN lists[h] :
       string_map_index(lists[h][i].key) = h /\ string_list_get(lists[h], lists[h][i].key) = i
  /\ ur_string_map_size = Cardinality({k \in Keys : Seen[k] # NoValue})
=============================================================================
