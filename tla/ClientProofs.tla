---------------------------- MODULE ClientProofs ----------------------------
(* The theorems about the client's call screen, the server that rings it and  *)
(* the manager of its calls, for every value of the constants.                *)
(*                                                                            *)
(* ScreenRight, for every number of members up to nine, every width of the    *)
(* screen and every number of waiting tasks: a stream is announced once, so   *)
(* its tile never takes the place of another; the list of the layout has each *)
(* tile once, at the place of its number; and what is said last about         *)
(* somebody who has left is that the tile goes.                               *)
(*                                                                            *)
(* UsersReached of the instant-messaging server and CallsKeptApart of the     *)
(* call manager follow.                                                       *)
EXTENDS GroupScreen, ImServer, CallManager, FiniteSetTheorems, SequenceTheorems, TLAPS

-----------------------------------------------------------------------------
(* The tiles of a group call for every screen width.                          *)

(* Rounding down commutes with what the layout adds up.                       *)
LEMMA Rounding ==
  ASSUME NEW w \in Nat
  PROVE  /\ w \div 2 \in Nat /\ w \div 3 \in Nat /\ w \div 4 \in Nat /\ w \div 6 \in Nat
         /\ 2 * (w \div 2) <= w /\ 3 * (w \div 3) <= w
         /\ w \div 4 + w \div 2 <= w
         /\ w \div 3 <= w \div 2
         /\ w \div 6 + w \div 3 <= w \div 2
         /\ w \div 2 + w \div 3 <= w
         /\ (2 * w) \div 3 \in Nat /\ 2 * (w \div 3) <= (2 * w) \div 3 /\ (2 * w) \div 3 + w \div 3 <= w
         /\ w \div 2 + w \div 3 <= w
  BY SMT

(* The places of one to nine tiles, from the conditions of getX and getY, and *)
(* that no two of them meet.                                                  *)
LEMMA TilesOne ==
  ASSUME NEW w \in Nat, NEW i \in 0..0, NEW j \in 0..0
  PROVE  Inside(Place(w, 1, i), w) /\ (i # j => Apart(Place(w, 1, i), Place(w, 1, j)))
<1> DEFINE at(a, b) == [x |-> a, y |-> b, side |-> w \div 2]
<1>1. i \in {0} /\ j \in {0}
  OBVIOUS
<1>2. /\ Place(w, 1, 0) = at(0, w \div 4)
  BY DEF Place, getX, getY, getWidth
<1>3. QED
  BY <1>1, <1>2, Rounding DEF Inside, Apart

LEMMA TilesTwo ==
  ASSUME NEW w \in Nat, NEW i \in 0..1, NEW j \in 0..1
  PROVE  Inside(Place(w, 2, i), w) /\ (i # j => Apart(Place(w, 2, i), Place(w, 2, j)))
<1> DEFINE at(a, b) == [x |-> a, y |-> b, side |-> w \div 2]
<1>1. i \in {0, 1} /\ j \in {0, 1}
  OBVIOUS
<1>2. /\ Place(w, 2, 0) = at(0, w \div 4) /\ Place(w, 2, 1) = at(w \div 2, w \div 4)
  BY DEF Place, getX, getY, getWidth
<1>3. QED
  BY <1>1, <1>2, Rounding DEF Inside, Apart

LEMMA TilesThree ==
  ASSUME NEW w \in Nat, NEW i \in 0..2, NEW j \in 0..2
  PROVE  Inside(Place(w, 3, i), w) /\ (i # j => Apart(Place(w, 3, i), Place(w, 3, j)))
<1> DEFINE at(a, b) == [x |-> a, y |-> b, side |-> w \div 2]
<1>1. i \in {0, 1, 2} /\ j \in {0, 1, 2}
  OBVIOUS
<1>2. /\ Place(w, 3, 0) = at(0, 0) /\ Place(w, 3, 1) = at(w \div 2, 0)
      /\ Place(w, 3, 2) = at(w \div 4, w \div 2)
  BY DEF Place, getX, getY, getWidth
<1>3. QED
  BY <1>1, <1>2, Rounding DEF Inside, Apart

LEMMA TilesFour ==
  ASSUME NEW w \in Nat, NEW i \in 0..3, NEW j \in 0..3
  PROVE  Inside(Place(w, 4, i), w) /\ (i # j => Apart(Place(w, 4, i), Place(w, 4, j)))
<1> DEFINE at(a, b) == [x |-> a, y |-> b, side |-> w \div 2]
<1>1. i \in {0, 1, 2, 3} /\ j \in {0, 1, 2, 3}
  OBVIOUS
<1>2. /\ Place(w, 4, 0) = at(0, 0) /\ Place(w, 4, 1) = at(w \div 2, 0)
      /\ Place(w, 4, 2) = at(0, w \div 2) /\ Place(w, 4, 3) = at(w \div 2, w \div 2)
  BY DEF Place, getX, getY, getWidth
<1>3. QED
  BY <1>1, <1>2, Rounding DEF Inside, Apart

LEMMA TilesFive ==
  ASSUME NEW w \in Nat, NEW i \in 0..4, NEW j \in 0..4
  PROVE  Inside(Place(w, 5, i), w) /\ (i # j => Apart(Place(w, 5, i), Place(w, 5, j)))
<1> DEFINE at(a, b) == [x |-> a, y |-> b, side |-> w \div 3]
<1>1. i \in {0, 1, 2, 3, 4} /\ j \in {0, 1, 2, 3, 4}
  OBVIOUS
<1>2. /\ Place(w, 5, 0) = at(0, w \div 2 - w \div 3) /\ Place(w, 5, 1) = at(w \div 3, w \div 2 - w \div 3)
      /\ Place(w, 5, 2) = at((2 * w) \div 3, w \div 2 - w \div 3) /\ Place(w, 5, 3) = at(w \div 6, w \div 2)
      /\ Place(w, 5, 4) = at(w \div 2, w \div 2)
  BY DEF Place, getX, getY, getWidth
<1>3. QED
  BY <1>1, <1>2, Rounding DEF Inside, Apart

LEMMA TilesSix ==
  ASSUME NEW w \in Nat, NEW i \in 0..5, NEW j \in 0..5
  PROVE  Inside(Place(w, 6, i), w) /\ (i # j => Apart(Place(w, 6, i), Place(w, 6, j)))
<1> DEFINE at(a, b) == [x |-> a, y |-> b, side |-> w \div 3]
<1>1. i \in {0, 1, 2, 3, 4, 5} /\ j \in {0, 1, 2, 3, 4, 5}
  OBVIOUS
<1>2. /\ Place(w, 6, 0) = at(0, w \div 2 - w \div 3) /\ Place(w, 6, 1) = at(w \div 3, w \div 2 - w \div 3)
      /\ Place(w, 6, 2) = at((2 * w) \div 3, w \div 2 - w \div 3) /\ Place(w, 6, 3) = at(0, w \div 2)
      /\ Place(w, 6, 4) = at(w \div 3, w \div 2) /\ Place(w, 6, 5) = at((2 * w) \div 3, w \div 2)
  BY DEF Place, getX, getY, getWidth
<1>3. QED
  BY <1>1, <1>2, Rounding DEF Inside, Apart

LEMMA TilesSeven ==
  ASSUME NEW w \in Nat, NEW i \in 0..6, NEW j \in 0..6
  PROVE  Inside(Place(w, 7, i), w) /\ (i # j => Apart(Place(w, 7, i), Place(w, 7, j)))
<1> DEFINE at(a, b) == [x |-> a, y |-> b, side |-> w \div 3]
<1>1. i \in {0, 1, 2, 3, 4, 5, 6} /\ j \in {0, 1, 2, 3, 4, 5, 6}
  OBVIOUS
<1>2. /\ Place(w, 7, 0) = at(0, 0) /\ Place(w, 7, 1) = at(w \div 3, 0)
      /\ Place(w, 7, 2) = at((2 * w) \div 3, 0) /\ Place(w, 7, 3) = at(0, w \div 3)
      /\ Place(w, 7, 4) = at(w \div 3, w \div 3) /\ Place(w, 7, 5) = at((2 * w) \div 3, w \div 3)
      /\ Place(w, 7, 6) = at(w \div 3, 2 * (w \div 3))
  BY DEF Place, getX, getY, getWidth
<1>3. QED
  BY <1>1, <1>2, Rounding DEF Inside, Apart

LEMMA TilesEight ==
  ASSUME NEW w \in Nat, NEW i \in 0..7, NEW j \in 0..7
  PROVE  Inside(Place(w, 8, i), w) /\ (i # j => Apart(Place(w, 8, i), Place(w, 8, j)))
<1> DEFINE at(a, b) == [x |-> a, y |-> b, side |-> w \div 3]
<1>1. i \in {0, 1, 2, 3, 4, 5, 6, 7} /\ j \in {0, 1, 2, 3, 4, 5, 6, 7}
  OBVIOUS
<1>2. /\ Place(w, 8, 0) = at(0, 0) /\ Place(w, 8, 1) = at(w \div 3, 0)
      /\ Place(w, 8, 2) = at((2 * w) \div 3, 0) /\ Place(w, 8, 3) = at(0, w \div 3)
      /\ Place(w, 8, 4) = at(w \div 3, w \div 3) /\ Place(w, 8, 5) = at((2 * w) \div 3, w \div 3)
      /\ Place(w, 8, 6) = at(w \div 6, 2 * (w \div 3)) /\ Place(w, 8, 7) = at(w \div 2, 2 * (w \div 3))
  BY DEF Place, getX, getY, getWidth
<1>3. QED
  BY <1>1, <1>2, Rounding DEF Inside, Apart

LEMMA TilesNine ==
  ASSUME NEW w \in Nat, NEW i \in 0..8, NEW j \in 0..8
  PROVE  Inside(Place(w, 9, i), w) /\ (i # j => Apart(Place(w, 9, i), Place(w, 9, j)))
<1> DEFINE at(a, b) == [x |-> a, y |-> b, side |-> w \div 3]
<1>1. i \in {0, 1, 2, 3, 4, 5, 6, 7, 8} /\ j \in {0, 1, 2, 3, 4, 5, 6, 7, 8}
  OBVIOUS
<1>2. /\ Place(w, 9, 0) = at(0, 0) /\ Place(w, 9, 1) = at(w \div 3, 0)
      /\ Place(w, 9, 2) = at((2 * w) \div 3, 0) /\ Place(w, 9, 3) = at(0, w \div 3)
      /\ Place(w, 9, 4) = at(w \div 3, w \div 3) /\ Place(w, 9, 5) = at((2 * w) \div 3, w \div 3)
      /\ Place(w, 9, 6) = at(0, 2 * (w \div 3)) /\ Place(w, 9, 7) = at(w \div 3, 2 * (w \div 3))
      /\ Place(w, 9, 8) = at((2 * w) \div 3, 2 * (w \div 3))
  BY DEF Place, getX, getY, getWidth
<1>3. Inside(Place(w, 9, i), w)
  BY <1>1, <1>2, Rounding DEF Inside
<1>4. ASSUME i # j PROVE Apart(Place(w, 9, i), Place(w, 9, j))
  <2>1. CASE i \in {0, 1, 2}
    BY <1>1, <1>2, <1>4, <2>1, Rounding DEF Apart
  <2>2. CASE i \in {3, 4, 5}
    BY <1>1, <1>2, <1>4, <2>2, Rounding DEF Apart
  <2>3. CASE i \in {6, 7, 8}
    BY <1>1, <1>2, <1>4, <2>3, Rounding DEF Apart
  <2>4. QED
    BY <1>1, <2>1, <2>2, <2>3
<1>5. QED
  BY <1>3, <1>4

(* WidthUtil: up to nine tiles lie apart and inside the view, for every width.*)
THEOREM PlacesApart ==
  ASSUME NEW w \in Nat, NEW size \in 1..9, NEW i \in 0..(size - 1), NEW j \in 0..(size - 1)
  PROVE  Inside(Place(w, size, i), w) /\ (i # j => Apart(Place(w, size, i), Place(w, size, j)))
<1>1. size \in {1, 2, 3, 4, 5, 6, 7, 8, 9}
  OBVIOUS
<1>2. QED
  BY <1>1, TilesOne, TilesTwo, TilesThree, TilesFour, TilesFive, TilesSix, TilesSeven, TilesEight, TilesNine

-----------------------------------------------------------------------------
(* The invariant.                                                             *)

Tasks == {"add", "remove"} \X Ids
Tile == [live : BOOLEAN, child : BOOLEAN, at : [x : Int, y : Int, side : Int]]

(* What every variable is; a screen that is open has its callback set.        *)
ScreenState ==
  /\ mScreenWidth \in Nat /\ viewCallback \in BOOLEAN
  /\ stage \in [Ids -> {"new", "added", "removed", "closed"}]
  /\ thread \in [Threads -> {<<>>} \cup Tasks]
  /\ posts \in Seq(Tasks)
  /\ videoViews \in [Ids -> Nat] /\ infos \in Seq(Ids) /\ tiles \in Seq(Tile)
  /\ screen \in {"open", "finished", "destroyed"} /\ crashed \in BOOLEAN
  /\ (screen = "open" => viewCallback)

(* A stream that is on its way to the screen has no tile yet and is on its    *)
(* way once: only its first announcement adds it, and the two threads         *)
(* announce different streams.                                                *)
AddedOnce ==
  /\ \A id \in Ids :
       stage[id] = "new" => /\ videoViews[id] = 0
                            /\ \A t \in Threads : thread[t] # <<"add", id>>
                            /\ \A i \in DOMAIN posts : posts[i] # <<"add", id>>
  /\ \A id \in Ids : /\ thread["executor"] = <<"add", id>> => id = 1
                     /\ thread["signalling"] = <<"add", id>> => id # 1
  /\ \A id \in Ids, t \in Threads :
       thread[t] = <<"add", id>> => videoViews[id] = 0 /\ \A i \in DOMAIN posts : posts[i] # <<"add", id>>
  /\ \A id \in Ids, i \in DOMAIN posts :
       posts[i] = <<"add", id>> => videoViews[id] = 0 /\ \A j \in DOMAIN posts : posts[j] = <<"add", id>> => i = j

(* The list of the layout has every tile in use once, at its place, and no    *)
(* other tile is held, or shown while the call goes on.                       *)
InOrder(w, open, views, ids, ts) ==
  /\ \A i, j \in DOMAIN ids : ids[i] = ids[j] => i = j
  /\ \A id \in Ids : views[id] # 0 => \E i \in DOMAIN ids : ids[i] = id
  /\ \A i \in DOMAIN ids : views[ids[i]] \in DOMAIN ts
  /\ \A i, j \in DOMAIN ids : views[ids[i]] = views[ids[j]] => i = j
  /\ \A i \in DOMAIN ids : ts[views[ids[i]]].at = Place(w, Len(ids), i - 1)
  /\ \A r \in DOMAIN ts : ts[r].live \/ (open /\ ts[r].child) => \E i \in DOMAIN ids : views[ids[i]] = r

(* The last thing said about somebody who has left is that the tile goes.     *)
Leaving(id) ==
  \/ thread["executor"] = <<"remove", id>>
  \/ \E i \in DOMAIN posts : posts[i] = <<"remove", id>> /\ \A j \in DOMAIN posts : j > i => posts[j] # <<"add", id>>
  \/ videoViews[id] = 0 /\ \A i \in DOMAIN posts : posts[i] # <<"add", id>>

LeftForGood ==
  \A id \in Ids :
    stage[id] = "closed" => /\ id # 1
                            /\ thread["signalling"] # <<"add", id>>
                            /\ screen = "open" => Leaving(id)

ScreenInv ==
  /\ ScreenState
  /\ AddedOnce
  /\ InOrder(mScreenWidth, screen = "open", videoViews, infos, tiles)
  /\ LeftForGood

-----------------------------------------------------------------------------
(* Lists and places.                                                          *)

(* A list without repetitions after one of its elements is taken out.         *)
LEMMA TakenOut ==
  ASSUME NEW S, NEW s \in Seq(S), NEW k \in DOMAIN s, \A i, j \in DOMAIN s : s[i] = s[j] => i = j
  PROVE  /\ RemoveFirst(s, s[k]) \in Seq(S)
         /\ Len(RemoveFirst(s, s[k])) = Len(s) - 1
         /\ \A i \in 1..(Len(s) - 1) : RemoveFirst(s, s[k])[i] = IF i < k THEN s[i] ELSE s[i + 1]
<1> DEFINE first == SubSeq(s, 1, k - 1)
           last == SubSeq(s, k + 1, Len(s))
<1>1. {i \in 1..Len(s) : s[i] = s[k]} = {k}
  OBVIOUS
<1>2. Min({k}) = k
  BY DEF Min
<1>3. SelectInSeq(s, LAMBDA v : v = s[k]) = k
  BY <1>1, <1>2 DEF SelectInSeq
<1>4. RemoveFirst(s, s[k]) = first \o last
  <2>1. \E i \in 1..Len(s) : s[i] = s[k]
    OBVIOUS
  <2>2. RemoveFirst(s, s[k]) = RemoveAt(s, SelectInSeq(s, LAMBDA v : v = s[k]))
    BY <2>1, Zenon DEF RemoveFirst
  <2>3. RemoveFirst(s, s[k]) = RemoveAt(s, k)
    BY <1>3, <2>2, Zenon
  <2>4. QED
    BY <2>3, Zenon DEF RemoveAt
<1>5. first \in Seq(S) /\ Len(first) = k - 1 /\ \A i \in 1..(k - 1) : first[i] = s[i]
  OBVIOUS
<1>6. last \in Seq(S) /\ Len(last) = Len(s) - k /\ \A i \in 1..(Len(s) - k) : last[i] = s[k + i]
  OBVIOUS
<1> HIDE DEF first, last
<1>7. /\ first \o last \in Seq(S) /\ Len(first \o last) = Len(s) - 1
      /\ \A i \in 1..(Len(s) - 1) : (first \o last)[i] = IF i < k THEN first[i] ELSE last[i - (k - 1)]
  BY <1>5, <1>6, ConcatProperties
<1>8. ASSUME NEW i \in 1..(Len(s) - 1) PROVE (first \o last)[i] = IF i < k THEN s[i] ELSE s[i + 1]
  <2>1. CASE i < k
    BY <1>5, <1>7, <2>1
  <2>2. CASE ~(i < k)
    <3>1. i - (k - 1) \in 1..(Len(s) - k) /\ k + (i - (k - 1)) = i + 1
      BY <2>2
    <3>2. last[i - (k - 1)] = s[i + 1]
      BY <1>6, <3>1
    <3>3. QED
      BY <1>7, <2>2, <3>2
  <2>3. QED
    BY <2>1, <2>2
<1>9. QED
  BY <1>4, <1>7, <1>8

(* A function of 1..n is a list of length n.                                  *)
LEMMA AsList ==
  ASSUME NEW S, NEW n \in Nat, NEW f \in [1..n -> S]
  PROVE  f \in Seq(S) /\ Len(f) = n
  OBVIOUS

(* A list stays as it is when what is taken out is not in it.                 *)
LEMMA NotTakenOut ==
  ASSUME NEW s, NEW e, ~ \E i \in 1..Len(s) : s[i] = e
  PROVE  RemoveFirst(s, e) = s
  BY DEF RemoveFirst

(* A place is three numbers.                                                  *)
LEMMA PlaceIsOne ==
  ASSUME NEW w \in Nat, NEW size \in Nat, NEW i \in Nat
  PROVE  Place(w, size, i) \in [x : Int, y : Int, side : Int]
<1>1. getWidth(w, size) \in Int
  BY Rounding DEF getWidth
<1>2. getY(w, size, i) \in Int
  <2>1. w \div 2 \in Int /\ w \div 3 \in Int /\ w \div 4 \in Int /\ i \div 3 \in Int
    BY Rounding
  <2>2. \A a, b \in Int : a * b \in Int
    OBVIOUS
  <2>3. (i \div 3) * (w \div 3) \in Int /\ w \div 2 - w \div 3 \in Int /\ 0 \in Int
    BY <2>1, <2>2
  <2>4. QED
    BY <2>1, <2>3, Zenon DEF getY
<1>3. getX(w, size, i) \in Int
  <2>1. w \div 2 \in Int /\ w \div 3 \in Int /\ w \div 4 \in Int /\ w \div 6 \in Int /\ 0 \in Int
    BY Rounding
  <2>2. i % 2 \in {0, 1} /\ i % 3 \in {0, 1, 2}
    OBVIOUS
  <2>3. ((i % 2) * w) \div 2 \in Int /\ ((i % 3) * w) \div 3 \in Int
    BY <2>2
  <2>4. QED
    BY <2>1, <2>3, Zenon DEF getX
<1>4. QED
  BY <1>1, <1>2, <1>3 DEF Place

(* The loop over infos: the tiles of the list get their places, all others    *)
(* keep theirs, and nothing else changes.                                     *)
LaidOut(views, ids, ts, new) ==
  /\ new \in Seq(Tile) /\ Len(new) = Len(ts) /\ DOMAIN new = DOMAIN ts
  /\ \A r \in DOMAIN ts : new[r].live = ts[r].live /\ new[r].child = ts[r].child
  /\ \A i \in DOMAIN ids : new[views[ids[i]]].at = Place(mScreenWidth, Len(ids), i - 1)

LEMMA LayoutPlaces ==
  ASSUME mScreenWidth \in Nat, NEW views \in [Ids -> Nat], NEW ids \in Seq(Ids), NEW ts \in Seq(Tile),
         \A i \in DOMAIN ids : views[ids[i]] \in DOMAIN ts,
         \A i, j \in DOMAIN ids : views[ids[i]] = views[ids[j]] => i = j
  PROVE  LaidOut(views, ids, ts, Layout(ts, views, ids))
<1> DEFINE new == Layout(ts, views, ids)
           number(r) == CHOOSE i \in DOMAIN ids : views[ids[i]] = r
           put(r) == [ts[r] EXCEPT !.at = Place(mScreenWidth, Len(ids), number(r) - 1)]
<1>1. new = [r \in DOMAIN ts |-> IF \E i \in DOMAIN ids : views[ids[i]] = r THEN put(r) ELSE ts[r]]
  BY DEF Layout
<1>2. \A r : (\E i \in DOMAIN ids : views[ids[i]] = r) => number(r) \in DOMAIN ids /\ views[ids[number(r)]] = r
  OBVIOUS
<1>3. \A i \in DOMAIN ids : number(views[ids[i]]) = i
  BY <1>2
<1> HIDE DEF number
<1>4. ASSUME NEW r \in DOMAIN ts, number(r) \in DOMAIN ids
      PROVE  put(r) \in Tile /\ put(r).live = ts[r].live /\ put(r).child = ts[r].child
             /\ put(r).at = Place(mScreenWidth, Len(ids), number(r) - 1)
  <2>1. ts[r] \in Tile
    BY ElementOfSeq
  <2>2. Place(mScreenWidth, Len(ids), number(r) - 1) \in [x : Int, y : Int, side : Int]
    <3>1. number(r) - 1 \in Nat /\ Len(ids) \in Nat
      BY <1>4
    <3>2. QED
      BY <3>1, PlaceIsOne
  <2> HIDE DEF Place
  <2>3. QED
    BY <2>1, <2>2 DEF Tile
<1> HIDE DEF new, put
<1>5. \A r \in DOMAIN ts : new[r] \in Tile /\ new[r].live = ts[r].live /\ new[r].child = ts[r].child
  BY <1>1, <1>2, <1>4, ElementOfSeq
<1>6. new \in Seq(Tile) /\ Len(new) = Len(ts) /\ DOMAIN new = DOMAIN ts
  <2>1. DOMAIN ts = 1..Len(ts) /\ Len(ts) \in Nat
    OBVIOUS
  <2>2. new \in [1..Len(ts) -> Tile]
    BY <1>1, <1>5, <2>1
  <2>3. QED
    BY <1>1, <2>1, <2>2
<1>7. ASSUME NEW i \in DOMAIN ids PROVE new[views[ids[i]]].at = Place(mScreenWidth, Len(ids), i - 1)
  <2>1. new[views[ids[i]]] = put(views[ids[i]])
    BY <1>1
  <2>2. QED
    BY <2>1, <1>3, <1>4
<1>8. QED
  BY <1>5, <1>6, <1>7 DEF LaidOut, new

(* addView: the new tile is the last of the list.                             *)
LEMMA AddInOrder ==
  ASSUME mScreenWidth \in Nat, NEW open \in BOOLEAN, NEW views \in [Ids -> Nat], NEW ids \in Seq(Ids), NEW ts \in Seq(Tile),
         InOrder(mScreenWidth, open, views, ids, ts), NEW id \in Ids, views[id] = 0,
         NEW views2, views2 = [views EXCEPT ![id] = Len(ts) + 1],
         NEW ids2, ids2 = Append(ids, id),
         NEW ts2, ts2 = Layout(Append(ts, NewTile), views2, ids2)
  PROVE  ts2 \in Seq(Tile) /\ InOrder(mScreenWidth, open, views2, ids2, ts2)
<1> DEFINE more == Append(ts, NewTile)
<1>1. /\ \A i, j \in DOMAIN ids : ids[i] = ids[j] => i = j
      /\ \A d \in Ids : views[d] # 0 => \E i \in DOMAIN ids : ids[i] = d
      /\ \A i \in DOMAIN ids : views[ids[i]] \in DOMAIN ts
      /\ \A i, j \in DOMAIN ids : views[ids[i]] = views[ids[j]] => i = j
      /\ \A r \in DOMAIN ts : ts[r].live \/ (open /\ ts[r].child) => \E i \in DOMAIN ids : views[ids[i]] = r
  BY DEF InOrder
<1>2. NewTile \in Tile
  BY DEF NewTile, Tile
<1>3. more \in Seq(Tile) /\ Len(more) = Len(ts) + 1 /\ \A r \in DOMAIN ts : more[r] = ts[r]
  BY <1>2
<1>4. ids2 \in Seq(Ids) /\ Len(ids2) = Len(ids) + 1 /\ ids2[Len(ids) + 1] = id /\ \A i \in DOMAIN ids : ids2[i] = ids[i]
  OBVIOUS
<1>5. views2 \in [Ids -> Nat] /\ views2[id] = Len(ts) + 1 /\ \A d \in Ids : d # id => views2[d] = views[d]
  OBVIOUS
<1>6. DOMAIN ts = 1..Len(ts) /\ DOMAIN ids = 1..Len(ids) /\ Len(ts) \in Nat /\ Len(ids) \in Nat
  OBVIOUS
<1> HIDE DEF more
<1>7. \A i \in DOMAIN ids : ids[i] \in Ids /\ ids[i] # id /\ views[ids[i]] \in 1..Len(ts)
  <2>1. \A i \in DOMAIN ids : ids[i] \in Ids /\ views[ids[i]] \in 1..Len(ts)
    BY <1>1, <1>6, ElementOfSeq
  <2>2. QED
    BY <2>1
<1>8. DOMAIN ids2 = 1..(Len(ids) + 1) /\ DOMAIN more = 1..(Len(ts) + 1)
  BY <1>3, <1>4, <1>6
<1>9. ASSUME NEW i \in DOMAIN ids2
      PROVE  \/ i \in DOMAIN ids /\ ids2[i] = ids[i] /\ views2[ids2[i]] = views[ids[i]] /\ views2[ids2[i]] \in 1..Len(ts) /\ ids2[i] # id
             \/ i = Len(ids) + 1 /\ ids2[i] = id /\ views2[ids2[i]] = Len(ts) + 1
  <2>1. CASE i \in DOMAIN ids
    BY <1>4, <1>5, <1>7, <2>1
  <2>2. CASE i = Len(ids) + 1
    BY <1>4, <1>5, <2>2
  <2>3. QED
    BY <1>6, <1>8, <2>1, <2>2
<1>10. \A i, j \in DOMAIN ids2 : ids2[i] = ids2[j] => i = j
  BY <1>1, <1>9
<1>11. \A i, j \in DOMAIN ids2 : views2[ids2[i]] = views2[ids2[j]] => i = j
  <2>1. ASSUME NEW i \in DOMAIN ids2, NEW j \in DOMAIN ids2, views2[ids2[i]] = views2[ids2[j]] PROVE i = j
    <3>1. CASE i \in DOMAIN ids /\ j \in DOMAIN ids
      BY <1>1, <1>4, <1>5, <1>7, <2>1, <3>1
    <3>2. CASE i = Len(ids) + 1 /\ j = Len(ids) + 1
      BY <3>2
    <3>3. CASE i \in DOMAIN ids /\ j = Len(ids) + 1
      <4>1. views2[ids2[i]] \in 1..Len(ts) /\ views2[ids2[j]] = Len(ts) + 1
        BY <1>4, <1>5, <1>7, <3>3
      <4>2. QED
        BY <1>6, <2>1, <4>1
    <3>4. CASE i = Len(ids) + 1 /\ j \in DOMAIN ids
      <4>1. views2[ids2[j]] \in 1..Len(ts) /\ views2[ids2[i]] = Len(ts) + 1
        BY <1>4, <1>5, <1>7, <3>4
      <4>2. QED
        BY <1>6, <2>1, <4>1
    <3>5. QED
      BY <1>6, <1>8, <3>1, <3>2, <3>3, <3>4
  <2>2. QED
    BY <2>1
<1>12. \A i \in DOMAIN ids2 : views2[ids2[i]] \in DOMAIN more
  BY <1>6, <1>8, <1>9
<1>13. LaidOut(views2, ids2, more, ts2)
  <2>1. LaidOut(views2, ids2, more, Layout(more, views2, ids2))
    <3>1. mScreenWidth \in Nat /\ views2 \in [Ids -> Nat] /\ ids2 \in Seq(Ids) /\ more \in Seq(Tile)
      BY <1>3, <1>4, <1>5
    <3>2. QED
      BY <1>11, <1>12, <3>1, LayoutPlaces, Zenon
  <2>2. QED
    BY <2>1, Zenon DEF more
<1>14. /\ ts2 \in Seq(Tile) /\ Len(ts2) = Len(ts) + 1 /\ DOMAIN ts2 = DOMAIN more
       /\ \A r \in DOMAIN more : ts2[r].live = more[r].live /\ ts2[r].child = more[r].child
       /\ \A i \in DOMAIN ids2 : ts2[views2[ids2[i]]].at = Place(mScreenWidth, Len(ids2), i - 1)
  BY <1>3, <1>13, Zenon DEF LaidOut
<1>15. \A d \in Ids : views2[d] # 0 => \E i \in DOMAIN ids2 : ids2[i] = d
  <2>1. ASSUME NEW d \in Ids, views2[d] # 0 PROVE \E i \in DOMAIN ids2 : ids2[i] = d
    <3>1. CASE d = id
      <4>1. Len(ids) + 1 \in DOMAIN ids2
        BY <1>6, <1>8
      <4>2. QED
        BY <1>4, <3>1, <4>1
    <3>2. CASE d # id
      <4>1. PICK i \in DOMAIN ids : ids[i] = d
        BY <1>1, <1>5, <2>1, <3>2
      <4>2. i \in DOMAIN ids2 /\ ids2[i] = d
        BY <1>4, <1>6, <1>8, <4>1
      <4>3. QED
        BY <4>2
    <3>3. QED
      BY <3>1, <3>2
  <2>2. QED
    BY <2>1
<1>16. ASSUME NEW r \in DOMAIN ts2, ts2[r].live \/ (open /\ ts2[r].child)
       PROVE  \E i \in DOMAIN ids2 : views2[ids2[i]] = r
  <2>1. CASE r = Len(ts) + 1
    <3>1. Len(ids) + 1 \in DOMAIN ids2 /\ views2[ids2[Len(ids) + 1]] = r
      BY <1>4, <1>5, <1>6, <1>8, <2>1
    <3>2. QED
      BY <3>1
  <2>2. CASE r \in DOMAIN ts
    <3>1. ts[r].live \/ (open /\ ts[r].child)
      BY <1>3, <1>14, <1>16, <2>2
    <3>2. PICK i \in DOMAIN ids : views[ids[i]] = r
      BY <1>1, <2>2, <3>1
    <3>3. i \in DOMAIN ids2 /\ views2[ids2[i]] = r
      BY <1>4, <1>5, <1>6, <1>7, <1>8, <3>2
    <3>4. QED
      BY <3>3
  <2>3. r \in 1..(Len(ts) + 1)
    BY <1>8, <1>14, <1>16
  <2>4. r = Len(ts) + 1 \/ r \in DOMAIN ts
    BY <1>6, <2>3
  <2>5. QED
    BY <2>1, <2>2, <2>4
<1>17. QED
  BY <1>10, <1>11, <1>12, <1>14, <1>15, <1>16, Zenon DEF InOrder

(* removeView takes the view of a tile out of the layout.                     *)
TakenDown(ts, r) == [s \in DOMAIN ts |-> IF s = r THEN [ts[s] EXCEPT !.child = FALSE] ELSE ts[s]]

ViewRemoved(id, views, ids, ts, views2, ids2, ts2) ==
  /\ views2 = [views EXCEPT ![id] = 0]
  /\ ids2 = RemoveFirst(ids, id)
  /\ ts2 = Layout(Release(TakenDown(ts, views[id]), {views[id]}), views2, ids2)

(* removeView: the tile leaves the list, the view and the renderers in use,   *)
(* and the tiles after it move up; nothing happens to a stream without one.   *)
LEMMA RemoveInOrder ==
  ASSUME mScreenWidth \in Nat, NEW open \in BOOLEAN, NEW views \in [Ids -> Nat], NEW ids \in Seq(Ids), NEW ts \in Seq(Tile),
         InOrder(mScreenWidth, open, views, ids, ts), NEW id \in Ids,
         NEW views2, NEW ids2, NEW ts2, ViewRemoved(id, views, ids, ts, views2, ids2, ts2)
  PROVE  ids2 \in Seq(Ids) /\ ts2 \in Seq(Tile) /\ InOrder(mScreenWidth, open, views2, ids2, ts2)
<1> DEFINE out == TakenDown(ts, views[id])
           less == Release(out, {views[id]})
<1>1. /\ \A i, j \in DOMAIN ids : ids[i] = ids[j] => i = j
      /\ \A d \in Ids : views[d] # 0 => \E i \in DOMAIN ids : ids[i] = d
      /\ \A i \in DOMAIN ids : views[ids[i]] \in DOMAIN ts
      /\ \A i, j \in DOMAIN ids : views[ids[i]] = views[ids[j]] => i = j
      /\ \A r \in DOMAIN ts : ts[r].live \/ (open /\ ts[r].child) => \E i \in DOMAIN ids : views[ids[i]] = r
  BY DEF InOrder
<1>2. DOMAIN ts = 1..Len(ts) /\ DOMAIN ids = 1..Len(ids) /\ Len(ts) \in Nat /\ Len(ids) \in Nat
  OBVIOUS
<1>3. \A i \in DOMAIN ids : ids[i] \in Ids /\ views[ids[i]] \in 1..Len(ts)
  BY <1>1, <1>2, ElementOfSeq
<1>4. views2 \in [Ids -> Nat] /\ views2[id] = 0 /\ \A d \in Ids : d # id => views2[d] = views[d]
  <2>1. views2 = [views EXCEPT ![id] = 0]
    BY DEF ViewRemoved
  <2>2. QED
    BY <2>1
<1>5. ids2 = RemoveFirst(ids, id)
  BY DEF ViewRemoved
<1>6. /\ less \in Seq(Tile) /\ Len(less) = Len(ts) /\ DOMAIN less = DOMAIN ts
      /\ \A r \in DOMAIN ts : IF r = views[id] THEN less[r].live = FALSE /\ less[r].child = FALSE ELSE less[r] = ts[r]
  <2>1. \A r \in DOMAIN ts : ts[r] \in Tile
    BY ElementOfSeq
  <2>2. DOMAIN out = DOMAIN ts /\ \A r \in DOMAIN ts : out[r] \in Tile /\ (r = views[id] => out[r].child = FALSE) /\ (r # views[id] => out[r] = ts[r])
    BY <2>1 DEF Tile, TakenDown
  <2>3. /\ DOMAIN less = DOMAIN ts
        /\ \A r \in DOMAIN ts : /\ r = views[id] => less[r] = [out[r] EXCEPT !.live = FALSE]
                                /\ r # views[id] => less[r] = ts[r]
    BY <2>2 DEF Release
  <2>4. less = [r \in DOMAIN ts |-> less[r]]
    BY <2>2 DEF Release
  <2> HIDE DEF out, less
  <2>5. \A r \in DOMAIN ts : r = views[id] => less[r] \in Tile /\ less[r].live = FALSE /\ less[r].child = FALSE
    <3>1. \A a \in Tile : [a EXCEPT !.live = FALSE] \in Tile /\ [a EXCEPT !.live = FALSE].live = FALSE /\ [a EXCEPT !.live = FALSE].child = a.child
      BY DEF Tile
    <3>2. ASSUME NEW r \in DOMAIN ts, r = views[id] PROVE less[r] \in Tile /\ less[r].live = FALSE /\ less[r].child = FALSE
      <4>1. PICK a : a = out[r]
        OBVIOUS
      <4>2. a \in Tile /\ a.child = FALSE /\ less[r] = [a EXCEPT !.live = FALSE]
        BY <2>2, <2>3, <3>2, <4>1
      <4>3. [a EXCEPT !.live = FALSE] \in Tile /\ [a EXCEPT !.live = FALSE].live = FALSE /\ [a EXCEPT !.live = FALSE].child = FALSE
        BY <3>1, <4>2
      <4>4. QED
        BY <4>2, <4>3, Zenon
    <3>3. QED
      BY <3>2
  <2>6. less \in [1..Len(ts) -> Tile]
    BY <1>2, <2>1, <2>3, <2>4, <2>5
  <2>7. less \in Seq(Tile) /\ Len(less) = Len(ts)
    BY <1>2, <2>6, AsList
  <2>8. QED
    BY <2>3, <2>5, <2>7
<1> HIDE DEF out, less
<1> DEFINE from(i) == IF views[id] = 0 \/ \A k \in DOMAIN ids : ids[k] = id => i < k THEN i ELSE i + 1
<1>7. /\ ids2 \in Seq(Ids) /\ DOMAIN ids2 = 1..Len(ids2) /\ Len(ids2) \in Nat
      /\ \A i \in DOMAIN ids2 : from(i) \in DOMAIN ids /\ ids2[i] = ids[from(i)] /\ ids2[i] # id
      /\ \A i, j \in DOMAIN ids2 : from(i) = from(j) => i = j
      /\ \A j \in DOMAIN ids : ids[j] # id => \E i \in DOMAIN ids2 : from(i) = j
  <2>1. CASE views[id] = 0
    <3>1. \A i \in DOMAIN ids : ids[i] # id
      BY <1>3, <2>1
    <3>2. ids2 = ids
      BY <1>5, <1>2, <3>1, NotTakenOut
    <3>3. \A i \in DOMAIN ids : from(i) = i
      BY <2>1
    <3> HIDE DEF from
    <3>4. QED
      BY <1>2, <1>3, <3>1, <3>2, <3>3
  <2>2. CASE views[id] # 0
    <3>1. PICK k \in DOMAIN ids : ids[k] = id
      BY <1>1, <2>2
    <3>2. \A i \in DOMAIN ids : ids[i] = id <=> i = k
      BY <1>1, <3>1
    <3>3. \A i : from(i) = IF i < k THEN i ELSE i + 1
      <4>1. \A i : (\A j \in DOMAIN ids : ids[j] = id => i < j) <=> i < k
        BY <3>2, Zenon
      <4>2. QED
        BY <2>2, <4>1, Zenon
    <3>4. ids2 \in Seq(Ids) /\ Len(ids2) = Len(ids) - 1 /\ \A i \in 1..(Len(ids) - 1) : ids2[i] = IF i < k THEN ids[i] ELSE ids[i + 1]
      BY <1>5, <1>1, <3>1, TakenOut, SMTT(20)
    <3> HIDE DEF from
    <3>5. k \in 1..Len(ids)
      BY <1>2
    <3>6. DOMAIN ids2 = 1..(Len(ids) - 1) /\ Len(ids2) \in Nat
      BY <1>2, <3>4, <3>5
    <3>7. ASSUME NEW i \in DOMAIN ids2 PROVE from(i) \in DOMAIN ids /\ ids2[i] = ids[from(i)] /\ ids2[i] # id
      <4>1. i \in 1..(Len(ids) - 1)
        BY <3>6
      <4>2. from(i) \in DOMAIN ids /\ from(i) # k
        <5>1. from(i) = IF i < k THEN i ELSE i + 1
          BY <3>3, Zenon
        <5>2. CASE i < k
          BY <1>2, <3>5, <4>1, <5>1, <5>2
        <5>3. CASE ~(i < k)
          BY <1>2, <3>5, <4>1, <5>1, <5>3
        <5>4. QED
          BY <5>2, <5>3
      <4>3. ids2[i] = ids[from(i)]
        BY <3>3, <3>4, <4>1
      <4>4. QED
        BY <3>2, <4>2, <4>3
    <3>8. ASSUME NEW i \in DOMAIN ids2, NEW j \in DOMAIN ids2, from(i) = from(j) PROVE i = j
      <4>1. /\ i \in Nat /\ j \in Nat /\ k \in Nat
            /\ (IF i < k THEN i ELSE i + 1) = IF j < k THEN j ELSE j + 1
        BY <1>2, <3>3, <3>5, <3>6, <3>8, SMTT(20)
      <4>2. QED
        BY <4>1
    <3>9. ASSUME NEW j \in DOMAIN ids, ids[j] # id PROVE \E i \in DOMAIN ids2 : from(i) = j
      <4>1. j # k /\ j \in 1..Len(ids)
        BY <1>2, <3>1, <3>9
      <4>2. CASE j < k
        BY <1>2, <3>3, <3>5, <3>6, <4>1, <4>2
      <4>3. CASE j > k
        <5>1. j - 1 \in DOMAIN ids2 /\ from(j - 1) = j
          BY <1>2, <3>3, <3>5, <3>6, <4>1, <4>3
        <5>2. QED
          BY <5>1
      <4>4. QED
        BY <1>2, <3>5, <4>1, <4>2, <4>3
    <3>10. QED
      BY <3>4, <3>6, <3>7, <3>8, <3>9
  <2>3. QED
    BY <2>1, <2>2
<1> HIDE DEF from
<1>8. ASSUME NEW i \in DOMAIN ids2
      PROVE  /\ ids2[i] \in Ids /\ ids2[i] # id /\ views2[ids2[i]] = views[ids[from(i)]]
             /\ from(i) \in DOMAIN ids /\ views2[ids2[i]] \in DOMAIN less
  <2>1. from(i) \in DOMAIN ids /\ ids2[i] = ids[from(i)] /\ ids2[i] # id
    BY <1>7
  <2>2. ids2[i] \in Ids /\ views[ids2[i]] \in DOMAIN ts
    BY <1>1, <1>3, <2>1
  <2>3. QED
    BY <1>4, <1>6, <2>1, <2>2
<1>9. \A i, j \in DOMAIN ids2 : views2[ids2[i]] = views2[ids2[j]] => i = j
  BY <1>1, <1>7, <1>8
<1>10. \A i, j \in DOMAIN ids2 : ids2[i] = ids2[j] => i = j
  BY <1>1, <1>7
<1>11. LaidOut(views2, ids2, less, ts2)
  <2>1. LaidOut(views2, ids2, less, Layout(less, views2, ids2))
    BY <1>4, <1>6, <1>7, <1>8, <1>9, LayoutPlaces
  <2>2. QED
    BY <2>1, Zenon DEF less, out, ViewRemoved
<1>12. /\ ts2 \in Seq(Tile) /\ DOMAIN ts2 = DOMAIN ts
       /\ \A r \in DOMAIN ts : ts2[r].live = less[r].live /\ ts2[r].child = less[r].child
       /\ \A i \in DOMAIN ids2 : ts2[views2[ids2[i]]].at = Place(mScreenWidth, Len(ids2), i - 1)
  BY <1>6, <1>11, Zenon DEF LaidOut
<1>13. \A i \in DOMAIN ids2 : views2[ids2[i]] \in DOMAIN ts2
  BY <1>6, <1>8, <1>12, Zenon
<1>14. ASSUME NEW d \in Ids, views2[d] # 0 PROVE \E i \in DOMAIN ids2 : ids2[i] = d
  <2>1. d # id /\ views[d] # 0
    BY <1>4, <1>14
  <2>2. PICK j \in DOMAIN ids : ids[j] = d
    BY <1>1, <2>1
  <2>3. PICK i \in DOMAIN ids2 : from(i) = j
    BY <1>7, <2>1, <2>2
  <2>4. QED
    BY <1>7, <2>2, <2>3
<1>15. ASSUME NEW r \in DOMAIN ts2, ts2[r].live \/ (open /\ ts2[r].child)
       PROVE  \E i \in DOMAIN ids2 : views2[ids2[i]] = r
  <2>1. r \in DOMAIN ts /\ (less[r].live \/ (open /\ less[r].child))
    BY <1>12, <1>15
  <2>2. r # views[id] /\ less[r] = ts[r]
    BY <1>6, <2>1
  <2>3. PICK j \in DOMAIN ids : views[ids[j]] = r
    BY <1>1, <2>1, <2>2
  <2>4. ids[j] # id
    BY <2>2, <2>3
  <2>5. PICK i \in DOMAIN ids2 : from(i) = j
    BY <1>7, <2>4
  <2>6. QED
    BY <1>8, <2>3, <2>5
<1>16. InOrder(mScreenWidth, open, views2, ids2, ts2)
  BY <1>9, <1>10, <1>12, <1>13, <1>14, <1>15, Zenon DEF InOrder
<1>17. QED
  BY <1>7, <1>12, <1>16

-----------------------------------------------------------------------------
(* Every step keeps the invariant.                                            *)

(* A task is a call that can be made, and not the absence of one.             *)
LEMMA TaskIsOne ==
  ASSUME NEW op \in {"add", "remove"}, NEW id \in Ids
  PROVE  <<op, id>> \in Tasks /\ <<op, id>> # <<>>
  BY DEF Tasks

(* The empty screen.                                                          *)
LEMMA ScreenBegins ==
  ASSUME GroupAssumption, ScreenInit
  PROVE  ScreenInv
<1> USE DEF ScreenInit, GroupAssumption
<1>1. ScreenState
  <2>1. thread \in [Threads -> {<<>>} \cup Tasks]
    BY Zenon
  <2>2. posts \in Seq(Tasks) /\ infos \in Seq(Ids) /\ tiles \in Seq(Tile)
    BY EmptySeq
  <2>3. stage \in [Ids -> {"new", "added", "removed", "closed"}] /\ videoViews \in [Ids -> Nat]
    OBVIOUS
  <2>4. QED
    BY <2>1, <2>2, <2>3 DEF ScreenState
<1>2. AddedOnce
  BY DEF AddedOnce, Ids, Threads
<1>3. InOrder(mScreenWidth, screen = "open", videoViews, infos, tiles)
  BY DEF InOrder, Ids
<1>4. LeftForGood
  BY DEF LeftForGood
<1>5. QED
  BY <1>1, <1>2, <1>3, <1>4 DEF ScreenInv

(* The announcement of a stream that is new: by the executor for the local    *)
(* stream, by the signalling thread for those of the others.                  *)
LEMMA KeptByAdd ==
  ASSUME GroupAssumption, ScreenInv, NEW t \in Threads, NEW id \in Ids, stage[id] = "new",
         t = "executor" <=> id = 1, Announce(t, id, "add", "added")
  PROVE  ScreenInv'
<1> USE DEF ScreenInv
<1>1. PICK new : new = <<"add", id>> /\ new \in Tasks
  BY TaskIsOne, Zenon
<1>2. /\ stage' = [stage EXCEPT ![id] = "added"] /\ thread[t] = <<>>
      /\ thread' = IF viewCallback THEN [thread EXCEPT ![t] = new] ELSE thread
      /\ UNCHANGED <<mScreenWidth, viewCallback, posts, videoViews, infos, tiles, screen, crashed>>
  BY <1>1 DEF Announce
<1>3. ScreenState'
  BY <1>1, <1>2 DEF ScreenState
<1>4. \A u \in Threads : thread'[u] = thread[u] \/ (u = t /\ thread'[u] = new)
  BY <1>2 DEF ScreenState
<1>5. \A u \in Threads : u # t => thread'[u] = thread[u]
  BY <1>2 DEF ScreenState
<1>6. \A d \in Ids : (d # id => stage'[d] = stage[d]) /\ stage'[id] = "added"
  BY <1>2 DEF ScreenState
<1>7. AddedOnce'
  BY <1>1, <1>2, <1>4, <1>6 DEF AddedOnce, Threads
<1>8. InOrder(mScreenWidth, screen = "open", videoViews, infos, tiles)'
  BY <1>2
<1>9. LeftForGood'
  <2>1. ASSUME NEW d \in Ids, stage'[d] = "closed"
        PROVE  d # 1 /\ thread'["signalling"] # <<"add", d>> /\ (screen' = "open" => Leaving(d)')
    <3>1. d # id /\ stage[d] = "closed"
      BY <1>6, <2>1
    <3>2. d # 1 /\ thread["signalling"] # <<"add", d>> /\ (screen = "open" => Leaving(d))
      BY <3>1 DEF LeftForGood
    <3>3. thread'["signalling"] # <<"add", d>>
      BY <1>1, <1>4, <3>1, <3>2 DEF Threads
    <3>4. thread["executor"] = <<"remove", d>> => thread'["executor"] = <<"remove", d>>
      BY <1>2, <1>5, TaskIsOne, Zenon DEF Threads
    <3>5. screen' = "open" => Leaving(d)'
      BY <1>2, <3>2, <3>4 DEF Leaving
    <3>6. QED
      BY <3>2, <3>3, <3>5
  <2>2. QED
    BY <2>1 DEF LeftForGood
<1>10. QED
  BY <1>3, <1>7, <1>8, <1>9

(* The announcement that a stream is gone, or that a connection is closed;    *)
(* the second is never overtaken, as the observer has had its last call.      *)
LEMMA KeptByRemove ==
  ASSUME GroupAssumption, ScreenInv, NEW t \in Threads, NEW id \in Ids, NEW new \in {"removed", "closed"},
         stage[id] # "closed", new = "closed" => t = "executor" /\ id # 1 /\ thread["signalling"] = <<>>,
         new = "removed" => t = "signalling", Announce(t, id, "remove", new)
  PROVE  ScreenInv'
<1> USE DEF ScreenInv
<1>1. PICK gone : gone = <<"remove", id>> /\ gone \in Tasks
  BY TaskIsOne, Zenon
<1>2. /\ stage' = [stage EXCEPT ![id] = new] /\ thread[t] = <<>>
      /\ thread' = IF viewCallback THEN [thread EXCEPT ![t] = gone] ELSE thread
      /\ UNCHANGED <<mScreenWidth, viewCallback, posts, videoViews, infos, tiles, screen, crashed>>
  BY <1>1 DEF Announce
<1>3. ScreenState'
  BY <1>1, <1>2 DEF ScreenState
<1>4. \A u \in Threads : thread'[u] = thread[u] \/ (u = t /\ thread'[u] = gone)
  BY <1>2 DEF ScreenState
<1>5. \A u \in Threads : u # t => thread'[u] = thread[u]
  BY <1>2 DEF ScreenState
<1>6. \A d \in Ids : (d # id => stage'[d] = stage[d]) /\ stage'[id] = new
  BY <1>2 DEF ScreenState
<1>7. \A u \in Threads, d \in Ids : thread'[u] = <<"add", d>> => thread[u] = <<"add", d>>
  BY <1>1, <1>4
<1>8. AddedOnce'
  BY <1>2, <1>6, <1>7 DEF AddedOnce, Threads
<1>9. InOrder(mScreenWidth, screen = "open", videoViews, infos, tiles)'
  BY <1>2
<1>10. LeftForGood'
  <2>1. ASSUME NEW d \in Ids, stage'[d] = "closed"
        PROVE  d # 1 /\ thread'["signalling"] # <<"add", d>> /\ (screen' = "open" => Leaving(d)')
    <3>1. CASE d = id
      <4>1. new = "closed"
        BY <1>6, <2>1, <3>1
      <4>2. d # 1 /\ thread'["signalling"] # <<"add", d>>
        BY <1>4, <1>7, <3>1, <4>1 DEF Threads
      <4>3. screen' = "open" => thread'["executor"] = <<"remove", d>>
        BY <1>1, <1>2, <3>1, <4>1 DEF ScreenState, Threads
      <4>4. QED
        BY <4>2, <4>3 DEF Leaving
    <3>2. CASE d # id
      <4>1. stage[d] = "closed"
        BY <1>6, <2>1, <3>2
      <4>2. d # 1 /\ thread["signalling"] # <<"add", d>> /\ (screen = "open" => Leaving(d))
        BY <4>1 DEF LeftForGood
      <4>3. thread'["signalling"] # <<"add", d>>
        BY <1>7, <4>2 DEF Threads
      <4>4. thread["executor"] = <<"remove", d>> => thread'["executor"] = <<"remove", d>>
        BY <1>2, <1>5, TaskIsOne, Zenon DEF Threads
      <4>5. screen' = "open" => Leaving(d)'
        BY <1>2, <4>2, <4>4 DEF Leaving
      <4>6. QED
        BY <4>2, <4>3, <4>5
    <3>3. QED
      BY <3>1, <3>2
  <2>2. QED
    BY <2>1 DEF LeftForGood
<1>11. QED
  BY <1>3, <1>8, <1>9, <1>10

(* The use of viewCallback: the call becomes a task.                          *)
LEMMA KeptByCall ==
  ASSUME GroupAssumption, ScreenInv, NEW t \in Threads, Call(t)
  PROVE  ScreenInv'
<1> USE DEF ScreenInv
<1>1. CASE UNCHANGED <<posts, thread>> /\ ~viewCallback /\ crashed' = TRUE
  <2>1. UNCHANGED <<mScreenWidth, viewCallback, stage, posts, thread, videoViews, infos, tiles, screen>>
    BY <1>1 DEF Call
  <2>2. ScreenState'
    BY <1>1, <2>1 DEF ScreenState
  <2>3. AddedOnce' /\ InOrder(mScreenWidth, screen = "open", videoViews, infos, tiles)'
    BY <2>1 DEF AddedOnce
  <2>4. LeftForGood'
    BY <2>1 DEF LeftForGood, Leaving
  <2>5. QED
    BY <2>2, <2>3, <2>4
<1>2. CASE posts' = Append(posts, thread[t]) /\ thread' = [thread EXCEPT ![t] = <<>>] /\ UNCHANGED crashed
  <2>1. UNCHANGED <<mScreenWidth, viewCallback, stage, videoViews, infos, tiles, screen, crashed>>
    BY <1>2 DEF Call
  <2>2. PICK x : x = thread[t] /\ x \in Tasks
    BY DEF ScreenState, Call
  <2>3. thread' \in [Threads -> {<<>>} \cup Tasks] /\ thread'[t] = <<>> /\ \A u \in Threads : u # t => thread'[u] = thread[u]
    BY <1>2 DEF ScreenState
  <2>4. posts \in Seq(Tasks) /\ posts' = Append(posts, x)
    BY <1>2, <2>2 DEF ScreenState
  <2>5. /\ posts' \in Seq(Tasks) /\ DOMAIN posts = 1..Len(posts) /\ DOMAIN posts' = 1..(Len(posts) + 1) /\ Len(posts) \in Nat
        /\ posts'[Len(posts) + 1] = x /\ \A i \in DOMAIN posts : posts'[i] = posts[i]
    BY <2>2, <2>4
  <2>6. ScreenState'
    BY <2>1, <2>3, <2>5 DEF ScreenState
  <2>7. \A i \in DOMAIN posts' : i \in DOMAIN posts \/ i = Len(posts) + 1
    BY <2>5
  <2>8. \A u \in Threads, d \in Ids, op \in {"add", "remove"} : thread'[u] = <<op, d>> => u # t /\ thread[u] = <<op, d>>
    BY <2>3, TaskIsOne, Zenon
  <2>9. ASSUME NEW d \in Ids, x = <<"add", d>>
        PROVE  /\ stage[d] # "new" /\ videoViews[d] = 0
               /\ \A i \in DOMAIN posts : posts[i] # <<"add", d>>
               /\ \A u \in Threads : thread'[u] # <<"add", d>>
    <3>1. thread[t] = <<"add", d>>
      BY <2>2, <2>9
    <3>2. /\ stage[d] # "new" /\ videoViews[d] = 0
          /\ \A i \in DOMAIN posts : posts[i] # <<"add", d>>
      BY <3>1 DEF AddedOnce
    <3>3. \A u \in Threads : thread[u] = <<"add", d>> => u = t
      BY <3>1 DEF AddedOnce, Threads
    <3>4. QED
      BY <2>8, <3>2, <3>3, Zenon
  <2>10. AddedOnce'
    <3>1. ASSUME NEW d \in Ids, stage'[d] = "new"
          PROVE  videoViews'[d] = 0 /\ (\A u \in Threads : thread'[u] # <<"add", d>>) /\ \A i \in DOMAIN posts' : posts'[i] # <<"add", d>>
      <4>1. stage[d] = "new" /\ videoViews[d] = 0 /\ (\A u \in Threads : thread[u] # <<"add", d>>) /\ \A i \in DOMAIN posts : posts[i] # <<"add", d>>
        BY <2>1, <3>1 DEF AddedOnce
      <4>2. \A u \in Threads : thread'[u] # <<"add", d>>
        BY <2>8, <4>1, Zenon
      <4>3. \A i \in DOMAIN posts' : posts'[i] # <<"add", d>>
        BY <2>5, <2>7, <2>9, <4>1, Zenon
      <4>4. QED
        BY <2>1, <4>1, <4>2, <4>3
    <3>2. \A d \in Ids : /\ thread'["executor"] = <<"add", d>> => d = 1
                         /\ thread'["signalling"] = <<"add", d>> => d # 1
      <4>1. "executor" \in Threads /\ "signalling" \in Threads
        BY DEF Threads
      <4>2. QED
        BY <2>8, <4>1, Zenon DEF AddedOnce
    <3>3. ASSUME NEW d \in Ids, NEW u \in Threads, thread'[u] = <<"add", d>>
          PROVE  videoViews'[d] = 0 /\ \A i \in DOMAIN posts' : posts'[i] # <<"add", d>>
      <4>1. thread[u] = <<"add", d>>
        BY <2>8, <3>3, Zenon
      <4>2. videoViews[d] = 0 /\ \A i \in DOMAIN posts : posts[i] # <<"add", d>>
        BY <4>1, Zenon DEF AddedOnce
      <4>3. x # <<"add", d>>
        BY <2>9, <3>3
      <4>4. QED
        BY <2>1, <2>5, <2>7, <4>2, <4>3, Zenon
    <3>4. ASSUME NEW d \in Ids, NEW i \in DOMAIN posts', posts'[i] = <<"add", d>>
          PROVE  videoViews'[d] = 0 /\ \A j \in DOMAIN posts' : posts'[j] = <<"add", d>> => i = j
      <4>1. CASE x = <<"add", d>>
        BY <2>1, <2>5, <2>7, <2>9, <3>4, <4>1, Zenon
      <4>2. CASE x # <<"add", d>>
        <5>1. i \in DOMAIN posts /\ posts[i] = <<"add", d>>
          BY <2>5, <2>7, <3>4, <4>2, Zenon
        <5>2. videoViews[d] = 0 /\ \A j \in DOMAIN posts : posts[j] = <<"add", d>> => i = j
          BY <5>1, Zenon DEF AddedOnce
        <5>3. QED
          BY <2>1, <2>5, <2>7, <4>2, <5>2, Zenon
      <4>3. QED
        BY <4>1, <4>2
    <3>5. QED
      BY <3>1, <3>2, <3>3, <3>4, Zenon DEF AddedOnce
  <2>11. InOrder(mScreenWidth, screen = "open", videoViews, infos, tiles)'
    BY <2>1
  <2>12. LeftForGood'
    <3>1. ASSUME NEW d \in Ids, stage'[d] = "closed"
          PROVE  d # 1 /\ thread'["signalling"] # <<"add", d>> /\ (screen' = "open" => Leaving(d)')
      <4>1. d # 1 /\ thread["signalling"] # <<"add", d>> /\ (screen = "open" => Leaving(d))
        BY <2>1, <3>1 DEF LeftForGood
      <4>2. thread'["signalling"] # <<"add", d>>
        BY <2>8, <4>1 DEF Threads
      <4>3. x # <<"add", d>>
        BY <2>2, <4>1 DEF AddedOnce, Threads
      <4>4. ASSUME screen = "open" PROVE Leaving(d)'
        <5>1. CASE thread["executor"] = <<"remove", d>>
          <6>1. CASE t = "executor"
            <7>1. x = <<"remove", d>>
              BY <2>2, <5>1, <6>1
            <7>2. Len(posts) + 1 \in DOMAIN posts' /\ \A j \in DOMAIN posts' : ~(j > Len(posts) + 1)
              BY <2>5
            <7>3. QED
              BY <2>5, <7>1, <7>2 DEF Leaving
          <6>2. CASE t # "executor"
            BY <2>3, <5>1, <6>2 DEF Leaving, Threads
          <6>3. QED
            BY <6>1, <6>2
        <5>2. CASE \E i \in DOMAIN posts : posts[i] = <<"remove", d>> /\ \A j \in DOMAIN posts : j > i => posts[j] # <<"add", d>>
          <6>1. PICK i \in DOMAIN posts : posts[i] = <<"remove", d>> /\ \A j \in DOMAIN posts : j > i => posts[j] # <<"add", d>>
            BY <5>2
          <6>2. i \in DOMAIN posts' /\ posts'[i] = <<"remove", d>>
            BY <2>5, <6>1
          <6>3. \A j \in DOMAIN posts' : j > i => posts'[j] # <<"add", d>>
            BY <2>5, <2>7, <4>3, <6>1, Zenon
          <6>4. QED
            BY <6>2, <6>3 DEF Leaving
        <5>3. CASE videoViews[d] = 0 /\ \A i \in DOMAIN posts : posts[i] # <<"add", d>>
          <6>1. \A i \in DOMAIN posts' : posts'[i] # <<"add", d>>
            BY <2>5, <2>7, <4>3, <5>3, Zenon
          <6>2. QED
            BY <2>1, <5>3, <6>1 DEF Leaving
        <5>4. QED
          BY <4>1, <4>4, <5>1, <5>2, <5>3 DEF Leaving
      <4>5. QED
        BY <2>1, <4>1, <4>2, <4>4
    <3>2. QED
      BY <3>1 DEF LeftForGood
  <2>13. QED
    BY <2>6, <2>10, <2>11, <2>12
<1>3. QED
  BY <1>1, <1>2 DEF Call

(* The main thread takes the first task: what the others say is as before.    *)
LEMMA FirstTaken ==
  ASSUME posts \in Seq(Tasks), posts # <<>>, posts' = Tail(posts)
  PROVE  /\ Head(posts) \in Tasks /\ Head(posts) = posts[1] /\ 1 \in DOMAIN posts
         /\ posts' \in Seq(Tasks) /\ DOMAIN posts \subseteq Nat /\ DOMAIN posts' \subseteq Nat
         /\ \A i \in DOMAIN posts' : i + 1 \in DOMAIN posts /\ posts'[i] = posts[i + 1] /\ i + 1 # 1
         /\ \A i \in DOMAIN posts : i # 1 => i - 1 \in DOMAIN posts' /\ posts'[i - 1] = posts[i]
  OBVIOUS

(* A task to add a tile: it is the only one for its stream.                   *)
LEMMA KeptByAddView ==
  ASSUME GroupAssumption, ScreenInv, RunPost, Head(posts)[1] = "add"
  PROVE  ScreenInv'
<1> USE DEF ScreenInv
<1>1. PICK id \in Ids : Head(posts) = <<"add", id>>
  <2>1. Head(posts) \in Tasks
    BY FirstTaken DEF RunPost, ScreenState
  <2>2. QED
    BY <2>1 DEF Tasks
<1>2. /\ posts \in Seq(Tasks) /\ posts # <<>> /\ posts' = Tail(posts)
      /\ videoViews' = [videoViews EXCEPT ![id] = Len(tiles) + 1]
      /\ infos' = Append(infos, id)
      /\ tiles' = Layout(Append(tiles, NewTile), videoViews', infos')
      /\ UNCHANGED <<mScreenWidth, viewCallback, stage, thread, screen, crashed>>
  BY <1>1 DEF RunPost, addView, ScreenState
<1>3. /\ posts[1] = <<"add", id>> /\ 1 \in DOMAIN posts
      /\ posts' \in Seq(Tasks) /\ DOMAIN posts \subseteq Nat /\ DOMAIN posts' \subseteq Nat
      /\ \A i \in DOMAIN posts' : i + 1 \in DOMAIN posts /\ posts'[i] = posts[i + 1] /\ i + 1 # 1
      /\ \A i \in DOMAIN posts : i # 1 => i - 1 \in DOMAIN posts' /\ posts'[i - 1] = posts[i]
  BY <1>1, <1>2, FirstTaken
<1>4. /\ stage[id] # "new" /\ videoViews[id] = 0 /\ (\A u \in Threads : thread[u] # <<"add", id>>)
      /\ \A j \in DOMAIN posts : posts[j] = <<"add", id>> => 1 = j
  BY <1>3, Zenon DEF AddedOnce
<1>5. \A i \in DOMAIN posts' : posts'[i] # <<"add", id>>
  BY <1>3, <1>4
<1>6. /\ mScreenWidth \in Nat /\ videoViews \in [Ids -> Nat] /\ infos \in Seq(Ids) /\ tiles \in Seq(Tile)
      /\ (screen = "open") \in BOOLEAN
  BY DEF ScreenState
<1>7. tiles' \in Seq(Tile) /\ InOrder(mScreenWidth, screen = "open", videoViews', infos', tiles')
  BY <1>2, <1>4, <1>6, AddInOrder, Zenon
<1>8. videoViews' \in [Ids -> Nat] /\ \A d \in Ids : d # id => videoViews'[d] = videoViews[d]
  BY <1>2, <1>6
<1>9. ScreenState'
  <2>1. infos' \in Seq(Ids)
    BY <1>2, <1>6
  <2>2. QED
    BY <1>2, <1>3, <1>7, <1>8, <2>1 DEF ScreenState
<1>10. AddedOnce'
  <2>1. ASSUME NEW d \in Ids, d # id
        PROVE  /\ stage'[d] = stage[d] /\ videoViews'[d] = videoViews[d]
               /\ (\A i \in DOMAIN posts : posts[i] # <<"add", d>>) => \A i \in DOMAIN posts' : posts'[i] # <<"add", d>>
    BY <1>2, <1>3, <1>8, <2>1
  <2>2. ASSUME NEW d \in Ids, NEW i \in DOMAIN posts', posts'[i] = <<"add", d>>
        PROVE  videoViews'[d] = 0 /\ \A j \in DOMAIN posts' : posts'[j] = <<"add", d>> => i = j
    <3>1. d # id /\ i + 1 \in DOMAIN posts /\ posts[i + 1] = <<"add", d>>
      BY <1>3, <1>5, <2>2
    <3>2. videoViews[d] = 0 /\ \A j \in DOMAIN posts : posts[j] = <<"add", d>> => i + 1 = j
      BY <3>1, Zenon DEF AddedOnce
    <3>3. ASSUME NEW j \in DOMAIN posts', posts'[j] = <<"add", d>> PROVE i + 1 = j + 1
      <4>1. j + 1 \in DOMAIN posts /\ posts[j + 1] = <<"add", d>>
        BY <1>3, <3>3, Zenon
      <4>2. QED
        BY <3>2, <4>1, Zenon
    <3>4. QED
      BY <1>3, <1>8, <3>1, <3>2, <3>3
  <2>3. ASSUME NEW d \in Ids, stage'[d] = "new"
        PROVE  videoViews'[d] = 0 /\ (\A u \in Threads : thread'[u] # <<"add", d>>) /\ \A i \in DOMAIN posts' : posts'[i] # <<"add", d>>
    <3>1. d # id
      BY <1>2, <1>4, <2>3
    <3>2. stage[d] = "new"
      BY <2>1, <2>3, <3>1
    <3>3. videoViews[d] = 0 /\ (\A u \in Threads : thread[u] # <<"add", d>>) /\ \A i \in DOMAIN posts : posts[i] # <<"add", d>>
      BY <3>2, Zenon DEF AddedOnce
    <3>4. QED
      BY <1>2, <2>1, <3>1, <3>3
  <2>4. ASSUME NEW d \in Ids, NEW u \in Threads, thread'[u] = <<"add", d>>
        PROVE  videoViews'[d] = 0 /\ \A i \in DOMAIN posts' : posts'[i] # <<"add", d>>
    <3>1. d # id /\ thread[u] = <<"add", d>>
      BY <1>2, <1>4, <2>4
    <3>2. videoViews[d] = 0 /\ \A i \in DOMAIN posts : posts[i] # <<"add", d>>
      BY <3>1, Zenon DEF AddedOnce
    <3>3. QED
      BY <2>1, <3>1, <3>2
  <2>5. \A d \in Ids : /\ thread'["executor"] = <<"add", d>> => d = 1
                       /\ thread'["signalling"] = <<"add", d>> => d # 1
    BY <1>2 DEF AddedOnce
  <2>6. QED
    BY <2>2, <2>3, <2>4, <2>5, Zenon DEF AddedOnce
<1>11. LeftForGood'
  <2>1. ASSUME NEW d \in Ids, stage'[d] = "closed"
        PROVE  d # 1 /\ thread'["signalling"] # <<"add", d>> /\ (screen' = "open" => Leaving(d)')
    <3>1. d # 1 /\ thread["signalling"] # <<"add", d>> /\ (screen = "open" => Leaving(d))
      BY <1>2, <2>1 DEF LeftForGood
    <3>2. ASSUME screen = "open" PROVE Leaving(d)'
      <4>1. CASE thread["executor"] = <<"remove", d>>
        BY <1>2, <4>1 DEF Leaving
      <4>2. CASE \E i \in DOMAIN posts : posts[i] = <<"remove", d>> /\ \A j \in DOMAIN posts : j > i => posts[j] # <<"add", d>>
        <5>1. PICK i \in DOMAIN posts : posts[i] = <<"remove", d>> /\ \A j \in DOMAIN posts : j > i => posts[j] # <<"add", d>>
          BY <4>2
        <5>2. i # 1
          BY <1>3, <5>1
        <5>3. i - 1 \in DOMAIN posts' /\ posts'[i - 1] = <<"remove", d>>
          BY <1>3, <5>1, <5>2
        <5>4. \A j \in DOMAIN posts' : j > i - 1 => posts'[j] # <<"add", d>>
          BY <1>3, <5>1
        <5>5. QED
          BY <5>3, <5>4 DEF Leaving
      <4>3. CASE videoViews[d] = 0 /\ \A i \in DOMAIN posts : posts[i] # <<"add", d>>
        <5>1. d # id
          BY <1>3, <4>3
        <5>2. videoViews'[d] = 0 /\ \A i \in DOMAIN posts' : posts'[i] # <<"add", d>>
          BY <1>3, <1>8, <4>3, <5>1
        <5>3. QED
          BY <5>2 DEF Leaving
      <4>4. QED
        BY <3>1, <3>2, <4>1, <4>2, <4>3 DEF Leaving
    <3>3. QED
      BY <1>2, <3>1, <3>2
  <2>2. QED
    BY <2>1 DEF LeftForGood
<1>12. QED
  BY <1>2, <1>7, <1>9, <1>10, <1>11

(* A task to remove a tile, whether there is one or not.                      *)
LEMMA KeptByRemoveView ==
  ASSUME GroupAssumption, ScreenInv, RunPost, Head(posts)[1] # "add"
  PROVE  ScreenInv'
<1> USE DEF ScreenInv
<1>1. PICK id \in Ids : Head(posts) = <<"remove", id>>
  <2>1. Head(posts) \in Tasks
    BY FirstTaken DEF RunPost, ScreenState
  <2>2. QED
    BY <2>1 DEF Tasks
<1>2. /\ posts \in Seq(Tasks) /\ posts # <<>> /\ posts' = Tail(posts)
      /\ ViewRemoved(id, videoViews, infos, tiles, videoViews', infos', tiles')
      /\ UNCHANGED <<mScreenWidth, viewCallback, stage, thread, screen, crashed>>
  <2>1. removeView(id) /\ posts # <<>> /\ posts' = Tail(posts) /\ UNCHANGED <<mScreenWidth, viewCallback, stage, thread, screen, crashed>>
    BY <1>1 DEF RunPost
  <2>2. QED
    BY <2>1, Zenon DEF removeView, ScreenState, TakenDown, ViewRemoved
<1>3. /\ posts[1] = <<"remove", id>> /\ 1 \in DOMAIN posts
      /\ posts' \in Seq(Tasks) /\ DOMAIN posts \subseteq Nat /\ DOMAIN posts' \subseteq Nat
      /\ \A i \in DOMAIN posts' : i + 1 \in DOMAIN posts /\ posts'[i] = posts[i + 1] /\ i + 1 # 1
      /\ \A i \in DOMAIN posts : i # 1 => i - 1 \in DOMAIN posts' /\ posts'[i - 1] = posts[i]
  BY <1>1, <1>2, FirstTaken
<1>4. /\ mScreenWidth \in Nat /\ videoViews \in [Ids -> Nat] /\ infos \in Seq(Ids) /\ tiles \in Seq(Tile)
      /\ (screen = "open") \in BOOLEAN
  BY DEF ScreenState
<1>5. infos' \in Seq(Ids) /\ tiles' \in Seq(Tile) /\ InOrder(mScreenWidth, screen = "open", videoViews', infos', tiles')
  BY <1>2, <1>4, RemoveInOrder, Zenon
<1>6. videoViews' \in [Ids -> Nat] /\ videoViews'[id] = 0 /\ \A d \in Ids : d # id => videoViews'[d] = videoViews[d]
  <2>1. videoViews' = [videoViews EXCEPT ![id] = 0]
    BY <1>2, Zenon DEF ViewRemoved
  <2>2. QED
    BY <1>4, <2>1
<1>7. \A d \in Ids : videoViews[d] = 0 => videoViews'[d] = 0
  BY <1>6
<1>8. ScreenState'
  BY <1>2, <1>3, <1>5, <1>6 DEF ScreenState
<1>9. AddedOnce'
  <2>1. ASSUME NEW d \in Ids, \A i \in DOMAIN posts : posts[i] # <<"add", d>>
        PROVE  \A i \in DOMAIN posts' : posts'[i] # <<"add", d>>
    BY <1>3, <2>1
  <2>2. ASSUME NEW d \in Ids, NEW i \in DOMAIN posts', posts'[i] = <<"add", d>>
        PROVE  videoViews'[d] = 0 /\ \A j \in DOMAIN posts' : posts'[j] = <<"add", d>> => i = j
    <3>1. i + 1 \in DOMAIN posts /\ posts[i + 1] = <<"add", d>>
      BY <1>3, <2>2
    <3>2. videoViews[d] = 0 /\ \A j \in DOMAIN posts : posts[j] = <<"add", d>> => i + 1 = j
      BY <3>1, Zenon DEF AddedOnce
    <3>3. ASSUME NEW j \in DOMAIN posts', posts'[j] = <<"add", d>> PROVE i + 1 = j + 1
      <4>1. j + 1 \in DOMAIN posts /\ posts[j + 1] = <<"add", d>>
        BY <1>3, <3>3, Zenon
      <4>2. QED
        BY <3>2, <4>1, Zenon
    <3>4. QED
      BY <1>3, <1>7, <3>2, <3>3
  <2>3. ASSUME NEW d \in Ids, stage'[d] = "new"
        PROVE  videoViews'[d] = 0 /\ (\A u \in Threads : thread'[u] # <<"add", d>>) /\ \A i \in DOMAIN posts' : posts'[i] # <<"add", d>>
    <3>1. stage[d] = "new"
      BY <1>2, <2>3
    <3>2. videoViews[d] = 0 /\ (\A u \in Threads : thread[u] # <<"add", d>>) /\ \A i \in DOMAIN posts : posts[i] # <<"add", d>>
      BY <3>1, Zenon DEF AddedOnce
    <3>3. QED
      BY <1>2, <1>7, <2>1, <3>2
  <2>4. ASSUME NEW d \in Ids, NEW u \in Threads, thread'[u] = <<"add", d>>
        PROVE  videoViews'[d] = 0 /\ \A i \in DOMAIN posts' : posts'[i] # <<"add", d>>
    <3>1. thread[u] = <<"add", d>>
      BY <1>2, <2>4
    <3>2. videoViews[d] = 0 /\ \A i \in DOMAIN posts : posts[i] # <<"add", d>>
      BY <3>1, Zenon DEF AddedOnce
    <3>3. QED
      BY <1>7, <2>1, <3>2
  <2>5. \A d \in Ids : /\ thread'["executor"] = <<"add", d>> => d = 1
                       /\ thread'["signalling"] = <<"add", d>> => d # 1
    BY <1>2 DEF AddedOnce
  <2>6. QED
    BY <2>2, <2>3, <2>4, <2>5, Zenon DEF AddedOnce
<1>10. LeftForGood'
  <2>1. ASSUME NEW d \in Ids, stage'[d] = "closed"
        PROVE  d # 1 /\ thread'["signalling"] # <<"add", d>> /\ (screen' = "open" => Leaving(d)')
    <3>1. d # 1 /\ thread["signalling"] # <<"add", d>> /\ (screen = "open" => Leaving(d))
      BY <1>2, <2>1 DEF LeftForGood
    <3>2. ASSUME screen = "open" PROVE Leaving(d)'
      <4>1. CASE thread["executor"] = <<"remove", d>>
        BY <1>2, <4>1 DEF Leaving
      <4>2. CASE \E i \in DOMAIN posts : posts[i] = <<"remove", d>> /\ \A j \in DOMAIN posts : j > i => posts[j] # <<"add", d>>
        <5>1. PICK i \in DOMAIN posts : posts[i] = <<"remove", d>> /\ \A j \in DOMAIN posts : j > i => posts[j] # <<"add", d>>
          BY <4>2
        <5>2. CASE i # 1
          <6>1. i - 1 \in DOMAIN posts' /\ posts'[i - 1] = <<"remove", d>>
            BY <1>3, <5>1, <5>2
          <6>2. \A j \in DOMAIN posts' : j > i - 1 => posts'[j] # <<"add", d>>
            BY <1>3, <5>1
          <6>3. QED
            BY <6>1, <6>2 DEF Leaving
        <5>3. CASE i = 1
          <6>1. d = id
            BY <1>3, <5>1, <5>3
          <6>2. \A j \in DOMAIN posts' : posts'[j] # <<"add", d>>
            BY <1>3, <5>1, <5>3
          <6>3. QED
            BY <1>6, <6>1, <6>2 DEF Leaving
        <5>4. QED
          BY <5>2, <5>3
      <4>3. CASE videoViews[d] = 0 /\ \A i \in DOMAIN posts : posts[i] # <<"add", d>>
        <5>1. videoViews'[d] = 0 /\ \A i \in DOMAIN posts' : posts'[i] # <<"add", d>>
          BY <1>3, <1>7, <4>3
        <5>2. QED
          BY <5>1 DEF Leaving
      <4>4. QED
        BY <3>1, <3>2, <4>1, <4>2, <4>3 DEF Leaving
    <3>3. QED
      BY <1>2, <3>1, <3>2
  <2>2. QED
    BY <2>1 DEF LeftForGood
<1>11. QED
  BY <1>2, <1>5, <1>8, <1>9, <1>10

(* hangUp and onDestroy: all tiles in use are released, and the call is over. *)
LEMMA KeptByExit ==
  ASSUME GroupAssumption, ScreenInv, exit
  PROVE  ScreenInv'
<1> USE DEF ScreenInv
<1>1. /\ screen' \in {"finished", "destroyed"} /\ viewCallback' = FALSE
      /\ tiles' = Release(tiles, Range(videoViews))
      /\ videoViews' = [id \in Ids |-> 0] /\ infos' = <<>>
      /\ UNCHANGED <<mScreenWidth, stage, thread, posts, crashed>>
  BY DEF exit
<1>2. videoViews \in [Ids -> Nat] /\ infos \in Seq(Ids) /\ tiles \in Seq(Tile)
  BY DEF ScreenState
<1>3. DOMAIN tiles = 1..Len(tiles) /\ Len(tiles) \in Nat /\ \A r \in DOMAIN tiles : tiles[r] \in Tile
  BY <1>2, ElementOfSeq
<1>4. \A r \in DOMAIN tiles : r \in Range(videoViews) => [tiles[r] EXCEPT !.live = FALSE] \in Tile /\ [tiles[r] EXCEPT !.live = FALSE].live = FALSE
  BY <1>3 DEF Tile
<1>5. /\ tiles' \in [1..Len(tiles) -> Tile] /\ DOMAIN tiles' = DOMAIN tiles
      /\ \A r \in DOMAIN tiles : tiles'[r] = IF r \in Range(videoViews) THEN [tiles[r] EXCEPT !.live = FALSE] ELSE tiles[r]
  BY <1>1, <1>3, <1>4 DEF Release
<1>6. tiles' \in Seq(Tile)
  BY <1>3, <1>5, AsList
<1>7. ScreenState'
  BY <1>1, <1>6, EmptySeq DEF ScreenState
<1>8. AddedOnce'
  BY <1>1 DEF AddedOnce
<1>9. ASSUME NEW r \in DOMAIN tiles PROVE tiles'[r].live = FALSE
  <2>1. CASE r \in Range(videoViews)
    BY <1>4, <1>5, <2>1
  <2>2. CASE r \notin Range(videoViews)
    <3>1. tiles'[r] = tiles[r] /\ tiles[r].live \in BOOLEAN
      BY <1>3, <1>5, <2>2 DEF Tile
    <3>2. \A i \in DOMAIN infos : videoViews[infos[i]] # r
      BY <1>2, <2>2, ElementOfSeq DEF Range
    <3>3. QED
      BY <3>1, <3>2 DEF InOrder
  <2>3. QED
    BY <2>1, <2>2
<1>10. InOrder(mScreenWidth, screen = "open", videoViews, infos, tiles)'
  <2>1. ~(screen' = "open") /\ DOMAIN infos' = {} /\ \A id \in Ids : videoViews'[id] = 0
    BY <1>1
  <2>2. QED
    BY <1>5, <1>9, <2>1 DEF InOrder
<1>11. LeftForGood'
  BY <1>1 DEF LeftForGood
<1>12. QED
  BY <1>7, <1>8, <1>10, <1>11

(* Every step keeps the invariant.                                            *)
LEMMA ScreenInvKept ==
  ASSUME GroupAssumption, ScreenInv, [ScreenNext]_screenVars
  PROVE  ScreenInv'
<1>1. CASE UNCHANGED screenVars
  <2>1. ScreenState' /\ InOrder(mScreenWidth, screen = "open", videoViews, infos, tiles)'
    BY <1>1 DEF screenVars, ScreenInv, ScreenState
  <2>2. AddedOnce'
    BY <1>1 DEF screenVars, ScreenInv, AddedOnce
  <2>3. LeftForGood'
    BY <1>1 DEF screenVars, ScreenInv, LeftForGood, Leaving
  <2>4. QED
    BY <2>1, <2>2, <2>3 DEF ScreenInv
<1>2. CASE createLocalStream
  <2>1. 1 \in Ids /\ "executor" \in Threads
    BY DEF Ids, Threads, GroupAssumption
  <2>2. QED
    BY <1>2, <2>1, KeptByAdd DEF createLocalStream
<1>3. CASE RunPost
  BY <1>3, KeptByAddView, KeptByRemoveView
<1>4. CASE exit
  BY <1>4, KeptByExit
<1>5. ASSUME NEW id \in 2..Members, onAddStream(id) PROVE ScreenInv'
  <2>1. id \in Ids /\ id # 1 /\ "signalling" \in Threads
    BY DEF Ids, Threads, GroupAssumption
  <2>2. QED
    BY <1>5, <2>1, KeptByAdd DEF onAddStream
<1>6. ASSUME NEW id \in Leavers, onRemoveStream(id) \/ closePeerConnection(id) PROVE ScreenInv'
  <2>1. id \in Ids /\ id # 1 /\ "signalling" \in Threads /\ "executor" \in Threads
    BY DEF Ids, Threads, GroupAssumption
  <2>2. CASE onRemoveStream(id)
    BY <2>1, <2>2, KeptByRemove DEF onRemoveStream
  <2>3. CASE closePeerConnection(id)
    BY <2>1, <2>3, KeptByRemove DEF closePeerConnection
  <2>4. QED
    BY <1>6, <2>2, <2>3
<1>7. ASSUME NEW t \in Threads, Call(t) PROVE ScreenInv'
  BY <1>7, KeptByCall
<1>8. QED
  BY <1>1, <1>2, <1>3, <1>4, <1>5, <1>6, <1>7 DEF ScreenNext

(* No list without repetitions is longer than the number of members.          *)
LEMMA NoMoreThanMembers ==
  ASSUME GroupAssumption, NEW ids \in Seq(Ids), \A i, j \in DOMAIN ids : ids[i] = ids[j] => i = j
  PROVE  Len(ids) <= Members
<1>1. ids \in [1..Len(ids) -> Ids] /\ Len(ids) \in Nat /\ Members \in Nat
  BY DEF GroupAssumption
<1>2. IsFiniteSet(1..Len(ids)) /\ Cardinality(1..Len(ids)) = Len(ids) /\ IsFiniteSet(Ids) /\ Cardinality(Ids) = Members
  <2>1. \A n \in Nat : IsFiniteSet(1..n) /\ Cardinality(1..n) = n
    BY FS_Interval
  <2>2. QED
    BY <1>1, <2>1 DEF Ids
<1>3. SUFFICES ASSUME Len(ids) > Members PROVE FALSE
  BY <1>1
<1>4. \E i, j \in 1..Len(ids) : i # j /\ ids[i] = ids[j]
  BY <1>1, <1>2, <1>3, FS_PigeonHole
<1>5. QED
  BY <1>4

(* Up to nine members: the places of the list are those PlacesApart is about. *)
LEMMA ShownApart ==
  ASSUME GroupAssumption, Members <= 9, ScreenInv
  PROVE  TilesApart
<1>1. SUFFICES ASSUME screen = "open", NEW r \in DOMAIN tiles, tiles[r].child
               PROVE  Inside(tiles[r].at, mScreenWidth) /\ \A s \in {s \in DOMAIN tiles : tiles[s].child} \ {r} : Apart(tiles[r].at, tiles[s].at)
  BY DEF TilesApart
<1>2. mScreenWidth \in Nat /\ infos \in Seq(Ids) /\ videoViews \in [Ids -> Nat]
  BY DEF ScreenInv, ScreenState
<1>3. /\ \A i, j \in DOMAIN infos : infos[i] = infos[j] => i = j
      /\ \A i \in DOMAIN infos : tiles[videoViews[infos[i]]].at = Place(mScreenWidth, Len(infos), i - 1)
      /\ \A q \in DOMAIN tiles : tiles[q].child => \E i \in DOMAIN infos : videoViews[infos[i]] = q
  BY <1>1 DEF ScreenInv, InOrder
<1>4. DOMAIN infos = 1..Len(infos) /\ Len(infos) \in Nat /\ Len(infos) <= Members
  BY <1>2, <1>3, NoMoreThanMembers
<1>5. PICK i \in DOMAIN infos : videoViews[infos[i]] = r
  BY <1>1, <1>3
<1>6. Len(infos) \in 1..9 /\ i - 1 \in 0..(Len(infos) - 1)
  <2>1. i \in 1..Len(infos) /\ Members \in Nat
    BY <1>4 DEF GroupAssumption
  <2>2. PICK n \in Nat : n = Len(infos) /\ n <= Members /\ i \in 1..n
    BY <1>4, <2>1
  <2>3. n \in 1..9
    <3>1. \A m, k \in Nat : m <= k /\ k <= 9 /\ m >= 1 => m \in 1..9
      OBVIOUS
    <3>2. n >= 1
      BY <2>2
    <3>3. QED
      BY <2>1, <2>2, <3>1, <3>2, Zenon
  <2>4. i - 1 \in 0..(n - 1)
    BY <2>2
  <2>5. QED
    BY <2>2, <2>3, <2>4
<1>7. \A a, b \in 0..(Len(infos) - 1) :
         Inside(Place(mScreenWidth, Len(infos), a), mScreenWidth) /\ (a # b => Apart(Place(mScreenWidth, Len(infos), a), Place(mScreenWidth, Len(infos), b)))
  BY <1>2, <1>6, PlacesApart
<1>8. tiles[r].at = Place(mScreenWidth, Len(infos), i - 1)
  BY <1>3, <1>5
<1>9. Inside(tiles[r].at, mScreenWidth)
  BY <1>6, <1>7, <1>8
<1>10. ASSUME NEW s \in DOMAIN tiles, tiles[s].child, s # r PROVE Apart(tiles[r].at, tiles[s].at)
  <2>1. PICK j \in DOMAIN infos : videoViews[infos[j]] = s
    BY <1>3, <1>10
  <2>2. j - 1 \in 0..(Len(infos) - 1) /\ i - 1 # j - 1
    BY <1>4, <1>5, <1>10, <2>1
  <2>3. QED
    <3>1. tiles[s].at = Place(mScreenWidth, Len(infos), j - 1)
      BY <1>3, <2>1
    <3>2. QED
      BY <1>6, <1>7, <1>8, <2>2, <3>1
<1>11. QED
  BY <1>9, <1>10

(* The group screen of up to nine members, for every width and whatever the   *)
(* order in which streams are announced, tasks are carried out and the user   *)
(* leaves: tiles lie apart inside the view, every renderer that is not        *)
(* released is found in videoViews, and none who has left is shown once       *)
(* nothing about them is on its way.                                          *)
THEOREM ScreenAlwaysRight ==
  ASSUME GroupAssumption, Members <= 9
  PROVE  ScreenSpec => []ScreenRight
<1>1. ScreenInit => ScreenInv
  BY ScreenBegins
<1>2. ScreenInv /\ [ScreenNext]_screenVars => ScreenInv'
  BY ScreenInvKept
<1>3. ScreenInv => ScreenRight
  <2>1. SUFFICES ASSUME ScreenInv PROVE ScreenRight
    OBVIOUS
  <2>2. TilesApart
    BY <2>1, ShownApart
  <2>3. NoneLost
    <3>1. \A i \in DOMAIN infos : infos[i] \in Ids
      BY <2>1, ElementOfSeq DEF ScreenInv, ScreenState
    <3>2. QED
      BY <2>1, <3>1, Zenon DEF NoneLost, ScreenInv, InOrder
  <2>4. LeftNotShown
    <3>1. SUFFICES ASSUME NEW id \in Ids, screen = "open", stage[id] = "closed", \A t \in Threads : thread[t] = <<>>,
                          \A i \in DOMAIN posts : posts[i][2] # id
                   PROVE  videoViews[id] = 0
      BY DEF LeftNotShown
    <3>2. Leaving(id)
      BY <2>1, <3>1 DEF ScreenInv, LeftForGood
    <3>3. thread["executor"] # <<"remove", id>>
      BY <3>1, TaskIsOne DEF Threads
    <3>4. \A i \in DOMAIN posts : posts[i] # <<"remove", id>>
      BY <3>1
    <3>5. QED
      BY <3>2, <3>3, <3>4 DEF Leaving
  <2>5. QED
    BY <2>2, <2>3, <2>4 DEF ScreenRight
<1>4. QED
  BY <1>1, <1>2, <1>3, PTL DEF ScreenSpec

-----------------------------------------------------------------------------
(* UsersReached for any sessions and users.  The invariant adds the types,    *)
(* that a waiting task is of a session that has opened, and that              *)
(* sessionMap2 never gives a session another user than the container does.    *)
ImTasks == [op : {"open", "close", "message"}, session : Sessions, to : Users \cup {NoUser}]

ImTypes ==
  /\ conn \in [Sessions -> [state : {"new", "open", "closed"}, user : Users \cup {NoUser}]]
  /\ runner \in Seq(ImTasks)
  /\ sockets \in SUBSET Sessions
  /\ sessionMap1 \in [Users -> Sessions \cup {NoSession}]
  /\ sessionMap2 \in [Sessions -> Users \cup {NoUser}]
  /\ inbox \in [Sessions -> Seq(Users)]

(* Before a session opens nothing is known of it, and afterwards its user is. *)
NewIsUnknown ==
  \A s \in Sessions :
    IF conn[s].state = "new" THEN sessionMap2[s] = NoUser /\ inbox[s] = <<>>
                             ELSE conn[s].user \in Users

MappedIsOwn == \A s \in Sessions : sessionMap2[s] \in {NoUser, conn[s].user}

TaskOf(task) ==
  /\ conn[task.session].state # "new"
  /\ task.op = "message" => task.to \in Users

TasksOfOpened == \A i \in DOMAIN runner : TaskOf(runner[i])

ImInv == ImTypes /\ NewIsUnknown /\ MappedIsOwn /\ TasksOfOpened /\ UsersReached

(* What the container submits is queued behind the tasks that wait.           *)
LEMMA SubmitStep ==
  ASSUME ImInv, NEW task \in ImTasks, Submit(task),
         conn' \in [Sessions -> [state : {"new", "open", "closed"}, user : Users \cup {NoUser}]],
         \A s \in Sessions :
            \/ conn'[s] = conn[s]
            \/ /\ conn'[s].state # "new" /\ conn'[s].user \in Users
               /\ conn[s].state = "new" \/ conn'[s].user = conn[s].user,
         TaskOf(task)'
  PROVE  ImInv'
<1>1. /\ runner \in Seq(ImTasks) /\ runner' = Append(runner, task)
      /\ UNCHANGED <<sockets, sessionMap1, sessionMap2, inbox>>
  BY DEF ImInv, ImTypes, Submit
<1>2. /\ runner' \in Seq(ImTasks)
      /\ \A i \in DOMAIN runner' :
           \/ runner'[i] = task
           \/ i \in DOMAIN runner /\ runner'[i] = runner[i]
  <2> DEFINE n == Len(runner)
             r == Append(runner, task)
  <2>1. /\ n \in Nat /\ r \in Seq(ImTasks) /\ DOMAIN runner = 1..n /\ DOMAIN r = 1..(n + 1)
        /\ r[n + 1] = task /\ \A i \in 1..n : r[i] = runner[i]
    BY <1>1, AppendProperties, LenProperties
  <2> HIDE DEF n, r
  <2>2. runner' = r
    BY <1>1 DEF r
  <2> QED BY <2>1, <2>2
<1>3. \A s \in Sessions : conn[s].state # "new" => conn'[s].state # "new"
  OBVIOUS
<1>4. TasksOfOpened'
  <2> SUFFICES ASSUME NEW i \in DOMAIN runner' PROVE TaskOf(runner[i])'
    BY DEF TasksOfOpened
  <2>1. CASE runner'[i] = task
    BY <2>1 DEF TaskOf
  <2>2. CASE i \in DOMAIN runner /\ runner'[i] = runner[i]
    <3>1. TaskOf(runner[i])
      BY <2>2 DEF ImInv, TasksOfOpened
    <3>2. runner[i].session \in Sessions
      <4>1. runner[i] \in ImTasks
        BY <1>1, <2>2, ElementOfSeq, LenProperties
      <4> QED BY <4>1 DEF ImTasks
    <3> QED BY <1>3, <2>2, <3>1, <3>2 DEF TaskOf
  <2> QED BY <1>2, <2>1, <2>2
<1>5. NewIsUnknown' /\ MappedIsOwn'
  BY <1>1 DEF ImInv, ImTypes, NewIsUnknown, MappedIsOwn
<1>6. ReachesAddressee'
  <2> SUFFICES ASSUME NEW s \in Sessions, NEW i \in DOMAIN inbox[s]
               PROVE  inbox[s][i] = conn'[s].user
    BY <1>1 DEF ReachesAddressee
  <2>1. inbox[s][i] = conn[s].user
    BY DEF ImInv, UsersReached, ReachesAddressee
  <2>2. conn[s].state # "new"
    BY DEF ImInv, NewIsUnknown
  <2> QED BY <2>1, <2>2
<1>7. MapsAgree'
  BY <1>1 DEF ImInv, UsersReached, MapsAgree
<1> QED BY <1>1, <1>2, <1>4, <1>5, <1>6, <1>7 DEF ImInv, ImTypes, UsersReached

(* The runner's task is of a session that has opened, whose user is known.    *)
LEMMA RunnerStep ==
  ASSUME ImAssumption, ImInv, RunTask
  PROVE  ImInv'
<1>1. PICK task \in ImTasks : task = Head(runner)
  BY HeadTailProperties DEF ImInv, ImTypes, RunTask
<1>2. PICK s \in Sessions : s = task.session
  BY DEF ImTasks
<1>3. /\ runner \in Seq(ImTasks) /\ runner # <<>> /\ runner' = Tail(runner)
      /\ conn' = conn
  BY DEF ImInv, ImTypes, RunTask
<1>4. TaskOf(task)
  <2>1. 1 \in DOMAIN runner /\ runner[1] = task
    BY <1>1, <1>3, LenProperties, EmptySeq
  <2> QED BY <2>1 DEF ImInv, TasksOfOpened
<1>5. runner' \in Seq(ImTasks) /\ TasksOfOpened'
  <2>1. /\ Tail(runner) \in Seq(ImTasks)
        /\ Len(Tail(runner)) = Len(runner) - 1
        /\ \A i \in 1..Len(Tail(runner)) : Tail(runner)[i] = runner[i + 1]
    BY <1>3, HeadTailProperties
  <2>2. Len(runner) \in Nat /\ DOMAIN runner = 1..Len(runner)
    BY <1>3, LenProperties
  <2>3. DOMAIN Tail(runner) = 1..Len(Tail(runner))
    BY <2>1, LenProperties
  <2>4. \A i \in DOMAIN runner' : i + 1 \in DOMAIN runner /\ runner'[i] = runner[i + 1]
    BY <1>3, <2>1, <2>2, <2>3
  <2>5. \A i \in DOMAIN runner' : TaskOf(runner[i + 1])
    BY <2>4 DEF ImInv, TasksOfOpened
  <2> QED BY <1>3, <2>1, <2>4, <2>5 DEF TasksOfOpened, TaskOf
<1> DEFINE u == conn[s].user
<1>6. u \in Users /\ conn[s].state # "new"
  BY <1>2, <1>4 DEF TaskOf, ImInv, NewIsUnknown
<1>7. /\ NoUser \notin Users /\ NoSession \notin Sessions
      /\ sessionMap1 \in [Users -> Sessions \cup {NoSession}]
      /\ sessionMap2 \in [Sessions -> Users \cup {NoUser}]
      /\ inbox \in [Sessions -> Seq(Users)] /\ sockets \in SUBSET Sessions
      /\ conn \in [Sessions -> [state : {"new", "open", "closed"}, user : Users \cup {NoUser}]]
      /\ MapsAgree /\ ReachesAddressee /\ NewIsUnknown /\ MappedIsOwn
  BY DEF ImAssumption, ImInv, ImTypes, UsersReached
<1> HIDE DEF u
<1>8. \/ Opened(s, u)
      \/ Closed(s, u)
      \/ task.op = "message" /\ Passed(task.to)
  <2>1. task.op = "open" \/ task.op = "close" \/ task.op = "message"
    BY DEF ImTasks
  <2> QED BY <1>1, <1>2, <2>1 DEF RunTask, u
<1>9. CASE Opened(s, u)
  <2>1. /\ sockets' = sockets \cup {s}
        /\ sessionMap1' = [sessionMap1 EXCEPT ![u] = s]
        /\ sessionMap2' = [sessionMap2 EXCEPT ![s] = u]
        /\ inbox' = inbox
    BY <1>9 DEF Opened
  <2>2. ImTypes'
    BY <1>3, <1>5, <1>6, <1>7, <2>1 DEF ImTypes
  <2>3. \A x \in Sessions : sessionMap2'[x] = IF x = s THEN u ELSE sessionMap2[x]
    BY <1>7, <2>1
  <2>4. NewIsUnknown' /\ MappedIsOwn' /\ ReachesAddressee'
    BY <1>3, <1>6, <1>7, <2>1, <2>3 DEF NewIsUnknown, MappedIsOwn, ReachesAddressee, u
  <2>5. MapsAgree'
    <3>1. \A x \in Sessions : x \in sockets' <=> sessionMap2'[x] # NoUser
      BY <1>6, <1>7, <2>1, <2>3 DEF MapsAgree
    <3>2. ASSUME NEW v \in Users, sessionMap1'[v] # NoSession
          PROVE  sessionMap2'[sessionMap1'[v]] = v
      <4>1. CASE v = u
        BY <1>6, <1>7, <2>1, <2>3, <4>1
      <4>2. CASE v # u
        <5>1. sessionMap1'[v] = sessionMap1[v] /\ sessionMap1[v] \in Sessions
          BY <1>7, <2>1, <3>2, <4>2
        <5>2. sessionMap2[sessionMap1[v]] = v
          BY <1>7, <3>2, <5>1 DEF MapsAgree
        <5>3. sessionMap1[v] # s
          BY <1>7, <4>2, <5>2 DEF MappedIsOwn, u
        <5> QED BY <2>3, <5>1, <5>2, <5>3
      <4> QED BY <4>1, <4>2
    <3> QED BY <3>1, <3>2 DEF MapsAgree
  <2> QED BY <1>5, <2>2, <2>4, <2>5 DEF ImInv, UsersReached
<1>10. CASE Closed(s, u)
  <2>1. /\ sockets' = sockets \ {s}
        /\ sessionMap1' = [sessionMap1 EXCEPT ![u] = NoSession]
        /\ sessionMap2' = [sessionMap2 EXCEPT ![s] = NoUser]
        /\ inbox' = inbox
    BY <1>10 DEF Closed
  <2>2. ImTypes'
    BY <1>3, <1>5, <1>6, <1>7, <2>1 DEF ImTypes
  <2>3. \A x \in Sessions : sessionMap2'[x] = IF x = s THEN NoUser ELSE sessionMap2[x]
    BY <1>7, <2>1
  <2>4. NewIsUnknown' /\ MappedIsOwn' /\ ReachesAddressee'
    BY <1>3, <1>6, <1>7, <2>1, <2>3 DEF NewIsUnknown, MappedIsOwn, ReachesAddressee, u
  <2>5. MapsAgree'
    <3>1. \A x \in Sessions : x \in sockets' <=> sessionMap2'[x] # NoUser
      BY <1>6, <1>7, <2>1, <2>3 DEF MapsAgree
    <3>2. ASSUME NEW v \in Users, sessionMap1'[v] # NoSession
          PROVE  sessionMap2'[sessionMap1'[v]] = v
      <4>1. v # u /\ sessionMap1'[v] = sessionMap1[v] /\ sessionMap1[v] \in Sessions
        BY <1>6, <1>7, <2>1, <3>2
      <4>2. sessionMap2[sessionMap1[v]] = v
        BY <1>7, <3>2, <4>1 DEF MapsAgree
      <4>3. sessionMap1[v] # s
        BY <1>7, <4>1, <4>2 DEF MappedIsOwn, u
      <4> QED BY <2>3, <4>1, <4>2, <4>3
    <3> QED BY <3>1, <3>2 DEF MapsAgree
  <2> QED BY <1>5, <2>2, <2>4, <2>5 DEF ImInv, UsersReached
<1>11. CASE task.op = "message" /\ Passed(task.to)
  <2> DEFINE to == task.to
             x == sessionMap1[to]
  <2>1. to \in Users
    BY <1>4, <1>11 DEF TaskOf
  <2>2. /\ UNCHANGED <<sockets, sessionMap1, sessionMap2>>
        /\ \/ inbox' = inbox
           \/ x # NoSession /\ inbox' = [inbox EXCEPT ![x] = Append(inbox[x], to)]
    BY <1>11 DEF Passed
  <2>3. MapsAgree' /\ MappedIsOwn'
    BY <1>3, <1>7, <2>2 DEF MapsAgree, MappedIsOwn
  <2>4. CASE inbox' = inbox
    BY <1>3, <1>5, <1>7, <2>2, <2>3, <2>4
       DEF ImInv, ImTypes, UsersReached, ReachesAddressee, NewIsUnknown
  <2>5. CASE x # NoSession /\ inbox' = [inbox EXCEPT ![x] = Append(inbox[x], to)]
    <3>1. x \in Sessions
      BY <1>7, <2>1, <2>5
    <3>2. sessionMap2[x] = to
      BY <1>7, <2>1, <2>5 DEF MapsAgree
    <3>3. conn[x].user = to
      BY <1>7, <2>1, <3>1, <3>2 DEF MappedIsOwn
    <3>4. conn[x].state # "new"
      BY <1>7, <2>1, <3>1, <3>2 DEF NewIsUnknown
    <3> HIDE DEF x, to
    <3>5. inbox[x] \in Seq(Users) /\ Append(inbox[x], to) \in Seq(Users)
      BY <1>7, <2>1, <3>1, AppendProperties
    <3>6. inbox' \in [Sessions -> Seq(Users)]
      BY <1>7, <2>5, <3>5
    <3>7. ReachesAddressee'
      <4> SUFFICES ASSUME NEW y \in Sessions, NEW i \in DOMAIN inbox'[y]
                   PROVE  inbox'[y][i] = conn[y].user
        BY <1>3 DEF ReachesAddressee
      <4>1. CASE y # x
        BY <1>7, <2>5, <4>1 DEF ReachesAddressee
      <4>2. CASE y = x
        <5> DEFINE r == Append(inbox[x], to)
                   n == Len(inbox[x])
        <5>1. /\ n \in Nat /\ DOMAIN inbox[x] = 1..n /\ DOMAIN r = 1..(n + 1)
              /\ r[n + 1] = to /\ \A k \in 1..n : r[k] = inbox[x][k]
          BY <2>1, <3>5, AppendProperties, LenProperties
        <5>2. inbox'[y] = r
          BY <1>7, <2>5, <3>1, <4>2
        <5> HIDE DEF r, n
        <5>3. i = n + 1 \/ i \in DOMAIN inbox[x]
          BY <5>1, <5>2
        <5> QED BY <1>7, <3>1, <3>3, <4>2, <5>1, <5>2, <5>3 DEF ReachesAddressee
      <4> QED BY <4>1, <4>2
    <3>8. NewIsUnknown'
      BY <1>3, <1>7, <2>2, <2>5, <3>4 DEF NewIsUnknown
    <3> QED BY <1>3, <1>5, <1>7, <2>2, <2>3, <3>6, <3>7, <3>8
            DEF ImInv, ImTypes, UsersReached
  <2> QED BY <2>2, <2>4, <2>5
<1> QED BY <1>8, <1>9, <1>10, <1>11

(* The maps of the instant-messaging server agree and a message (the ringing  *)
(* of a call among them) is only ever handed to a session of the user it is   *)
(* for, for any numbers of sessions and users: users may open a second        *)
(* session before the first closes, sessions may close before their open task *)
(* has run (onOpen, onClose, handleMessage).                                  *)
THEOREM UsersAlwaysReached == ASSUME ImAssumption PROVE ImSpec => []UsersReached
<1>1. ImInit => ImInv
  BY EmptySeq DEF ImInit, ImInv, ImTypes, NewIsUnknown, MappedIsOwn, TasksOfOpened,
                  UsersReached, MapsAgree, ReachesAddressee
<1>2. ASSUME ImInv, [ImNext]_imVars PROVE ImInv'
  <2>1. CASE UNCHANGED imVars
    BY <1>2, <2>1 DEF imVars, ImInv, ImTypes, NewIsUnknown, MappedIsOwn, TasksOfOpened, TaskOf,
                      UsersReached, MapsAgree, ReachesAddressee
  <2>2. CASE RunTask
    BY <1>2, <2>2, RunnerStep
  <2>0. /\ conn \in [Sessions -> [state : {"new", "open", "closed"}, user : Users \cup {NoUser}]]
        /\ \A s \in Sessions : conn[s].state # "new" => conn[s].user \in Users
    BY <1>2 DEF ImInv, ImTypes, NewIsUnknown
  <2>3. ASSUME NEW s \in Sessions, OnClose(s) PROVE ImInv'
    <3> DEFINE task == Task("close", s, NoUser)
    <3>1. /\ task \in ImTasks /\ task.session = s /\ task.op = "close" /\ Submit(task)
      BY <2>3 DEF Task, ImTasks, OnClose
    <3> HIDE DEF task
    <3>2. /\ conn[s].state = "open"
          /\ conn' = [conn EXCEPT ![s].state = "closed"]
      BY <2>3 DEF OnClose
    <3> QED BY <1>2, <2>0, <3>1, <3>2, SubmitStep DEF TaskOf
  <2>4. ASSUME NEW s \in Sessions, NEW u \in Users, OnOpen(s, u) PROVE ImInv'
    <3> DEFINE task == Task("open", s, NoUser)
    <3>1. /\ task \in ImTasks /\ task.session = s /\ task.op = "open" /\ Submit(task)
      BY <2>4 DEF Task, ImTasks, OnOpen
    <3> HIDE DEF task
    <3>2. /\ conn[s].state = "new"
          /\ conn' = [conn EXCEPT ![s] = [state |-> "open", user |-> u]]
      BY <2>4 DEF OnOpen
    <3> QED BY <1>2, <2>0, <3>1, <3>2, SubmitStep DEF TaskOf
  <2>5. ASSUME NEW s \in Sessions, NEW u \in Users, OnMessage(s, u) PROVE ImInv'
    <3> DEFINE task == Task("message", s, u)
    <3>1. /\ task \in ImTasks /\ task.session = s /\ task.to = u /\ Submit(task)
      BY <2>5 DEF Task, ImTasks, OnMessage
    <3> HIDE DEF task
    <3>2. conn[s].state = "open" /\ conn' = conn
      BY <2>5 DEF OnMessage
    <3> QED BY <1>2, <2>0, <3>1, <3>2, SubmitStep DEF TaskOf
  <2> QED BY <1>2, <2>1, <2>2, <2>3, <2>4, <2>5 DEF ImNext
<1>3. ImInv => UsersReached
  BY DEF ImInv
<1> QED BY <1>1, <1>2, <1>3, PTL DEF ImSpec

-----------------------------------------------------------------------------
(* Calls are kept apart, for any number of calls of a patient user.           *)
(*                                                                            *)
(* Such a user calls again when nothing is going on any more, so that only    *)
(* the last service that connect made is not at rest, and everything that was *)
(* posted or queued is about it.  "failed" is posted by a socket that has     *)
(* closed; from then on the room is left for good: after the last _peers, in  *)
(* the main thread's queue or in PeerService's, there is still an exit.       *)

(* The kinds of a WsServiceImpl, a PeerService, a screen and a posted task.   *)
Sock == {"connecting", "open", "closing", "closed"}
Socket == [sock : Sock, isOpen : BOOLEAN, joined : BOOLEAN]
Room == [exec : Seq({"peers", "exit"}), media : BOOLEAN, webSocket : BOOLEAN]
Shown == {"none", "starting", "asking", "open", "finished", "destroyed"}
Post == {"open", "failed", "peers"}

(* What the manager keeps; its callbacks are the last call's, and a socket it *)
(* has is that of its peer service.                                           *)
ManagerState ==
  /\ calls \in 0..MaxCalls /\ callback = calls
  /\ ws \in Seq(Socket) /\ peer \in Seq(Room) /\ Len(peer) = Len(ws)
  /\ peerService \in 0..Len(ws) /\ wsService \in {0, peerService}
  /\ service \in [CallNo -> 0..Len(ws)] /\ \A k \in CallNo : k > calls => service[k] = 0
  /\ handler \in Seq(Post) /\ screens \in [CallNo -> Shown]
  /\ told \in [CallNo -> SUBSET {"success", "failed"}] /\ threw \in BOOLEAN

(* A task is in a queue; in a queue no task x comes after some task last.     *)
Has(s, x) == \E i \in DOMAIN s : s[i] = x
Ended(s, last, x) == \E i \in DOMAIN s : s[i] = last /\ \A j \in DOMAIN s : j > i => s[j] # x

Shows == \E k \in CallNo : screens[k] \notin {"none", "destroyed"}

(* Every service but the current one is at rest and holds nothing.            *)
PastAtRest ==
  /\ \A n \in 1..Len(ws) :
       n # peerService => ws[n].sock = "closed" /\ peer[n].exec = <<>> /\ ~peer[n].media
  /\ peerService = 0 => handler = <<>> /\ ~Shows

OpenedIsOpen == \A n \in 1..Len(ws) : ws[n].sock = "open" \/ ws[n].joined => ws[n].isOpen

(* A call is told of its own connection, of a failure when it is over.        *)
ToldRight ==
  \A k \in CallNo :
    /\ "success" \in told[k] => service[k] # 0 /\ ws[service[k]].isOpen
    /\ "failed" \in told[k] => service[k] # 0 /\ ~ws[service[k]].isOpen /\ ws[service[k]].sock = "closed"

(* The current service is the last call's.  Before its socket opens nothing   *)
(* is shown, queued or held; once it has closed the room is still to be left, *)
(* or is left.                                                                *)
CurrentCall ==
  peerService # 0 =>
    /\ calls # 0 /\ service[calls] = peerService
    /\ Has(handler, "failed") => ws[peerService].sock = "closed"
    /\ ~ws[peerService].isOpen =>
         /\ ~Has(handler, "open") /\ ~Has(handler, "peers") /\ ~Shows
         /\ peer[peerService].exec = <<>> /\ ~peer[peerService].media /\ wsService = peerService
    /\ ws[peerService].sock = "closed" =>
         \/ Ended(handler, "failed", "peers")
         \/ /\ ~Has(handler, "peers")
            /\ \/ Ended(peer[peerService].exec, "exit", "peers")
               \/ ~Has(peer[peerService].exec, "peers") /\ ~peer[peerService].media

ManagerInv == ManagerState /\ PastAtRest /\ OpenedIsOpen /\ ToldRight /\ CurrentCall

(* A task is put at the end of a queue.                                       *)
LEMMA Queued ==
  ASSUME NEW S, NEW s \in Seq(S), NEW x \in S
  PROVE  /\ Append(s, x) \in Seq(S)
         /\ \A y : Has(Append(s, x), y) <=> Has(s, y) \/ y = x
         /\ \A y : Ended(Append(s, x), x, y)
         /\ \A last, y : Ended(s, last, y) /\ x # y => Ended(Append(s, x), last, y)
<1> DEFINE t == Append(s, x)
<1>1. /\ t \in Seq(S) /\ Len(s) \in Nat /\ DOMAIN s = 1..Len(s) /\ DOMAIN t = 1..(Len(s) + 1)
      /\ t[Len(s) + 1] = x /\ \A i \in DOMAIN s : t[i] = s[i]
  BY AppendProperties, LenProperties
<1> HIDE DEF t
<1>2. \A y : Has(t, y) <=> Has(s, y) \/ y = x
  BY <1>1 DEF Has
<1>3. \A y : Ended(t, x, y)
  BY <1>1 DEF Ended
<1>4. \A last, y : Ended(s, last, y) /\ x # y => Ended(t, last, y)
  BY <1>1 DEF Ended
<1> QED BY <1>1, <1>2, <1>3, <1>4 DEF t

(* The first task of a queue is taken.                                        *)
LEMMA Taken ==
  ASSUME NEW S, NEW s \in Seq(S), s # << >>
  PROVE  /\ Tail(s) \in Seq(S) /\ Head(s) \in S
         /\ \A y : Has(s, y) <=> Has(Tail(s), y) \/ y = Head(s)
         /\ \A last, y : Ended(s, last, y) => Ended(Tail(s), last, y) \/ (Head(s) = last /\ ~Has(Tail(s), y))
<1> DEFINE t == Tail(s)
           h == Head(s)
<1>1. /\ t \in Seq(S) /\ h \in S /\ Len(s) \in Nat \ {0} /\ DOMAIN s = 1..Len(s) /\ DOMAIN t = 1..(Len(s) - 1)
      /\ s[1] = h /\ \A i \in DOMAIN t : t[i] = s[i + 1]
  BY HeadTailProperties, LenProperties, EmptySeq
<1> HIDE DEF t, h
<1>2. \A i \in DOMAIN s : i = 1 \/ (i - 1 \in DOMAIN t /\ t[i - 1] = s[i])
  BY <1>1
<1>3. \A y : Has(s, y) <=> Has(t, y) \/ y = h
  <2>1. ASSUME NEW y, NEW i \in DOMAIN t, t[i] = y PROVE Has(s, y)
    BY <1>1, <2>1 DEF Has
  <2>2. ASSUME NEW y, NEW i \in DOMAIN s, s[i] = y PROVE Has(t, y) \/ y = h
    BY <1>1, <1>2, <2>2 DEF Has
  <2>3. 1 \in DOMAIN s
    BY <1>1
  <2> QED BY <1>1, <2>1, <2>2, <2>3 DEF Has
<1>4. ASSUME NEW last, NEW y, Ended(s, last, y) PROVE Ended(t, last, y) \/ (h = last /\ ~Has(t, y))
  <2>1. PICK i \in DOMAIN s : s[i] = last /\ \A j \in DOMAIN s : j > i => s[j] # y
    BY <1>4 DEF Ended
  <2>2. \A j \in DOMAIN t : j + 1 > i => t[j] # y
    BY <1>1, <2>1
  <2>3. CASE i = 1
    BY <1>1, <2>1, <2>2, <2>3 DEF Has
  <2>4. CASE i # 1
    <3>1. i - 1 \in DOMAIN t /\ t[i - 1] = last
      BY <1>2, <2>1, <2>4
    <3>2. \A j \in DOMAIN t : j > i - 1 => t[j] # y
      BY <1>1, <2>2
    <3> QED BY <3>1, <3>2 DEF Ended
  <2> QED BY <2>3, <2>4
<1> QED BY <1>1, <1>3, <1>4 DEF t, h

(* Nothing is in an empty queue.                                              *)
LEMMA NothingQueued == \A y : ~Has(<< >>, y)
BY DEF Has

(* One of a list of records is replaced.                                      *)
LEMMA Replaced ==
  ASSUME NEW S, NEW s \in Seq(S), NEW n \in 1..Len(s), NEW o \in S
  PROVE  LET t == [s EXCEPT ![n] = o] IN
           /\ t \in Seq(S) /\ Len(t) = Len(s) /\ t[n] = o
           /\ \A m \in 1..Len(s) : m # n => t[m] = s[m]
BY ExceptSeq, LenProperties

(* The invariant at the start.                                                *)
LEMMA ManagerStart == ASSUME CallManagerAssumption, ManagerInit PROVE ManagerInv
<1>1. ManagerState
  <2>1. << >> \in Seq(Socket) /\ << >> \in Seq(Room) /\ << >> \in Seq(Post) /\ Len(<< >>) = 0
    BY EmptySeq
  <2>2. "none" \in Shown
    BY DEF Shown
  <2>3. service \in [CallNo -> 0..0] /\ screens \in [CallNo -> Shown] /\ told \in [CallNo -> SUBSET {"success", "failed"}]
    BY <2>2 DEF ManagerInit
  <2>4. calls \in 0..MaxCalls /\ threw \in BOOLEAN
    <3>1. 0 \in 0..MaxCalls
      BY DEF CallManagerAssumption
    <3>2. calls = 0 /\ threw \in BOOLEAN
      BY Zenon DEF ManagerInit
    <3> QED BY <3>1, <3>2
  <2>5. \A k \in CallNo : service[k] = 0
    BY DEF ManagerInit
  <2> QED BY <2>1, <2>3, <2>4, <2>5 DEF ManagerInit, ManagerState
<1>2. PastAtRest /\ OpenedIsOpen /\ ToldRight /\ CurrentCall
  BY EmptySeq DEF ManagerInit, PastAtRest, OpenedIsOpen, ToldRight, CurrentCall, Shows
<1> QED BY <1>1, <1>2 DEF ManagerInv

(* The kinds of what the manager works with.                                  *)
LEMMA Kinds ==
  ASSUME ManagerInv
  PROVE  /\ Len(ws) \in Nat /\ peerService \in Nat
         /\ peerService # 0 => peerService \in 1..Len(ws)
         /\ \A n \in 1..Len(ws) : /\ ws[n] \in Socket /\ ws[n].sock \in Sock
                                  /\ ws[n].isOpen \in BOOLEAN /\ ws[n].joined \in BOOLEAN
                                  /\ peer[n] \in Room /\ peer[n].exec \in Seq({"peers", "exit"})
                                  /\ peer[n].media \in BOOLEAN
<1>1. ManagerState
  BY DEF ManagerInv
<1>2. Len(ws) \in Nat /\ ws \in Seq(Socket) /\ peer \in Seq(Room) /\ Len(peer) = Len(ws) /\ peerService \in 0..Len(ws)
  BY <1>1, LenProperties DEF ManagerState
<1>3. \A n \in 1..Len(ws) : ws[n] \in Socket /\ peer[n] \in Room
  BY <1>2, ElementOfSeq
<1> QED BY <1>2, <1>3 DEF Socket, Room

(* An event of a socket: only the current service has any.                    *)
LEMMA SocketMoves ==
  ASSUME ManagerInv, NEW n \in 1..Len(ws), ws[n].sock # "closed", NEW o \in Socket,
         ws' = [ws EXCEPT ![n] = o], handler' \in Seq(Post),
         UNCHANGED <<wsService, peerService, callback, calls, service, peer, screens, told, threw>>,
         (ws[n].isOpen => o.isOpen) /\ (o.sock = "open" \/ o.joined => o.isOpen),
         Has(handler', "failed") => o.sock = "closed",
         Has(handler', "open") \/ Has(handler', "peers") => o.isOpen,
         o.sock = "closed" => Ended(handler', "failed", "peers")
  PROVE  ManagerInv'
<1>1. ManagerState /\ PastAtRest /\ OpenedIsOpen /\ ToldRight /\ CurrentCall
  BY DEF ManagerInv
<1>2. n = peerService /\ n # 0 /\ Len(ws) \in Nat
  BY <1>1, Kinds DEF PastAtRest
<1>3. /\ ws' \in Seq(Socket) /\ Len(ws') = Len(ws) /\ ws'[n] = o
      /\ \A m \in 1..Len(ws) : m # n => ws'[m] = ws[m]
  BY <1>1, Replaced DEF ManagerState
<1>4. ManagerState'
  BY <1>1, <1>3 DEF ManagerState
<1>5. PastAtRest'
  BY <1>1, <1>2, <1>3 DEF PastAtRest, Shows
<1>6. OpenedIsOpen'
  BY <1>1, <1>3 DEF OpenedIsOpen
<1>7. ToldRight'
  <2> SUFFICES ASSUME NEW k \in CallNo
               PROVE  /\ "success" \in told[k] => service[k] # 0 /\ ws'[service[k]].isOpen
                      /\ "failed" \in told[k] => service[k] # 0 /\ ~ws'[service[k]].isOpen /\ ws'[service[k]].sock = "closed"
    BY DEF ToldRight
  <2>1. service[k] # 0 => service[k] \in 1..Len(ws)
    BY <1>1, <1>2 DEF ManagerState
  <2>2. CASE service[k] = n
    BY <1>1, <1>2, <1>3, <2>2 DEF ToldRight
  <2>3. CASE service[k] # n
    BY <1>1, <1>3, <2>1, <2>3 DEF ToldRight
  <2> QED BY <2>2, <2>3
<1>8. CurrentCall'
  BY <1>1, <1>2, <1>3 DEF CurrentCall, Shows
<1> QED BY <1>4, <1>5, <1>6, <1>7, <1>8 DEF ManagerInv

(* onOpen, onError, onClose and onMessage.                                    *)
LEMMA SocketStep ==
  ASSUME ManagerInv, NEW n \in 1..Len(ws), onOpen(n) \/ Refused(n) \/ onClose(n) \/ onMessage(n)
  PROVE  ManagerInv'
<1>1. ManagerState /\ PastAtRest /\ OpenedIsOpen /\ ToldRight /\ CurrentCall
  BY DEF ManagerInv
<1>2. ws[n].sock # "closed"
  BY DEF onOpen, Refused, onClose, onMessage
<1>3. n = peerService /\ n # 0 /\ ~Has(handler, "failed")
  BY <1>1, <1>2, Kinds DEF PastAtRest, CurrentCall
<1>4. handler \in Seq(Post) /\ "open" \in Post /\ "failed" \in Post /\ "peers" \in Post
  BY <1>1 DEF ManagerState, Post
<1>5. UNCHANGED <<wsService, peerService, callback, calls, service, peer, screens, told, threw>>
  BY DEF onOpen, Refused, onClose, onMessage, Posts
<1>6. PICK w \in Socket : w = ws[n]
  BY Kinds
<1>7. Has(handler, "open") \/ Has(handler, "peers") => w.isOpen
  BY <1>1, <1>3, <1>6, Kinds DEF CurrentCall
<1>8. w.sock = "open" \/ w.joined => w.isOpen
  BY <1>1, <1>6 DEF OpenedIsOpen
<1>9. CASE onOpen(n)
  <2> DEFINE o == [w EXCEPT !.sock = "open", !.isOpen = TRUE]
  <2>1. o \in Socket /\ o.sock = "open" /\ o.isOpen
    BY DEF Socket, Sock
  <2>2. ws' = [ws EXCEPT ![n] = o]
    BY <1>6, <1>9 DEF onOpen
  <2>3. handler' = Append(handler, "open")
    BY <1>4, <1>9 DEF onOpen, Posts
  <2> HIDE DEF o
  <2> QED BY <1>2, <1>3, <1>4, <1>5, <1>6, <2>1, <2>2, <2>3, Queued, SocketMoves
<1>10. CASE Refused(n)
  <2> DEFINE o == [w EXCEPT !.sock = "closed"]
  <2>1. o \in Socket /\ o.sock = "closed" /\ o.isOpen = w.isOpen /\ o.joined = w.joined
    BY DEF Socket, Sock
  <2>2. ws' = [ws EXCEPT ![n] = o]
    BY <1>6, <1>10 DEF Refused
  <2> DEFINE q == Append(handler, "failed")
  <2>3. handler' = Append(q, "failed")
    BY <1>4, <1>10 DEF Refused, Posts
  <2>4. q \in Seq(Post) /\ \A y : Has(q, y) <=> Has(handler, y) \/ y = "failed"
    BY <1>4, Queued
  <2> HIDE DEF o, q
  <2>5. /\ handler' \in Seq(Post) /\ Ended(handler', "failed", "peers")
        /\ \A y : Has(handler', y) <=> Has(handler, y) \/ y = "failed"
    BY <1>4, <2>3, <2>4, Queued
  <2> QED BY <1>2, <1>5, <1>6, <1>7, <1>8, <2>1, <2>2, <2>5, SocketMoves
<1>11. CASE onClose(n)
  <2> DEFINE o == [w EXCEPT !.sock = "closed"]
  <2>1. o \in Socket /\ o.sock = "closed" /\ o.isOpen = w.isOpen /\ o.joined = w.joined
    BY DEF Socket, Sock
  <2>2. ws' = [ws EXCEPT ![n] = o]
    BY <1>6, <1>11 DEF onClose
  <2>3. handler' = Append(handler, "failed")
    BY <1>4, <1>11 DEF onClose, Posts
  <2> HIDE DEF o
  <2>5. /\ handler' \in Seq(Post) /\ Ended(handler', "failed", "peers")
        /\ \A y : Has(handler', y) <=> Has(handler, y) \/ y = "failed"
    BY <1>4, <2>3, Queued
  <2> QED BY <1>2, <1>5, <1>6, <1>7, <1>8, <2>1, <2>2, <2>5, SocketMoves
<1>12. CASE onMessage(n)
  <2> DEFINE o == [w EXCEPT !.joined = FALSE]
  <2>1. o \in Socket /\ o.sock = w.sock /\ o.isOpen = w.isOpen /\ ~o.joined /\ w.joined
    BY <1>6, <1>12 DEF Socket, onMessage
  <2>2. ws' = [ws EXCEPT ![n] = o]
    BY <1>6, <1>12 DEF onMessage
  <2>3. handler' = Append(handler, "peers")
    BY <1>4, <1>12 DEF onMessage, Posts
  <2> HIDE DEF o
  <2>5. handler' \in Seq(Post) /\ \A y : Has(handler', y) <=> Has(handler, y) \/ y = "peers"
    BY <1>4, <2>3, Queued
  <2> QED BY <1>2, <1>3, <1>5, <1>6, <1>8, <2>1, <2>2, <2>5, SocketMoves
<1> QED BY <1>9, <1>10, <1>11, <1>12

(* What is left to do changes: a task of the main thread is done, PeerService *)
(* gets one, and a call or its screen is told.                                *)
LEMMA PostRuns ==
  ASSUME ManagerInv, peerService # 0, handler # << >>, handler' = Tail(handler),
         UNCHANGED <<wsService, peerService, callback, calls, service, ws, threw>>,
         NEW o \in Room, peer' = [peer EXCEPT ![peerService] = o],
         screens' \in [CallNo -> Shown], told' \in [CallNo -> SUBSET {"success", "failed"}],
         ToldRight', Shows' => ws[peerService].isOpen,
         ~ws[peerService].isOpen => o.exec = << >> /\ ~o.media,
         ws[peerService].sock = "closed" =>
           \/ Ended(handler', "failed", "peers")
           \/ ~Has(handler', "peers") /\ (Ended(o.exec, "exit", "peers") \/ (~Has(o.exec, "peers") /\ ~o.media))
  PROVE  ManagerInv'
<1>1. ManagerState /\ PastAtRest /\ OpenedIsOpen /\ ToldRight /\ CurrentCall
  BY DEF ManagerInv
<1>2. peerService \in 1..Len(ws) /\ handler \in Seq(Post) /\ peer \in Seq(Room) /\ Len(peer) = Len(ws)
  BY <1>1, Kinds DEF ManagerState
<1>3. /\ peer' \in Seq(Room) /\ Len(peer') = Len(ws) /\ peer'[peerService] = o
      /\ \A m \in 1..Len(ws) : m # peerService => peer'[m] = peer[m]
  BY <1>2, Replaced
<1>4. handler' \in Seq(Post) /\ \A y : Has(handler', y) => Has(handler, y)
  BY <1>2, Taken
<1>5. ManagerState'
  BY <1>1, <1>3, <1>4 DEF ManagerState
<1>6. PastAtRest' /\ OpenedIsOpen'
  BY <1>1, <1>3 DEF PastAtRest, OpenedIsOpen
<1>7. CurrentCall'
  BY <1>1, <1>3, <1>4 DEF CurrentCall
<1> QED BY <1>5, <1>6, <1>7 DEF ManagerInv

(* exitRoom and onJoinToRoom give PeerService a task.                         *)
LEMMA Given ==
  ASSUME NEW p \in Room, NEW task \in {"peers", "exit"}
  PROVE  /\ Queue(p, task) \in Room /\ Queue(p, task).media = p.media
         /\ Queue(p, task).exec = Append(p.exec, task)
         /\ \A y : Has(Queue(p, task).exec, y) <=> Has(p.exec, y) \/ y = task
         /\ \A y : Ended(Queue(p, task).exec, task, y)
         /\ \A last, y : Ended(p.exec, last, y) /\ task # y => Ended(Queue(p, task).exec, last, y)
<1>1. p.exec \in Seq({"peers", "exit"}) /\ Append(p.exec, task) \in Seq({"peers", "exit"})
  BY AppendProperties DEF Room
<1>2. Queue(p, task) \in Room /\ Queue(p, task).media = p.media /\ Queue(p, task).exec = Append(p.exec, task)
  BY <1>1 DEF Room, Queue
<1> QED BY <1>1, <1>2, Queued

(* A task of the main thread.                                                 *)
LEMMA PostStep ==
  ASSUME ManagerInv, RunHandler
  PROVE  ManagerInv'
<1> DEFINE p == peerService
           h == Head(handler)
<1>1. ManagerState /\ PastAtRest /\ OpenedIsOpen /\ ToldRight /\ CurrentCall
  BY DEF ManagerInv
<1>2. /\ handler # << >> /\ handler' = Tail(handler)
      /\ UNCHANGED <<wsService, peerService, callback, calls, service, ws, threw>>
  BY DEF RunHandler
<1>3. p # 0
  BY <1>1, <1>2 DEF PastAtRest
<1>4. /\ handler \in Seq(Post) /\ screens \in [CallNo -> Shown] /\ callback = calls
      /\ calls \in CallNo /\ service[calls] = p /\ wsService \in {0, p}
      /\ told \in [CallNo -> SUBSET {"success", "failed"}] /\ service \in [CallNo -> 0..Len(ws)]
      /\ peer \in Seq(Room) /\ Len(peer) = Len(ws) /\ p \in 1..Len(ws)
  BY <1>1, <1>3, Kinds DEF ManagerState, CurrentCall, CallNo
<1>5. PICK r \in Room : r = peer[p]
  BY <1>4, ElementOfSeq
<1>6. /\ h \in Post
      /\ \A y : Has(handler, y) <=> Has(handler', y) \/ y = h
      /\ Ended(handler, "failed", "peers") => Ended(handler', "failed", "peers") \/ (h = "failed" /\ ~Has(handler', "peers"))
  BY <1>2, <1>4, Taken
<1>7. peer = [peer EXCEPT ![p] = r]
  BY <1>4, <1>5
<1>8. /\ ~ws[p].isOpen => r.exec = << >> /\ ~r.media /\ ~Shows /\ wsService = p
      /\ ws[p].sock = "closed" =>
           \/ Ended(handler, "failed", "peers")
           \/ ~Has(handler, "peers") /\ (Ended(r.exec, "exit", "peers") \/ (~Has(r.exec, "peers") /\ ~r.media))
      /\ Has(handler, "open") \/ Has(handler, "peers") => ws[p].isOpen
      /\ Has(handler, "failed") => ws[p].sock = "closed"
  BY <1>1, <1>3, <1>5 DEF CurrentCall
<1> HIDE DEF p, h
<1>9. CASE h = "open"
  <2>1. /\ peer' = peer
        /\ told' = [told EXCEPT ![calls] = @ \cup {"success"}]
        /\ screens' = [screens EXCEPT ![calls] = IF @ = "none" THEN "starting" ELSE @]
    BY <1>4, <1>9 DEF RunHandler, onSuccess, h
  <2>2. ws[p].isOpen
    BY <1>6, <1>8, <1>9
  <2>3. ToldRight'
    BY <1>1, <1>2, <1>3, <1>4, <2>1, <2>2 DEF ToldRight
  <2>4. screens' \in [CallNo -> Shown] /\ told' \in [CallNo -> SUBSET {"success", "failed"}]
    BY <1>4, <2>1 DEF Shown
  <2>5. peer' = [peer EXCEPT ![peerService] = r]
    BY <1>7, <2>1 DEF p
  <2> QED BY <1>2, <1>3, <1>5, <1>6, <1>8, <1>9, <2>2, <2>3, <2>4, <2>5, PostRuns DEF p
<1>10. CASE h = "peers"
  <2> DEFINE o == Queue(r, "peers")
  <2>1. peer' = [peer EXCEPT ![p] = o] /\ screens' = screens /\ told' = told
    BY <1>3, <1>4, <1>5, <1>10 DEF RunHandler, onJoinToRoom, h, p
  <2>2. ws[p].isOpen
    BY <1>6, <1>8, <1>10
  <2>3. ToldRight'
    BY <1>1, <1>2, <2>1 DEF ToldRight
  <2>4. o \in Room
    BY Given
  <2>5. ws[p].sock = "closed" => Ended(handler', "failed", "peers")
    BY <1>6, <1>8, <1>10
  <2> HIDE DEF o
  <2> QED BY <1>2, <1>3, <1>4, <2>1, <2>2, <2>3, <2>4, <2>5, PostRuns DEF p
<1>11. CASE h = "failed"
  <2>1. Has(handler, "failed") /\ ws[p].sock = "closed"
    BY <1>6, <1>8, <1>11
  <2>2. screens' = screens /\ onWebSocketOpenFailed
    BY <1>11 DEF RunHandler, h
  <2>3. CASE OpenFailed
    <3>1. ~ws[p].isOpen /\ peer' = peer /\ told' = [told EXCEPT ![calls] = @ \cup {"failed"}]
      BY <1>4, <2>2, <2>3 DEF onWebSocketOpenFailed, OpenFailed
    <3>2. ToldRight'
      BY <1>1, <1>2, <1>3, <1>4, <2>1, <3>1 DEF ToldRight
    <3>3. told' \in [CallNo -> SUBSET {"success", "failed"}]
      BY <1>4, <3>1
    <3>4. peer' = [peer EXCEPT ![peerService] = r]
      BY <1>7, <3>1 DEF p
    <3>5. ~Has(handler', "peers") /\ ~Has(r.exec, "peers") /\ ~r.media
      BY <1>6, <1>8, <3>1, NothingQueued
    <3>6. ~Shows'
      BY <1>8, <2>2, <3>1 DEF Shows
    <3> QED BY <1>2, <1>3, <1>4, <1>5, <1>8, <2>2, <3>1, <3>2, <3>3, <3>4, <3>5, <3>6, PostRuns DEF p
  <2>4. CASE ~OpenFailed
    <3> DEFINE o == Queue(r, "exit")
    <3>1. peer' = [peer EXCEPT ![p] = o] /\ told' = told
      BY <1>3, <1>4, <1>5, <2>2, <2>4 DEF onWebSocketOpenFailed, PeerExit, p
    <3>2. ws[p].isOpen
      BY <1>3, <1>4, <1>8, <2>4 DEF OpenFailed
    <3>3. ToldRight'
      BY <1>1, <1>2, <3>1 DEF ToldRight
    <3>4. o \in Room /\ Ended(o.exec, "exit", "peers")
      BY Given
    <3>5. Ended(handler', "failed", "peers") \/ ~Has(handler', "peers")
      BY <1>6, <1>8, <2>1
    <3> HIDE DEF o
    <3> QED BY <1>2, <1>3, <1>4, <2>2, <3>1, <3>2, <3>3, <3>4, <3>5, PostRuns DEF p
  <2> QED BY <2>3, <2>4
<1> QED BY <1>6, <1>9, <1>10, <1>11 DEF Post

(* A screen is there only in a call that was connected.                       *)
LEMMA ShownIsOpen ==
  ASSUME ManagerInv, NEW k \in CallNo, screens[k] \notin {"none", "destroyed"}
  PROVE  /\ peerService \in 1..Len(ws) /\ ws[peerService].isOpen
         /\ wsService \in {0, peerService}
<1>1. Shows /\ ManagerState /\ PastAtRest /\ CurrentCall
  BY DEF Shows, ManagerInv
<1> QED BY <1>1, Kinds DEF PastAtRest, CurrentCall, ManagerState

(* The current service of an open call changes, and nothing that was posted;  *)
(* its end, if it has come, is still in sight.                                *)
LEMMA ServiceMoves ==
  ASSUME ManagerInv, peerService \in 1..Len(ws), ws[peerService].isOpen,
         NEW w \in Socket, ws' = [ws EXCEPT ![peerService] = w],
         NEW o \in Room, peer' = [peer EXCEPT ![peerService] = o],
         wsService' \in {0, peerService}, screens' \in [CallNo -> Shown], threw' \in BOOLEAN,
         UNCHANGED <<peerService, callback, calls, service, handler, told>>,
         w.isOpen, ws[peerService].sock = "closed" <=> w.sock = "closed",
         w.sock = "closed" /\ ~Ended(handler, "failed", "peers") =>
           Ended(o.exec, "exit", "peers") \/ (~Has(o.exec, "peers") /\ ~o.media)
  PROVE  ManagerInv'
<1> DEFINE p == peerService
<1>1. ManagerState /\ PastAtRest /\ OpenedIsOpen /\ ToldRight /\ CurrentCall
  BY DEF ManagerInv
<1>2. p # 0 /\ Len(ws) \in Nat
  BY Kinds
<1>3. /\ ws' \in Seq(Socket) /\ Len(ws') = Len(ws) /\ ws'[p] = w
      /\ \A m \in 1..Len(ws) : m # p => ws'[m] = ws[m]
  BY <1>1, Replaced DEF ManagerState
<1>4. /\ peer' \in Seq(Room) /\ Len(peer') = Len(ws) /\ peer'[p] = o
      /\ \A m \in 1..Len(ws) : m # p => peer'[m] = peer[m]
  BY <1>1, Replaced DEF ManagerState
<1>5. ManagerState'
  BY <1>1, <1>3, <1>4 DEF ManagerState
<1>6. PastAtRest' /\ OpenedIsOpen'
  BY <1>1, <1>2, <1>3, <1>4 DEF PastAtRest, OpenedIsOpen
<1>7. ToldRight'
  <2> SUFFICES ASSUME NEW k \in CallNo
               PROVE  /\ "success" \in told[k] => service[k] # 0 /\ ws'[service[k]].isOpen
                      /\ "failed" \in told[k] => service[k] # 0 /\ ~ws'[service[k]].isOpen /\ ws'[service[k]].sock = "closed"
    BY DEF ToldRight
  <2>1. service[k] # 0 => service[k] \in 1..Len(ws)
    BY <1>1, <1>2 DEF ManagerState
  <2>2. CASE service[k] = p
    BY <1>1, <1>2, <1>3, <2>2 DEF ToldRight
  <2>3. CASE service[k] # p
    BY <1>1, <1>3, <2>1, <2>3 DEF ToldRight
  <2> QED BY <2>2, <2>3
<1>8. CurrentCall'
  BY <1>1, <1>2, <1>3, <1>4 DEF CurrentCall
<1> QED BY <1>5, <1>6, <1>7, <1>8 DEF ManagerInv

(* The screens: startCall, hangUp, onDestroy.                                 *)
LEMMA ScreenStep ==
  ASSUME ManagerInv, NEW k \in CallNo,
         onCreate(k) \/ hangUp(k) \/ \E granted \in BOOLEAN : onRequestPermissionsResult(k, granted)
  PROVE  ManagerInv'
<1> DEFINE p == peerService
<1>1. ManagerState /\ PastAtRest /\ OpenedIsOpen /\ ToldRight /\ CurrentCall
  BY DEF ManagerInv
<1>2. screens[k] \notin {"none", "destroyed"}
  BY DEF onCreate, hangUp, onRequestPermissionsResult
<1>3. p \in 1..Len(ws) /\ ws[p].isOpen /\ wsService \in {0, p}
  BY <1>2, ShownIsOpen
<1>4. /\ screens \in [CallNo -> Shown] /\ ws \in Seq(Socket) /\ peer \in Seq(Room) /\ Len(peer) = Len(ws)
      /\ threw \in BOOLEAN /\ Len(ws) \in Nat
  BY <1>1, Kinds DEF ManagerState
<1>5. PICK w \in Socket : w = ws[p]
  BY <1>3, <1>4, ElementOfSeq
<1>6. PICK r \in Room : r = peer[p]
  BY <1>3, <1>4, ElementOfSeq
<1>7. ws = [ws EXCEPT ![p] = w] /\ peer = [peer EXCEPT ![p] = r]
  BY <1>3, <1>4, <1>5, <1>6
<1>8. w.sock = "closed" /\ ~Ended(handler, "failed", "peers") =>
        Ended(r.exec, "exit", "peers") \/ (~Has(r.exec, "peers") /\ ~r.media)
  BY <1>1, <1>3, <1>4, <1>5, <1>6 DEF CurrentCall
<1>9. /\ UNCHANGED <<peerService, callback, calls, service, handler, told>>
      /\ screens' \in [CallNo -> Shown]
  BY <1>4 DEF onCreate, hangUp, onRequestPermissionsResult, Shown
<1>10. CASE hangUp(k)
  <2> DEFINE o == Queue(r, "exit")
  <2>1. ws' = ws /\ wsService' = 0 /\ peer' = [peer EXCEPT ![p] = o] /\ threw' = threw
    BY <1>3, <1>4, <1>6, <1>10 DEF hangUp, exitRoom, PeerExit
  <2>2. o \in Room /\ Ended(o.exec, "exit", "peers")
    BY Given
  <2> HIDE DEF o
  <2>3. ws' = [ws EXCEPT ![p] = w]
    BY <1>7, <2>1
  <2> QED BY <1>3, <1>4, <1>5, <1>9, <2>1, <2>2, <2>3, ServiceMoves
<1>11. ASSUME ws' = ws, peer' = peer, wsService' = wsService, threw' \in BOOLEAN
       PROVE  ManagerInv'
  <2>1. ws' = [ws EXCEPT ![p] = w] /\ peer' = [peer EXCEPT ![p] = r]
    BY <1>7, <1>11
  <2> QED BY <1>3, <1>5, <1>6, <1>8, <1>9, <1>11, <2>1, ServiceMoves
<1>12. ASSUME joinRoom, peer' = peer, wsService' = wsService
       PROVE  ManagerInv'
  <2>1. threw' \in BOOLEAN
    BY <1>12 DEF joinRoom
  <2>2. CASE wsService # 0 /\ ws[wsService].sock = "open"
    <3> DEFINE v == [w EXCEPT !.joined = TRUE]
    <3>1. v \in Socket /\ v.sock = w.sock /\ v.isOpen = w.isOpen
      BY DEF Socket
    <3>2. ws' = [ws EXCEPT ![p] = v]
      BY <1>3, <1>5, <1>12, <2>2 DEF joinRoom
    <3> HIDE DEF v
    <3>3. peer' = [peer EXCEPT ![p] = r]
      BY <1>7, <1>12
    <3> QED BY <1>3, <1>5, <1>6, <1>8, <1>9, <1>12, <2>1, <3>1, <3>2, <3>3, ServiceMoves
  <2>3. CASE ~(wsService # 0 /\ ws[wsService].sock = "open")
    BY <1>11, <1>12, <2>1, <2>3 DEF joinRoom
  <2> QED BY <2>2, <2>3
<1>13. CASE onCreate(k)
  BY <1>4, <1>11, <1>12, <1>13 DEF onCreate
<1>14. CASE \E granted \in BOOLEAN : onRequestPermissionsResult(k, granted)
  BY <1>12, <1>14 DEF onRequestPermissionsResult
<1> QED BY <1>10, <1>13, <1>14

(* A task of PeerService.                                                     *)
LEMMA ExecStep ==
  ASSUME ManagerInv, NEW n \in 1..Len(ws), RunExec(n)
  PROVE  ManagerInv'
<1>1. ManagerState /\ PastAtRest /\ OpenedIsOpen /\ ToldRight /\ CurrentCall
  BY DEF ManagerInv
<1>2. n = peerService /\ peer[n].exec # << >>
  BY <1>1 DEF RunExec, PastAtRest
<1>3. /\ ws[n].isOpen /\ wsService \in {0, n} /\ screens \in [CallNo -> Shown] /\ threw \in BOOLEAN
      /\ ws \in Seq(Socket) /\ peer \in Seq(Room) /\ Len(peer) = Len(ws) /\ n # 0 /\ Len(ws) \in Nat
  BY <1>1, <1>2, Kinds DEF ManagerState, CurrentCall
<1>4. PICK w \in Socket : w = ws[n]
  BY <1>3, ElementOfSeq
<1>5. PICK r \in Room : r = peer[n]
  BY <1>3, ElementOfSeq
<1> DEFINE t == [r EXCEPT !.exec = Tail(@)]
           q == Tail(r.exec)
           h == Head(r.exec)
<1>6. r.exec \in Seq({"peers", "exit"}) /\ r.exec # << >> /\ r.media \in BOOLEAN /\ r.webSocket \in BOOLEAN
  BY <1>2, <1>5 DEF Room
<1>7. /\ q \in Seq({"peers", "exit"}) /\ h \in {"peers", "exit"}
      /\ \A y : Has(r.exec, y) <=> Has(q, y) \/ y = h
      /\ Ended(r.exec, "exit", "peers") => Ended(q, "exit", "peers") \/ (h = "exit" /\ ~Has(q, "peers"))
  BY <1>6, Taken
<1>8. w.sock = "closed" /\ ~Ended(handler, "failed", "peers") =>
        Ended(r.exec, "exit", "peers") \/ (~Has(r.exec, "peers") /\ ~r.media)
  BY <1>1, <1>2, <1>3, <1>4, <1>5 DEF CurrentCall
<1>9. /\ UNCHANGED <<wsService, peerService, callback, calls, service, handler, screens, told, threw>>
  BY DEF RunExec
<1>10. t \in Room /\ t.exec = q /\ t.media = r.media /\ t.webSocket = r.webSocket
  BY <1>6, <1>7 DEF Room
<1>11. ws = [ws EXCEPT ![n] = w]
  BY <1>3, <1>4
<1>12. CASE h = "exit"
  <2> DEFINE o == Exited(t)
             v == Closing(w)
  <2>1. /\ peer' = [peer EXCEPT ![n] = o]
        /\ ws' = IF t.webSocket THEN [ws EXCEPT ![n] = v] ELSE ws
    BY <1>4, <1>5, <1>12 DEF RunExec
  <2>2. o \in Room /\ o.exec = q /\ ~o.media
    BY <1>10 DEF Exited, Room
  <2>3. v \in Socket /\ (v.sock = "closed" <=> w.sock = "closed") /\ v.isOpen = w.isOpen
    BY DEF Closing, Socket, Sock
  <2> HIDE DEF o, v, t, q, h
  <2>4. PICK u \in {v, w} : ws' = [ws EXCEPT ![n] = u]
    BY <1>11, <2>1
  <2>5. u \in Socket /\ (w.sock = "closed" <=> u.sock = "closed") /\ u.isOpen
    BY <1>3, <1>4, <2>3
  <2>6. u.sock = "closed" /\ ~Ended(handler, "failed", "peers") =>
          Ended(o.exec, "exit", "peers") \/ (~Has(o.exec, "peers") /\ ~o.media)
    BY <1>7, <1>8, <2>2, <2>5
  <2> QED BY <1>2, <1>3, <1>4, <1>9, <2>1, <2>2, <2>4, <2>5, <2>6, ServiceMoves
<1>13. CASE h = "peers"
  <2> DEFINE o == [t EXCEPT !.media = TRUE]
  <2>1. peer' = [peer EXCEPT ![n] = o] /\ ws' = ws
    BY <1>4, <1>5, <1>13 DEF RunExec
  <2>2. o \in Room /\ o.exec = q
    BY <1>10 DEF Room
  <2> HIDE DEF o, t, q, h
  <2>3. w.sock = "closed" /\ ~Ended(handler, "failed", "peers") => Ended(o.exec, "exit", "peers")
    BY <1>7, <1>8, <1>13, <2>2
  <2>4. ws' = [ws EXCEPT ![n] = w]
    BY <1>11, <2>1
  <2> QED BY <1>2, <1>3, <1>4, <1>9, <2>1, <2>2, <2>3, <2>4, ServiceMoves
<1> QED BY <1>7, <1>12, <1>13

(* Nothing is held when nothing is left to run.                               *)
LEMMA AtRest ==
  ASSUME ManagerInv, Rests
  PROVE  \A n \in 1..Len(ws) : ws[n].sock = "closed" /\ peer[n].exec = << >> /\ ~peer[n].media
<1>1. ManagerState /\ PastAtRest /\ CurrentCall
  BY DEF ManagerInv
<1> SUFFICES ASSUME NEW n \in 1..Len(ws) PROVE ws[n].sock = "closed" /\ peer[n].exec = << >> /\ ~peer[n].media
  OBVIOUS
<1>2. ws[n].sock = "closed" /\ peer[n].exec = << >> /\ handler = << >>
  BY DEF Rests, Services
<1>3. \A last, y : ~Ended(<< >>, last, y)
  BY DEF Ended
<1>4. CASE n = peerService
  BY <1>1, <1>2, <1>3, <1>4, Kinds DEF CurrentCall
<1>5. CASE n # peerService
  BY <1>1, <1>5 DEF PastAtRest
<1> QED BY <1>2, <1>4, <1>5

(* A call when nothing is going on any more.                                  *)
LEMMA CallStep ==
  ASSUME CallManagerAssumption, Patient, ManagerInv, callSingle
  PROVE  ManagerInv'
<1> DEFINE N == Len(ws)
<1>1. ManagerState /\ PastAtRest /\ OpenedIsOpen /\ ToldRight /\ CurrentCall
  BY DEF ManagerInv
<1>2. /\ Rests /\ calls < MaxCalls /\ calls' = calls + 1 /\ callback' = calls + 1
      /\ UNCHANGED <<handler, screens, told, threw>>
  BY DEF callSingle
<1>3. /\ \A n \in 1..N : ws[n].sock = "closed" /\ peer[n].exec = << >> /\ ~peer[n].media
      /\ handler = << >> /\ ~Shows
  BY <1>2, AtRest DEF Rests, Shows
<1>4. /\ calls \in Nat /\ MaxCalls \in Nat /\ N \in Nat /\ calls + 1 \in CallNo /\ calls' \in 0..MaxCalls
  BY <1>1, <1>2, Kinds DEF ManagerState, CallManagerAssumption, CallNo
<1>5. /\ ws \in Seq(Socket) /\ peer \in Seq(Room) /\ Len(peer) = N /\ service \in [CallNo -> 0..N]
      /\ wsService \in {0, peerService} /\ peerService \in 0..N
  BY <1>1 DEF ManagerState
<1>6. \A k \in CallNo : k > calls => service[k] = 0 /\ told[k] = {}
  <2>1. \A k \in CallNo : told[k] \in SUBSET {"success", "failed"}
    BY <1>1 DEF ManagerState
  <2> QED BY <1>1, <2>1 DEF ManagerState, ToldRight
<1>7. CASE wsService = 0
  <2>1. /\ ws' = Append(ws, NewWs) /\ peer' = Append(peer, NewPeer)
        /\ wsService' = N + 1 /\ peerService' = N + 1
        /\ service' = [service EXCEPT ![calls + 1] = N + 1]
    BY <1>7 DEF callSingle, Services
  <2>2. NewWs \in Socket /\ NewPeer \in Room
    <3>1. << >> \in Seq({"peers", "exit"})
      BY EmptySeq
    <3> QED BY <3>1 DEF NewWs, NewPeer, Socket, Sock, Room
  <2>3. /\ ws' \in Seq(Socket) /\ Len(ws') = N + 1 /\ ws'[N + 1] = NewWs
        /\ \A n \in 1..N : ws'[n] = ws[n]
    BY <1>5, <2>1, <2>2, AppendProperties
  <2>4. /\ peer' \in Seq(Room) /\ Len(peer') = N + 1 /\ peer'[N + 1] = NewPeer
        /\ \A n \in 1..N : peer'[n] = peer[n]
    BY <1>5, <2>1, <2>2, AppendProperties
  <2>5. /\ ws'[N + 1].sock = "connecting" /\ ~ws'[N + 1].isOpen /\ ~ws'[N + 1].joined
        /\ peer'[N + 1].exec = << >> /\ ~peer'[N + 1].media
    BY <2>3, <2>4 DEF NewWs, NewPeer
  <2>6. /\ service' \in [CallNo -> 0..(N + 1)] /\ service'[calls + 1] = N + 1
        /\ \A k \in CallNo : k # calls + 1 => service'[k] = service[k]
    BY <1>4, <1>5, <2>1
  <2>7. ManagerState'
    <3>1. \A k \in CallNo : k > calls' => service'[k] = 0
      BY <1>2, <1>4, <1>6, <2>6 DEF CallNo
    <3> QED BY <1>1, <1>2, <1>4, <2>1, <2>3, <2>4, <2>6, <3>1 DEF ManagerState
  <2>8. PastAtRest'
    BY <1>3, <1>4, <2>1, <2>3, <2>4 DEF PastAtRest
  <2>9. OpenedIsOpen'
    BY <1>1, <1>4, <2>3, <2>5 DEF OpenedIsOpen
  <2>10. ToldRight'
    <3> SUFFICES ASSUME NEW k \in CallNo
                 PROVE  /\ "success" \in told[k] => service'[k] # 0 /\ ws'[service'[k]].isOpen
                        /\ "failed" \in told[k] => service'[k] # 0 /\ ~ws'[service'[k]].isOpen /\ ws'[service'[k]].sock = "closed"
      BY <1>2 DEF ToldRight
    <3>1. CASE k = calls + 1
      BY <1>4, <1>6, <3>1
    <3>2. CASE k # calls + 1
      <4>1. service'[k] = service[k] /\ (service[k] # 0 => service[k] \in 1..N)
        BY <1>4, <1>5, <2>6, <3>2
      <4> QED BY <1>1, <2>3, <4>1 DEF ToldRight
    <3> QED BY <3>1, <3>2
  <2>11. CurrentCall'
    <3>1. ~Shows' /\ \A y : ~Has(handler', y)
      BY <1>2, <1>3, NothingQueued DEF Shows
    <3>2. calls' # 0 /\ service'[calls'] = peerService' /\ wsService' = peerService'
      BY <1>2, <1>4, <2>1, <2>6
    <3> QED BY <2>1, <2>5, <3>1, <3>2 DEF CurrentCall
  <2> QED BY <2>7, <2>8, <2>9, <2>10, <2>11 DEF ManagerInv
<1>8. CASE wsService # 0
  <2>1. wsService \in 1..N /\ ws[wsService].sock = "closed"
    BY <1>3, <1>4, <1>5, <1>8
  <2>2. ws' = ws
    <3>1. ws' = [ws EXCEPT ![wsService] = Closing(@)]
      BY <1>8 DEF callSingle
    <3>2. Closing(ws[wsService]) = ws[wsService]
      BY <2>1 DEF Closing
    <3> QED BY <1>5, <2>1, <3>1, <3>2
  <2>3. wsService' = 0 /\ peerService' = 0 /\ peer' = peer /\ service' = service
    BY <1>8 DEF callSingle
  <2>4. ManagerState'
    <3>1. \A k \in CallNo : k > calls' => service'[k] = 0
      BY <1>2, <1>4, <1>6, <2>3 DEF CallNo
    <3> QED BY <1>1, <1>2, <1>4, <2>2, <2>3, <3>1 DEF ManagerState
  <2>5. PastAtRest' /\ OpenedIsOpen' /\ ToldRight' /\ CurrentCall'
    BY <1>1, <1>2, <1>3, <2>2, <2>3 DEF PastAtRest, OpenedIsOpen, ToldRight, CurrentCall, Shows
  <2> QED BY <2>4, <2>5 DEF ManagerInv
<1> QED BY <1>7, <1>8

(* Every step keeps the invariant.                                            *)
LEMMA ManagerStep ==
  ASSUME CallManagerAssumption, Patient, ManagerInv, [ManagerNext]_managerVars
  PROVE  ManagerInv'
<1>1. CASE UNCHANGED managerVars
  BY <1>1 DEF managerVars, ManagerInv, ManagerState, PastAtRest, OpenedIsOpen, ToldRight, CurrentCall, Shows
<1>2. CASE ManagerNext
  BY <1>2, CallStep, PostStep, SocketStep, ExecStep, ScreenStep DEF ManagerNext, Services
<1> QED BY <1>1, <1>2

(* For any number of calls one after the other, a call hears of its own       *)
(* connection only, and nothing is held once nothing is left to run.          *)
THEOREM CallsAlwaysKeptApart ==
  ASSUME CallManagerAssumption, Patient
  PROVE  ManagerSpec => []CallsKeptApart
<1>1. ManagerInit => ManagerInv
  BY ManagerStart
<1>2. ManagerInv /\ [ManagerNext]_managerVars => ManagerInv'
  BY ManagerStep
<1>3. ManagerInv => CallsKeptApart
  BY AtRest DEF ManagerInv, ToldRight, CallsKeptApart, ToldOfOwn, RestReleased, Services
<1> QED BY <1>1, <1>2, <1>3, PTL DEF ManagerSpec
=============================================================================
