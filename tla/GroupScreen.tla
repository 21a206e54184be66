----------------------------- MODULE GroupScreen -----------------------------
(* ChatGroupActivity, the screen of a group call, and its tiles.              *)
(*                                                                            *)
(* PeerService's executor and the signalling thread of the WebRTC library     *)
(* test viewCallback and then call it; the call posts a task for the main     *)
(* thread, which adds or removes a tile and lays out all of them (WidthUtil). *)
(* The main thread also leaves: it sets viewCallback to null, without a lock, *)
(* and releases what it has.  A tile is a SurfaceViewRenderer with its sink;  *)
(* tiles are numbered as they are made.                                       *)
EXTENDS Integers, Sequences, SequencesExt

CONSTANTS
  Members,       \* 1: this client, 2..Members: the others, by their first stream
  Leavers,       \* the others that may leave while the call goes on
  Widths,        \* screen widths
  MaxPosts       \* bound: tasks waiting for the main thread

GroupAssumption == Members \in Nat \ {0} /\ Leavers \subseteq 2..Members /\ Widths \subseteq Nat /\ MaxPosts \in Nat \ {0}

VARIABLES
  mScreenWidth,
  viewCallback,  \* PeerService has the callback
  stage,         \* id -> what the threads have announced
  thread,        \* call between the test of viewCallback and its use, <<>>: none
  posts,         \* tasks for the main thread
  videoViews,    \* id -> tile, 0: none; sinks has the same keys
  infos,         \* ids in the order of the layout
  tiles,         \* tiles made: released or not, child of wrVideoView, place
  screen,        \* "open", "finished" by hangUp, "destroyed"
  crashed        \* null was called

screenVars == <<mScreenWidth, viewCallback, stage, thread, posts, videoViews, infos, tiles, screen, crashed>>

Ids == 1..Members
Threads == {"executor", "signalling"}

ScreenInit ==
  /\ mScreenWidth \in Widths /\ viewCallback = TRUE
  /\ stage = [id \in Ids |-> "new"] /\ thread = [t \in Threads |-> <<>>] /\ posts = <<>>
  /\ videoViews = [id \in Ids |-> 0] /\ infos = <<>> /\ tiles = <<>>
  /\ screen = "open" /\ crashed = FALSE

-----------------------------------------------------------------------------
(* WidthUtil                                                                  *)

getWidth(w, size) == IF size <= 4 THEN w \div 2 ELSE w \div 3

getX(w, size, index) ==
  CASE size = 3 /\ index = 2 -> w \div 4
    [] size <= 4 /\ ~(size = 3 /\ index = 2) -> ((index % 2) * w) \div 2
    [] size \in {5, 8} /\ index = size - 2 -> w \div 6
    [] size \in {5, 8} /\ index = size - 1 -> w \div 2
    [] size = 7 /\ index = 6 -> w \div 3
    [] size > 9 -> 0
    [] OTHER -> ((index % 3) * w) \div 3

getY(w, size, index) ==
  CASE size < 3 -> w \div 4
    [] size \in {3, 4} -> IF index < 2 THEN 0 ELSE w \div 2
    [] size \in {5, 6} -> IF index < 3 THEN w \div 2 - w \div 3 ELSE w \div 2
    [] size \in 7..9 -> (index \div 3) * (w \div 3)
    [] OTHER -> 0

Place(w, size, index) == [x |-> getX(w, size, index), y |-> getY(w, size, index), side |-> getWidth(w, size)]

-----------------------------------------------------------------------------
(* The threads of PeerService.                                                *)

(* The test of viewCallback: a call is on its way if it is there.             *)
Announce(t, id, op, new) ==
  /\ ~crashed /\ thread[t] = <<>>
  /\ stage' = [stage EXCEPT ![id] = new]
  /\ thread' = IF viewCallback THEN [thread EXCEPT ![t] = <<op, id>>] ELSE thread
  /\ UNCHANGED <<mScreenWidth, viewCallback, posts, videoViews, infos, tiles, screen, crashed>>

createLocalStream == stage[1] = "new" /\ Announce("executor", 1, "add", "added")

onAddStream(id) ==
  /\ stage[id] = "new" /\ \A j \in 1..(id - 1) : stage[j] # "new"
  /\ Announce("signalling", id, "add", "added")

onRemoveStream(id) == stage[id] = "added" /\ Announce("signalling", id, "remove", "removed")

(* Mutant: the view is told first, and the connection closed after that.      *)
closePeerConnection_early(id) ==
  /\ stage[id] # "closed" /\ stage[1] # "new"
  /\ Announce("executor", id, "remove", "closed")

(* pc.close() waits for the observer's call; then there are no more.          *)
closePeerConnection(id) ==
  /\ stage[id] # "closed" /\ stage[1] # "new" /\ thread["signalling"] = <<>>
  /\ Announce("executor", id, "remove", "closed")

(* The use of viewCallback.  It is read again, or not: a field that has       *)
(* become null is called, or the object that was there still is.              *)
Call(t) ==
  /\ ~crashed /\ thread[t] # <<>> /\ Len(posts) < MaxPosts
  /\ \/ posts' = Append(posts, thread[t]) /\ thread' = [thread EXCEPT ![t] = <<>>] /\ UNCHANGED crashed
     \/ ~viewCallback /\ crashed' = TRUE /\ UNCHANGED <<posts, thread>>
  /\ UNCHANGED <<mScreenWidth, viewCallback, stage, videoViews, infos, tiles, screen>>

-----------------------------------------------------------------------------
(* The main thread.                                                           *)

(* The loop over infos that ends addView and removeView.                      *)
Layout(ts, views, ids) ==
  [r \in DOMAIN ts |->
    IF \E i \in DOMAIN ids : views[ids[i]] = r
    THEN [ts[r] EXCEPT !.at = Place(mScreenWidth, Len(ids), (CHOOSE i \in DOMAIN ids : views[ids[i]] = r) - 1)]
    ELSE ts[r]]

NewTile == [live |-> TRUE, child |-> TRUE, at |-> [x |-> 0, y |-> 0, side |-> mScreenWidth]]

addView(id) ==
  /\ videoViews' = [videoViews EXCEPT ![id] = Len(tiles) + 1]
  /\ infos' = Append(infos, id)
  /\ tiles' = Layout(Append(tiles, NewTile), videoViews', infos')

Release(ts, which) == [r \in DOMAIN ts |-> IF r \in which THEN [ts[r] EXCEPT !.live = FALSE] ELSE ts[r]]

removeView(id) ==
  LET r == videoViews[id]
      out == [s \in DOMAIN tiles |-> IF s = r THEN [tiles[s] EXCEPT !.child = FALSE] ELSE tiles[s]]
  IN /\ videoViews' = [videoViews EXCEPT ![id] = 0]
     /\ infos' = RemoveFirst(infos, id)
     /\ tiles' = Layout(Release(out, {r}), videoViews', infos')

RunPost ==
  /\ ~crashed /\ posts # <<>>
  /\ posts' = Tail(posts)
  /\ IF Head(posts)[1] = "add" THEN addView(Head(posts)[2]) ELSE removeView(Head(posts)[2])
  /\ UNCHANGED <<mScreenWidth, viewCallback, stage, thread, screen, crashed>>

(* hangUp, and onDestroy later.  The views stay children of wrVideoView.      *)
exit ==
  /\ ~crashed /\ screen # "destroyed"
  /\ screen' = IF screen = "open" THEN "finished" ELSE "destroyed"
  /\ viewCallback' = FALSE
  /\ tiles' = Release(tiles, Range(videoViews))
  /\ videoViews' = [id \in Ids |-> 0] /\ infos' = <<>>
  /\ UNCHANGED <<mScreenWidth, stage, thread, posts, crashed>>

ScreenNext ==
  \/ createLocalStream \/ RunPost \/ exit
  \/ \E id \in 2..Members : onAddStream(id)
  \/ \E id \in Leavers : onRemoveStream(id) \/ closePeerConnection(id)
  \/ \E t \in Threads : Call(t)

ScreenSpec == ScreenInit /\ [][ScreenNext]_screenVars

-----------------------------------------------------------------------------
(* No two squares overlap, and none leaves the view, which is a square.       *)
Apart(a, b) == a.x + a.side <= b.x \/ b.x + b.side <= a.x \/ a.y + a.side <= b.y \/ b.y + b.side <= a.y
Inside(a, w) == a.x \in Nat /\ a.y \in Nat /\ a.x + a.side <= w /\ a.y + a.side <= w

(* While the call goes on, everybody shown has a place of their own whatever  *)
(* order streams come and go in (addView, removeView, WidthUtil).             *)
TilesApart ==
  LET Shown == {r \in DOMAIN tiles : tiles[r].child}
  IN screen = "open" =>
       \A r \in Shown : Inside(tiles[r].at, mScreenWidth) /\ \A s \in Shown \ {r} : Apart(tiles[r].at, tiles[s].at)

(* A renderer that is not released is in videoViews, where removeView and     *)
(* exit find it: no stream that comes late or twice takes its place.          *)
NoneLost == \A r \in DOMAIN tiles : tiles[r].live => \E id \in Ids : videoViews[id] = r

(* While the call goes on, whoever has left is not shown once nothing about   *)
(* them is on its way (closePeerConnection, onCloseWithId).                   *)
LeftNotShown ==
  \A id \in Ids :
    (screen = "open" /\ stage[id] = "closed" /\ (\A t \in Threads : thread[t] = <<>>) /\ \A i \in DOMAIN posts : posts[i][2] # id) => videoViews[id] = 0

(* createLocalStream: "if the callback function is set, it is called": null   *)
(* never is.                                                                  *)
(* The code does not keep this (README).                                      *)
CalledOnlyIfSet == ~crashed

(* On the screen of a group call no tile covers another or leaves the view,   *)
(* every renderer that is not released can still be found in videoViews, and  *)
(* none who has left is shown once nothing about them is on its way, in       *)
(* whatever order the posts of the threads are carried out                    *)
(* (ChatGroupActivity, WidthUtil).                                            *)
ScreenRight == TilesApart /\ NoneLost /\ LeftNotShown
=============================================================================
