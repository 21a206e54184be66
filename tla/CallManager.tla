----------------------------- MODULE CallManager -----------------------------
(* One call after the other on the singleton ManagerImpl of a phone.          *)
(*                                                                            *)
(* Every call has its own WsServiceImpl and PeerService, but the events of a  *)
(* socket are posted to the main thread as tasks that use the manager's       *)
(* current ones, and the screens keep to the manager too.  Calls are numbered *)
(* by callSingle, services by connect.  What PeerService does with a room is  *)
(* in the module of that name; here it holds the camera from _peers to exit.  *)
EXTENDS Integers, Sequences

CONSTANTS
  MaxCalls,      \* bound: calls of the user
  Patient        \* the user calls again only when nothing is going on any more

CallManagerAssumption == MaxCalls \in Nat /\ Patient \in BOOLEAN

VARIABLES
  wsService, peerService,   \* the manager's current services, 0: null
  callback,      \* the call whose callbacks it has
  calls,         \* calls so far
  service,       \* call -> the service connect made for it, 0: none
  ws,            \* per service: the socket, and WsServiceImpl.isOpen
  peer,          \* per service: PeerService's queue, media, and its webSocket
  handler,       \* tasks posted to the main thread
  screens,       \* per call: ChatSingleActivity
  told,          \* history: callbacks made to each call
  threw          \* an exception left the main thread

managerVars == <<wsService, peerService, callback, calls, service, ws, peer, handler, screens, told, threw>>

CallNo == 1..MaxCalls
Services == Len(ws)

ManagerInit ==
  /\ wsService = 0 /\ peerService = 0 /\ callback = 0 /\ calls = 0
  /\ service = [k \in CallNo |-> 0]
  /\ ws = <<>> /\ peer = <<>> /\ handler = <<>>
  /\ screens = [k \in CallNo |-> "none"]
  /\ told = [k \in CallNo |-> {}]
  /\ threw = FALSE

NewWs == [sock |-> "connecting", isOpen |-> FALSE, joined |-> FALSE]
NewPeer == [exec |-> <<>>, media |-> FALSE, webSocket |-> TRUE]

Closing(w) == IF w.sock \in {"connecting", "open"} THEN [w EXCEPT !.sock = "closing"] ELSE w

Queue(p, task) == [p EXCEPT !.exec = Append(@, task)]

Rests ==
  /\ handler = <<>> /\ \A n \in 1..Services : ws[n].sock = "closed" /\ peer[n].exec = <<>>
  /\ \A k \in CallNo : screens[k] \in {"none", "destroyed"}

(* callSingle: setConfigWithCallBack and connect.  A service that is there is *)
(* closed and forgotten, and the call is not made.                            *)
callSingle ==
  /\ ~threw /\ calls < MaxCalls /\ (Patient => Rests)
  /\ calls' = calls + 1 /\ callback' = calls + 1
  /\ IF wsService = 0
     THEN /\ ws' = Append(ws, NewWs) /\ peer' = Append(peer, NewPeer)
          /\ wsService' = Services + 1 /\ peerService' = Services + 1
          /\ service' = [service EXCEPT ![calls + 1] = Services + 1]
     ELSE /\ ws' = [ws EXCEPT ![wsService] = Closing(@)]
          /\ wsService' = 0 /\ peerService' = 0
          /\ UNCHANGED <<peer, service>>
  /\ UNCHANGED <<handler, screens, told, threw>>

-----------------------------------------------------------------------------
(* The socket's thread.                                                       *)

Posts(tasks) == handler' = handler \o tasks /\ UNCHANGED <<wsService, peerService, callback, calls, service, peer, screens, told, threw>>

onOpen(n) ==
  /\ ~threw /\ ws[n].sock = "connecting"
  /\ ws' = [ws EXCEPT ![n].sock = "open", ![n].isOpen = TRUE]
  /\ Posts(<<"open">>)

(* onError and onClose of a connection that is refused.                       *)
Refused(n) ==
  /\ ~threw /\ ws[n].sock = "connecting"
  /\ ws' = [ws EXCEPT ![n].sock = "closed"]
  /\ Posts(<<"failed", "failed">>)

(* The connection breaks, or close() is answered.                             *)
onClose(n) ==
  /\ ~threw /\ ws[n].sock \in {"open", "closing"}
  /\ ws' = [ws EXCEPT ![n].sock = "closed"]
  /\ Posts(<<"failed">>)

(* The server answers __join with _peers.                                     *)
onMessage(n) ==
  /\ ~threw /\ ws[n].sock \in {"open", "closing"} /\ ws[n].joined
  /\ ws' = [ws EXCEPT ![n].joined = FALSE]
  /\ Posts(<<"peers">>)

-----------------------------------------------------------------------------
(* The main thread.                                                           *)

onSuccess ==
  /\ told' = [told EXCEPT ![callback] = @ \cup {"success"}]
  /\ screens' = [screens EXCEPT ![callback] = IF @ = "none" THEN "starting" ELSE @]

(* PeerService.exitRoom                                                       *)
PeerExit == peer' = IF peerService # 0 THEN [peer EXCEPT ![peerService] = Queue(@, "exit")] ELSE peer

OpenFailed == wsService # 0 /\ ~ws[wsService].isOpen

onWebSocketOpenFailed ==
  IF OpenFailed
  THEN told' = [told EXCEPT ![callback] = @ \cup {"failed"}] /\ UNCHANGED peer
  ELSE PeerExit /\ UNCHANGED told

onJoinToRoom == peer' = IF peerService # 0 THEN [peer EXCEPT ![peerService] = Queue(@, "peers")] ELSE peer

RunHandler ==
  /\ ~threw /\ handler # <<>>
  /\ handler' = Tail(handler)
  /\ CASE Head(handler) = "open" -> onSuccess /\ UNCHANGED peer
       [] Head(handler) = "failed" -> onWebSocketOpenFailed /\ UNCHANGED screens
       [] Head(handler) = "peers" -> onJoinToRoom /\ UNCHANGED <<screens, told>>
  /\ UNCHANGED <<wsService, peerService, callback, calls, service, ws, threw>>

(* joinRoom: a send on a socket that is not open throws.                      *)
joinRoom ==
  /\ ws' = IF wsService # 0 /\ ws[wsService].sock = "open" THEN [ws EXCEPT ![wsService].joined = TRUE] ELSE ws
  /\ threw' = (wsService # 0 /\ ws[wsService].sock # "open")

(* onCreate and startCall, with the permissions or without.                   *)
onCreate(k) ==
  /\ ~threw /\ screens[k] = "starting"
  /\ \/ screens' = [screens EXCEPT ![k] = "open"] /\ joinRoom
     \/ screens' = [screens EXCEPT ![k] = "asking"] /\ UNCHANGED <<ws, threw>>
  /\ UNCHANGED <<wsService, peerService, callback, calls, service, peer, handler, told>>

(* A permission that is denied finishes the screen, and the room is joined.   *)
onRequestPermissionsResult(k, granted) ==
  /\ ~threw /\ screens[k] = "asking"
  /\ screens' = [screens EXCEPT ![k] = IF granted THEN "open" ELSE "finished"]
  /\ joinRoom
  /\ UNCHANGED <<wsService, peerService, callback, calls, service, peer, handler, told>>

(* Mutant: the socket is forgotten and the room is not left.                  *)
exitRoom_half == wsService' = (IF peerService # 0 THEN 0 ELSE wsService) /\ UNCHANGED peer

exitRoom == wsService' = (IF peerService # 0 THEN 0 ELSE wsService) /\ PeerExit

(* hangUp, or onCloseWithId; later onDestroy, which leaves once more.         *)
hangUp(k) ==
  /\ ~threw /\ screens[k] \in {"open", "finished"}
  /\ screens' = [screens EXCEPT ![k] = IF @ = "open" THEN "finished" ELSE "destroyed"]
  /\ exitRoom
  /\ UNCHANGED <<peerService, callback, calls, service, ws, handler, told, threw>>

-----------------------------------------------------------------------------
(* PeerService's executor.                                                    *)

(* Mutant: only the socket is closed.                                         *)
Exited_socket(p) == [p EXCEPT !.webSocket = FALSE]

Exited(p) == [p EXCEPT !.media = FALSE, !.webSocket = FALSE]

RunExec(n) ==
  /\ ~threw /\ peer[n].exec # <<>>
  /\ LET p == [peer[n] EXCEPT !.exec = Tail(@)]
     IN IF Head(peer[n].exec) = "exit"
        THEN /\ peer' = [peer EXCEPT ![n] = Exited(p)]
             /\ ws' = IF p.webSocket THEN [ws EXCEPT ![n] = Closing(@)] ELSE ws
        ELSE /\ peer' = [peer EXCEPT ![n] = [p EXCEPT !.media = TRUE]]
             /\ UNCHANGED ws
  /\ UNCHANGED <<wsService, peerService, callback, calls, service, handler, screens, told, threw>>

ManagerNext ==
  \/ callSingle \/ RunHandler
  \/ \E n \in 1..Services : onOpen(n) \/ Refused(n) \/ onClose(n) \/ onMessage(n) \/ RunExec(n)
  \/ \E k \in CallNo : onCreate(k) \/ hangUp(k) \/ (\E granted \in BOOLEAN : onRequestPermissionsResult(k, granted))

(* The threads run what is queued, a close() is answered.                     *)
ManagerFairness ==
  /\ WF_managerVars(RunHandler)
  /\ \A n \in 1..MaxCalls : WF_managerVars(n <= Services /\ RunExec(n)) /\ WF_managerVars(n <= Services /\ ws[n].sock = "closing" /\ onClose(n))
  /\ \A k \in CallNo : WF_managerVars(onCreate(k))

ManagerSpec == ManagerInit /\ [][ManagerNext]_managerVars /\ ManagerFairness

-----------------------------------------------------------------------------
(* setConfigWithCallBack: "callbacks for a connection that succeeded or       *)
(* failed": a call is told of what happened to its own connection.            *)
ToldOfOwn ==
  \A k \in CallNo :
    /\ "success" \in told[k] => service[k] # 0 /\ ws[service[k]].isOpen
    /\ "failed" \in told[k] => service[k] # 0 /\ ~ws[service[k]].isOpen

(* connect: "a call is going on": a call is refused only while there is one.  *)
(* The code does not keep this (README).                                      *)
RefusedOnlyInCall ==
  [][callSingle /\ wsService # 0 => ws[wsService].sock # "closed"]_managerVars

(* When nothing is going on any more no service holds the camera.             *)
RestReleased == Rests => \A n \in 1..Services : ~peer[n].media

(* The calls that follow each other on the one manager are kept apart: a call *)
(* is told that the connection succeeded or failed only when its own did, and *)
(* when nothing is going on any more no peer service of any call holds the    *)
(* camera (ManagerImpl.connect, exitRoom, onWebSocketOpenFailed).             *)
CallsKeptApart == ToldOfOwn /\ RestReleased

(* Who leaves a call is disconnected.                                         *)
HangUpDisconnects ==
  \A n \in 1..MaxCalls :
    (n <= Services /\ peerService = n /\ wsService = 0) ~> (threw \/ (n <= Services /\ ws[n].sock = "closed"))
=============================================================================
