------------------------------- MODULE ImServer -------------------------------
(* The instant-messaging server, which carries the ringing of a call: a user  *)
(* id is mapped to the session that its messages go to.  The container calls  *)
(* onOpen, onMessage and onClose of a session in this order; each submits a   *)
(* task to one thread.  IMWebSocket.newInstance makes a new session and does  *)
(* not close the one before, so a user may have several.                      *)
EXTENDS Naturals, Sequences, SequencesExt

CONSTANTS
  Sessions, Users,
  NoUser, NoSession,    \* null
  MaxMessages           \* bound: messages of a session

ImAssumption == NoUser \notin Users /\ NoSession \notin Sessions /\ MaxMessages \in Nat

VARIABLES
  conn,          \* per session: what the container knows, and its user
  runner,        \* tasks of the single thread
  sockets, sessionMap1, sessionMap2,
  sent,          \* messages sent by each session
  inbox          \* messages handed to each session, by addressee

imVars == <<conn, runner, sockets, sessionMap1, sessionMap2, sent, inbox>>

ImInit ==
  /\ conn = [s \in Sessions |-> [state |-> "new", user |-> NoUser]]
  /\ runner = <<>> /\ sockets = {}
  /\ sessionMap1 = [u \in Users |-> NoSession]
  /\ sessionMap2 = [s \in Sessions |-> NoUser]
  /\ sent = [s \in Sessions |-> 0] /\ inbox = [s \in Sessions |-> <<>>]

Task(op, s, to) == [op |-> op, session |-> s, to |-> to]

Submit(task) == runner' = Append(runner, task) /\ UNCHANGED <<sockets, sessionMap1, sessionMap2, inbox>>

OnOpen(s, u) ==
  /\ conn[s].state = "new"
  /\ conn' = [conn EXCEPT ![s] = [state |-> "open", user |-> u]]
  /\ Submit(Task("open", s, NoUser)) /\ UNCHANGED sent

OnMessage(s, to) ==
  /\ conn[s].state = "open" /\ sent[s] < MaxMessages
  /\ sent' = [sent EXCEPT ![s] = @ + 1]
  /\ Submit(Task("message", s, to)) /\ UNCHANGED conn

OnClose(s) ==
  /\ conn[s].state = "open"
  /\ conn' = [conn EXCEPT ![s].state = "closed"]
  /\ Submit(Task("close", s, NoUser)) /\ UNCHANGED sent

-----------------------------------------------------------------------------
(* Tasks of the runner.                                                       *)

Opened(s, u) ==
  /\ sockets' = sockets \cup {s}
  /\ sessionMap1' = [sessionMap1 EXCEPT ![u] = s]
  /\ sessionMap2' = [sessionMap2 EXCEPT ![s] = u]
  /\ UNCHANGED inbox

(* Mutant: the session is forgotten and its user is not.                      *)
Closed_half(s, u) ==
  /\ sockets' = sockets \ {s}
  /\ sessionMap2' = [sessionMap2 EXCEPT ![s] = NoUser]
  /\ UNCHANGED <<sessionMap1, inbox>>

(* The user is removed whichever session it is mapped to.                     *)
Closed(s, u) ==
  /\ sockets' = sockets \ {s}
  /\ sessionMap1' = [sessionMap1 EXCEPT ![u] = NoSession]
  /\ sessionMap2' = [sessionMap2 EXCEPT ![s] = NoUser]
  /\ UNCHANGED inbox

(* handleMessage: a message for a user without a session is dropped; a send   *)
(* to a session that has closed throws, which onMessage catches.              *)
Passed(to) ==
  LET s == sessionMap1[to]
  IN /\ inbox' = IF s # NoSession /\ conn[s].state = "open" THEN [inbox EXCEPT ![s] = Append(@, to)] ELSE inbox
     /\ UNCHANGED <<sockets, sessionMap1, sessionMap2>>

RunTask ==
  /\ runner # <<>>
  /\ runner' = Tail(runner)
  /\ LET task == Head(runner)
         s == task.session
     IN CASE task.op = "open" -> Opened(s, conn[s].user)
          [] task.op = "close" -> Closed(s, conn[s].user)
          [] task.op = "message" -> Passed(task.to)
  /\ UNCHANGED <<conn, sent>>

ImNext ==
  \/ RunTask
  \/ \E s \in Sessions : OnClose(s) \/ (\E u \in Users : OnOpen(s, u) \/ OnMessage(s, u))

ImSpec == ImInit /\ [][ImNext]_imVars /\ WF_imVars(RunTask)

-----------------------------------------------------------------------------
(* The three collections agree: a user is mapped to a session of its own that *)
(* is in both of the others, though sessions of a user overlap and a session  *)
(* may have closed before its tasks run (onOpen, onClose).                    *)
MapsAgree ==
  /\ \A s \in Sessions : s \in sockets <=> sessionMap2[s] # NoUser
  /\ \A u \in Users : sessionMap1[u] # NoSession => sessionMap2[sessionMap1[u]] = u

(* A message is handed to sessions of the user it is for only (handleMessage).*)
ReachesAddressee == \A s \in Sessions : \A i \in DOMAIN inbox[s] : inbox[s][i] = conn[s].user

(* The server tells users apart: both of these.                               *)
UsersReached == MapsAgree /\ ReachesAddressee

(* Once a session has closed it disappears from the maps for good (onClose).  *)
ClosedForgotten ==
  \A s \in Sessions : (conn[s].state = "closed") ~> [](s \notin sockets /\ s \notin Range(sessionMap1))

(* "caches the mapping of user id and client connection": a user with a       *)
(* session that is registered and open can be reached.                        *)
(* The code does not keep this (README).                                      *)
OpenUserReachable ==
  \A s \in sockets : conn[s].state = "open" => sessionMap1[conn[s].user] # NoSession
=============================================================================
