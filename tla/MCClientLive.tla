---------------------------- MODULE MCClientLive ----------------------------
(***************************************************************************)
(* What must come to happen around the server's core: the tools of the     *)
(* TURN server come to an end, the call manager's hang-up disconnects, the *)
(* server of instant messages forgets who has left, a session that the     *)
(* administrator cancels leaves the list. Each part is on a small instance *)
(* of its own, a behaviour being one of the part that part names while the *)
(* others stay where they start. The fairness of a part is that of its     *)
(* module; the tools, which could go on from their first state, are held   *)
(* to it only when they are the part that runs.                            *)
(***************************************************************************)
EXTENDS Integers, Sequences

VARIABLE part   \* the instance this behaviour is of

VARIABLES nat, net, lost, pc, cli
VARIABLES startPc, fate, phase, req, waits, cycle, sock, nonce, relay, chn, token,
          allocate_rtcp, reopen_socket, server, sockets, tids, startNet, startLost, doubled,
          early, stale, srv, free
VARIABLES now, todo, el, tot_send_messages, tot_recv_messages, total_loss, runNet, runSrv,
          runLost, runDoubled, runStale, dropped, late, bye
VARIABLES wsService, peerService, callback, calls, service, ws, peer, handler, screens, told,
          threw
VARIABLES conn, runner, imSockets, sessionMap1, sessionMap2, sent, inbox
VARIABLES listedSrv, tickets, reports, sessions, started, cancels, moved, cancelled

natVars == <<nat, net, lost, pc, cli>>
startVars == <<startPc, fate, phase, req, waits, cycle, sock, nonce, relay, chn, token,
                allocate_rtcp, reopen_socket, server, sockets, tids, startNet, startLost,
                doubled, early, stale, srv, free>>
runVars == <<now, todo, el, tot_send_messages, tot_recv_messages, total_loss, runNet,
              runSrv, runLost, runDoubled, runStale, dropped, late, bye>>
managerVars == <<wsService, peerService, callback, calls, service, ws, peer, handler,
                 screens, told, threw>>
imVars == <<conn, runner, imSockets, sessionMap1, sessionMap2, sent, inbox>>
listedVars == <<listedSrv, tickets, reports, sessions, started, cancels, moved, cancelled>>

vars == <<part, natVars, startVars, runVars, managerVars, imVars, listedVars>>


-----------------------------------------------------------------------------
(* All tests of the discovery tool, with a message lost. *)
Discovery == INSTANCE NatDiscovery WITH Listener <- <<4, 4>>, Family <- 4, Asked <- {1},
  Tests <- {"t", "H", "m", "f", "c"}, Padding <- FALSE, Losses <- 1,
  Kind <- {"independent", "address_port"}

(* The start of a test client over a network that loses a message. *)
Start == INSTANCE UClientStart WITH C2C <- FALSE, Rtcp <- FALSE, Channel <- TRUE,
  Extra <- FALSE, Before <- TRUE, Redirect <- FALSE, Chans <- {1, 2}, MaxWait <- 2,
  MaxCycle <- 4, MaxLost <- 1, MaxDouble <- 0, MaxStale <- 1, MaxEarly <- 1, pc <- startPc,
  net <- startNet, lost <- startLost

(* A test client with two messages to send. *)
Run == INSTANCE UClientRun WITH Elems <- {"a"}, C2C <- FALSE, HangOn <- FALSE, MsgNum <- 2,
  Interval <- 4, StopTime <- 2, AllocLife <- 20, PermLife <- 20, ChanLife <- 20,
  MaxTime <- 7, MaxLost <- 1, MaxDouble <- 0, MaxStale <- 0, MaxDropped <- 1, net <- runNet,
  srv <- runSrv, lost <- runLost, doubled <- runDoubled, stale <- runStale

(* Two calls, the second before the first is over. *)
Manager == INSTANCE CallManager WITH MaxCalls <- 2, Patient <- FALSE

(* Two sessions of two users of the instant-messaging server. *)
Im == INSTANCE ImServer WITH Sessions <- {"s1", "s2"}, Users <- {"u", "v"},
  NoUser <- "nobody", NoSession <- "none", MaxMessages <- 1, sockets <- imSockets

(* Two sessions of which the administrator cancels one. *)
Listed == INSTANCE AdminSessions WITH User <- {"u"}, Realm <- {"r"}, NoUser <- "nobody",
  Ticket <- {1, 2}, Family <- {4}, UserQuota <- 1, TotalQuota <- 0, Bps <- {0},
  BpsCapacity <- 0, MaxSession <- 2, MaxReports <- 2, MaxCancels <- 1, srv <- listedSrv

(* A component that this behaviour does not run: its variables keep one value. *)
natOff == Discovery!NatInit /\ ~nat.present /\ nat.filtering = "independent"
startOff == Start!StartInit
runOff == Run!RunInit /\ el["a"].toSend = 1
managerOff == Manager!ManagerInit
imOff == Im!ImInit
listedOff == Listed!ListInit /\ started

(* The assumptions of the instances, evaluated by TLC.                        *)
ASSUME /\ Discovery!NatAssumption /\ Start!UClientStartAssumption
       /\ Run!UClientRunAssumption /\ Manager!CallManagerAssumption /\ Im!ImAssumption
       /\ Listed!AdminSessionsAssumption /\ Listed!SessionAssumption

-----------------------------------------------------------------------------
Init ==
  \/ part = "nat" /\ Discovery!NatInit /\ startOff /\ runOff /\ managerOff /\ imOff /\
       listedOff
  \/ part = "start" /\ Start!StartInit /\ natOff /\ runOff /\ managerOff /\ imOff /\
       listedOff
  \/ part = "run" /\ Run!RunInit /\ natOff /\ startOff /\ managerOff /\ imOff /\ listedOff
  \/ part = "manager" /\ Manager!ManagerInit /\ natOff /\ startOff /\ runOff /\ imOff /\
       listedOff
  \/ part = "im" /\ Im!ImInit /\ natOff /\ startOff /\ runOff /\ managerOff /\ listedOff
  \/ part = "listed" /\ Listed!ListInit /\ natOff /\ startOff /\ runOff /\ managerOff /\
       imOff

Next ==
  /\ UNCHANGED part
  /\ \/ part = "nat" /\ Discovery!NatNext /\ UNCHANGED <<startVars, runVars, managerVars,
          imVars, listedVars>>
     \/ part = "start" /\ Start!StartNext /\ UNCHANGED <<natVars, runVars, managerVars,
          imVars, listedVars>>
     \/ part = "run" /\ Run!RunNext /\ UNCHANGED <<natVars, startVars, managerVars, imVars,
          listedVars>>
     \/ part = "manager" /\ Manager!ManagerNext /\ UNCHANGED <<natVars, startVars, runVars,
          imVars, listedVars>>
     \/ part = "im" /\ Im!ImNext /\ UNCHANGED <<natVars, startVars, runVars, managerVars,
          listedVars>>
     \/ part = "listed" /\ Listed!ListNext /\ UNCHANGED <<natVars, startVars, runVars,
          managerVars, imVars>>

Spec == Init /\ [][Next]_vars

Fairness ==
  /\ Manager!ManagerFairness /\ WF_imVars(Im!RunTask) /\ Listed!ListFairness
  /\ WF_natVars(part = "nat" /\ Discovery!NatNext)
  /\ WF_startVars(part = "start" /\ Start!ClientStep) /\ WF_startVars(part = "start" /\ Start!AnyReceive)
  /\ WF_startVars(part = "start" /\ Start!wait_fd) /\ WF_startVars(part = "start" /\ Start!AnyServe)
  /\ WF_runVars(part = "run" /\ Run!Tick) /\ WF_runVars(part = "run" /\ Run!Timer)
  /\ WF_runVars(part = "run" /\ Run!Input) /\ WF_runVars(part = "run" /\ Run!AnyServe)

LiveSpec == Spec /\ Fairness

-----------------------------------------------------------------------------
(* What is to end does: the discovery tool, the start and the run of the test *)
(* client whatever is lost; the websocket of a call that was hung up, though  *)
(* the next call has begun; the entries of a user who has left; the place of  *)
(* a cancelled session in the administrator's list (natdiscovery.c,           *)
(* startuclient.c, uclient.c, ManagerImpl.exitRoom, ImServer,                 *)
(* turn_cancel_session).                                                      *)
EndsAreReached ==
  /\ part = "nat" => Discovery!DiscoveryEnds
  /\ part = "start" => Start!StartEnds
  /\ part = "run" => Run!RunEnds
  /\ Manager!HangUpDisconnects
  /\ Im!ClosedForgotten
  /\ Listed!CancelDelists
=============================================================================
