------------------------------ MODULE MCClient ------------------------------
(***************************************************************************)
(* What runs at the ends of the system, each part on small instances of    *)
(* its own: the call manager of the client over several calls, the server  *)
(* of instant messages, the screen of a group call with the places of its  *)
(* tiles, and the test client uclient of the TURN server, which opens its  *)
(* connections and allocations (UClientStart) and then runs until it has   *)
(* sent and received what it was asked to (UClientRun), over a network     *)
(* that loses and doubles messages. A behaviour here is a behaviour of one *)
(* of them, which part names. ImServer, GroupScreen and CallManager are    *)
(* extended: their constants are those of the configuration, three calls   *)
(* of which each is begun when the one before is over.                     *)
(***************************************************************************)
EXTENDS ImServer, GroupScreen, CallManager

VARIABLE part   \* the instance this behaviour is of

VARIABLES pc, fate, phase, req, waits, cycle, sock, nonce, relay, chn, token, allocate_rtcp,
          reopen_socket, server, startSockets, tids, net, lost, doubled, early, stale, srv,
          free
VARIABLES now, todo, el, tot_send_messages, tot_recv_messages, total_loss, runNet, runSrv,
          runLost, runDoubled, runStale, dropped, late, bye

startVars == <<pc, fate, phase, req, waits, cycle, sock, nonce, relay, chn, token,
                allocate_rtcp, reopen_socket, server, startSockets, tids, net, lost,
                doubled, early, stale, srv, free>>
runVars == <<now, todo, el, tot_send_messages, tot_recv_messages, total_loss, runNet,
              runSrv, runLost, runDoubled, runStale, dropped, late, bye>>

vars == <<part, screenVars, managerVars, imVars, startVars, runVars>>


-----------------------------------------------------------------------------
(* A connection with its RTCP partner, over channels. *)
Partner == INSTANCE UClientStart WITH C2C <- FALSE, Rtcp <- TRUE, Channel <- TRUE,
  Extra <- FALSE, Before <- TRUE, Redirect <- FALSE, Chans <- {1, 2}, MaxWait <- 2,
  MaxCycle <- 4, MaxLost <- 1, MaxDouble <- 0, MaxStale <- 1, MaxEarly <- 1,
  sockets <- startSockets

(* Two clients that talk to each other, with more requests than they need. *)
Pair == INSTANCE UClientStart WITH C2C <- TRUE, Rtcp <- FALSE, Channel <- TRUE,
  Extra <- TRUE, Before <- TRUE, Redirect <- FALSE, Chans <- {1, 2}, MaxWait <- 2,
  MaxCycle <- 4, MaxLost <- 1, MaxDouble <- 0, MaxStale <- 1, MaxEarly <- 1,
  sockets <- startSockets

(* A client that is sent to another server, with permissions, and answers that come twice. *)
Moved == INSTANCE UClientStart WITH C2C <- FALSE, Rtcp <- FALSE, Channel <- FALSE,
  Extra <- TRUE, Before <- FALSE, Redirect <- TRUE, Chans <- {1, 2}, MaxWait <- 2,
  MaxCycle <- 4, MaxLost <- 1, MaxDouble <- 1, MaxStale <- 1, MaxEarly <- 1,
  sockets <- startSockets

(* A client that stays on after its last message, with lifetimes to renew. *)
Alive == INSTANCE UClientRun WITH Elems <- {"a"}, C2C <- FALSE, HangOn <- TRUE, MsgNum <- 1,
  Interval <- 2, StopTime <- 2, AllocLife <- 11, PermLife <- 11, ChanLife <- 11,
  MaxTime <- 13, MaxLost <- 1, MaxDouble <- 0, MaxStale <- 1, MaxDropped <- 0,
  net <- runNet, srv <- runSrv, lost <- runLost, doubled <- runDoubled, stale <- runStale

(* Two clients that count each other's messages, one of which is lost or doubled. *)
Counts == INSTANCE UClientRun WITH Elems <- {"a", "b"}, C2C <- TRUE, HangOn <- FALSE,
  MsgNum <- 2, Interval <- 20, StopTime <- 1, AllocLife <- 40, PermLife <- 40,
  ChanLife <- 40, MaxTime <- 5, MaxLost <- 1, MaxDouble <- 1, MaxStale <- 0,
  MaxDropped <- 0, net <- runNet, srv <- runSrv, lost <- runLost, doubled <- runDoubled,
  stale <- runStale

(* A client whose requests are lost or find the nonce stale. *)
GivesUp == INSTANCE UClientRun WITH Elems <- {"a"}, C2C <- FALSE, HangOn <- FALSE,
  MsgNum <- 2, Interval <- 4, StopTime <- 2, AllocLife <- 20, PermLife <- 20,
  ChanLife <- 20, MaxTime <- 7, MaxLost <- 1, MaxDouble <- 0, MaxStale <- 1,
  MaxDropped <- 1, net <- runNet, srv <- runSrv, lost <- runLost, doubled <- runDoubled,
  stale <- runStale

(* A component that this behaviour does not run: its variables keep one value. *)
screenOff == ScreenInit
callsOff == ManagerInit
imOff == ImInit
startOff == pc = 0 /\ fate = 0 /\ phase = 0 /\ req = 0 /\ waits = 0 /\ cycle = 0 /\ sock = 0
            /\ nonce = 0 /\ relay = 0 /\ chn = 0 /\ token = 0 /\ allocate_rtcp = 0
            /\ reopen_socket = 0 /\ server = 0 /\ startSockets = 0 /\ tids = 0 /\ net = 0
            /\ lost = 0 /\ doubled = 0 /\ early = 0 /\ stale = 0 /\ srv = 0 /\ free = 0
runOff == now = 0 /\ todo = 0 /\ el = 0 /\ tot_send_messages = 0 /\ tot_recv_messages = 0
          /\ total_loss = 0 /\ runNet = 0 /\ runSrv = 0 /\ runLost = 0 /\ runDoubled = 0
          /\ runStale = 0 /\ dropped = 0 /\ late = 0 /\ bye = 0

(* The assumptions of the instances, evaluated by TLC.                        *)
ASSUME /\ CallManagerAssumption /\ ImAssumption /\ GroupAssumption
       /\ Partner!UClientStartAssumption /\ Pair!UClientStartAssumption
       /\ Moved!UClientStartAssumption /\ Alive!UClientRunAssumption
       /\ Counts!UClientRunAssumption /\ GivesUp!UClientRunAssumption

-----------------------------------------------------------------------------
MCInit ==
  \/ part = "calls" /\ ManagerInit /\ screenOff /\ imOff /\ startOff /\ runOff
  \/ part = "im" /\ ImInit /\ screenOff /\ callsOff /\ startOff /\ runOff
  \/ part = "screen" /\ ScreenInit /\ callsOff /\ imOff /\ startOff /\ runOff
  \/ part = "rtcp" /\ Partner!StartInit /\ screenOff /\ callsOff /\ imOff /\ runOff
  \/ part = "c2c" /\ Pair!StartInit /\ screenOff /\ callsOff /\ imOff /\ runOff
  \/ part = "moved" /\ Moved!StartInit /\ screenOff /\ callsOff /\ imOff /\ runOff
  \/ part = "alive" /\ Alive!RunInit /\ screenOff /\ callsOff /\ imOff /\ startOff
  \/ part = "counts" /\ Counts!RunInit /\ screenOff /\ callsOff /\ imOff /\ startOff
  \/ part = "gives up" /\ GivesUp!RunInit /\ screenOff /\ callsOff /\ imOff /\ startOff

MCNext ==
  /\ UNCHANGED part
  /\ \/ part = "calls" /\ ManagerNext /\ UNCHANGED <<screenVars, imVars, startVars,
          runVars>>
     \/ part = "im" /\ ImNext /\ UNCHANGED <<screenVars, managerVars, startVars, runVars>>
     \/ part = "screen" /\ ScreenNext /\ UNCHANGED <<managerVars, imVars, startVars, runVars>>
     \/ part = "rtcp" /\ Partner!StartNext /\ UNCHANGED <<screenVars, managerVars, imVars,
          runVars>>
     \/ part = "c2c" /\ Pair!StartNext /\ UNCHANGED <<screenVars, managerVars, imVars,
          runVars>>
     \/ part = "moved" /\ Moved!StartNext /\ UNCHANGED <<screenVars, managerVars, imVars,
          runVars>>
     \/ part = "alive" /\ Alive!RunNext /\ UNCHANGED <<screenVars, managerVars, imVars,
          startVars>>
     \/ part = "counts" /\ Counts!RunNext /\ UNCHANGED <<screenVars, managerVars, imVars,
          startVars>>
     \/ part = "gives up" /\ GivesUp!RunNext /\ UNCHANGED <<screenVars, managerVars, imVars,
          startVars>>

MCSpec == MCInit /\ [][MCNext]_vars

-----------------------------------------------------------------------------
(* The test client believes only what the server did, through lost and        *)
(* doubled answers and stale nonces, and exits only for cause; while it runs  *)
(* its allocation, permission and channel do not expire; and its counts of    *)
(* messages and losses are right (startuclient.c, uclient.c).                 *)
ToolIsRight ==
  /\ part = "rtcp" => Partner!StartTypeOK
  /\ part = "rtcp" => Partner!BelievedIsDone
  /\ part = "c2c" => Pair!BelievedIsDone
  /\ part = "moved" => Moved!BelievedIsDone
  /\ part = "rtcp" => Partner!UnclaimedOnlyWhenStale
  /\ part = "rtcp" => Partner!ExitsForCause
  /\ part = "c2c" => Pair!ExitsForCause
  /\ part = "moved" => Moved!ExitsForCause
  /\ part = "gives up" => GivesUp!RunTypeOK
  /\ part = "alive" => Alive!KeptAlive
  /\ part = "counts" => Counts!NoLossNoGap
  /\ part = "counts" => Counts!LossReported
  /\ part = "gives up" => GivesUp!GivenUp
=============================================================================
