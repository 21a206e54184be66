--------------------------- MODULE SignalledCall ---------------------------
(***************************************************************************)
(* Clients in a call through the signalling server.  Each client opens one *)
(* session and joins one room; the client and its session share a name.    *)
(*                                                                         *)
(* A websocket keeps the order of its messages in both directions.  The    *)
(* part of inbox[c] beyond seen[c] is on its way to the client.  On the    *)
(* client a frame goes from the websocket thread through the main thread's *)
(* handler (ManagerImpl) to the executor, in order at every hop: Deliver   *)
(* does all the hops at once.                                              *)
(***************************************************************************)
EXTENDS SignallingServer, PeerService

CONSTANTS
    Leavers,       \* clients whose user may hang up
    Losers         \* clients whose connection may break

ASSUME CallAssumption ==
    /\ Clients = Sessions
    /\ Leavers \subseteq Clients
    /\ Losers \subseteq Clients

VARIABLES
    seen,          \* frames of inbox that the client has received
    joined,        \* the client has called joinRoom
    left           \* the user has called exitRoom

callVars == <<seen, joined, left>>

vars == <<serverVars, clientVars, callVars>>

CallTypeOK ==
    /\ ServerTypeOK
    /\ ClientTypeOK
    /\ seen \in [Clients -> Nat]
    /\ joined \in [Clients -> BOOLEAN]
    /\ left \in [Clients -> BOOLEAN]

Init ==
    /\ ServerInit
    /\ ClientInit
    /\ seen = [c \in Clients |-> 0]
    /\ joined = [c \in Clients |-> FALSE]
    /\ left = [c \in Clients |-> FALSE]

-----------------------------------------------------------------------------
(* The main thread: ManagerImpl.                                           *)

\* connect: the handshake succeeds.
Connect(c, u) ==
    /\ OnOpen(c, u)
    /\ ws' = [ws EXCEPT ![c] = "open"]
    /\ UNCHANGED <<up, exec, role, webSocket, mediaVars, peers, pending,
                   crashed, callVars>>

\* joinRoom, from the activity that onWebSocketOpen's callback started.
JoinRoom(c) ==
    /\ ws[c] = "open"
    /\ ~joined[c]
    /\ ~left[c]
    /\ joined' = [joined EXCEPT ![c] = TRUE]
    /\ up' = [up EXCEPT ![c] = Append(@, [op |-> "join"])]
    /\ UNCHANGED <<serverVars, ws, exec, role, webSocket, mediaVars, peers,
                   pending, crashed, seen, left>>

\* exitRoom: the user hangs up.
ExitRoom(c) ==
    /\ c \in Leavers
    /\ joined[c]
    /\ ~left[c]
    /\ ~crashed[c]
    /\ left' = [left EXCEPT ![c] = TRUE]
    /\ exec' = [exec EXCEPT ![c] = Append(@, [op |-> "exit"])]
    /\ UNCHANGED <<serverVars, ws, up, role, webSocket, mediaVars, peers,
                   pending, crashed, seen, joined>>

\* The executor task that a frame becomes: the handlers of WsServiceImpl, the
\* posts of ManagerImpl and the methods of PeerService.
TaskFor(frame) ==
    CASE frame.event = "_peers" ->
            [op |-> "peers", connections |-> frame.connections]
      [] frame.event = "_new_peer" -> [op |-> "new_peer", id |-> frame.socketId]
      [] frame.event = "_remove_peer" ->
            [op |-> "remove_peer", id |-> frame.socketId]
      [] OTHER -> [op |-> frame.event, id |-> frame.socketId]

Deliver(c) ==
    /\ ws[c] = "open"
    /\ ~crashed[c]
    /\ seen[c] < Len(inbox[c])
    /\ seen' = [seen EXCEPT ![c] = @ + 1]
    /\ exec' = [exec EXCEPT ![c] = Append(@, TaskFor(inbox[c][seen[c] + 1]))]
    /\ UNCHANGED <<serverVars, ws, up, role, webSocket, mediaVars, peers,
                   pending, crashed, joined, left>>

WsOnCloseOnce(c) ==     \* mutant: a close the client asked for is ignored
    /\ ws[c] \in {"closing", "cut"}
    /\ ~crashed[c]
    /\ ws' = [ws EXCEPT ![c] = "closed"]
    /\ exec' = IF ws[c] = "closing" THEN exec
               ELSE [exec EXCEPT ![c] = Append(@, [op |-> "exit"])]
    /\ UNCHANGED <<serverVars, up, role, webSocket, mediaVars, peers, pending,
                   crashed, callVars>>

\* onClose of the websocket, after the client closed it or found it broken:
\* onWebSocketOpenFailed calls exitRoom (again).
WsOnClose(c) ==
    /\ ws[c] \in {"closing", "cut"}
    /\ ~crashed[c]
    /\ ws' = [ws EXCEPT ![c] = "closed"]
    /\ exec' = [exec EXCEPT ![c] = Append(@, [op |-> "exit"])]
    /\ UNCHANGED <<serverVars, up, role, webSocket, mediaVars, peers, pending,
                   crashed, callVars>>

-----------------------------------------------------------------------------
(* The network.                                                            *)

\* The server's container receives a message.
Arrive(c) ==
    /\ up[c] # << >>
    /\ LET message == Head(up[c]) IN
        IF message.op = "join" THEN \E r \in Rooms : OnJoinMessage(c, r)
        ELSE OnRelayMessage(c, message.op, message.to)
    /\ up' = [up EXCEPT ![c] = Tail(@)]
    /\ UNCHANGED <<ws, exec, role, webSocket, mediaVars, peers, pending,
                   crashed, callVars>>

\* The connection breaks; neither end knows it yet.
Lose(c) ==
    /\ c \in Losers
    /\ ws[c] = "open"
    /\ ws' = [ws EXCEPT ![c] = "cut"]
    /\ up' = [up EXCEPT ![c] = << >>]
    /\ UNCHANGED <<serverVars, exec, role, webSocket, mediaVars, peers,
                   pending, crashed, callVars>>

\* The server's container finds the connection closed or broken.
ServerNotices(c) ==
    /\ ws[c] \in {"cut", "closing", "closed"}
    /\ up[c] = << >>
    /\ OnClose(c)
    /\ UNCHANGED <<clientVars, callVars>>

-----------------------------------------------------------------------------
RunnerStep == Runner /\ UNCHANGED <<clientVars, callVars>>

ExecutorStep(c) == Executor(c) /\ UNCHANGED <<serverVars, callVars>>

ObserverStep(c) == SignallingThread(c) /\ UNCHANGED <<serverVars, callVars>>

Next ==
    \/ RunnerStep
    \/ \E c \in Clients :
        \/ \E u \in Users : Connect(c, u)
        \/ JoinRoom(c)
        \/ ExitRoom(c)
        \/ Deliver(c)
        \/ WsOnClose(c)
        \/ Arrive(c)
        \/ Lose(c)
        \/ ServerNotices(c)
        \/ ExecutorStep(c)
        \/ ObserverStep(c)

\* What the schedulers owe: the server's runner and the client's executor and
\* signalling thread run what is queued, a connection that has not broken
\* delivers, and both ends find out about one that is closed or broken.  Nobody
\* has to join, hang up or break.
Fairness ==
    /\ WF_vars(RunnerStep)
    /\ \A c \in Clients :
        /\ WF_vars(Deliver(c))
        /\ WF_vars(Arrive(c))
        /\ WF_vars(WsOnClose(c))
        /\ WF_vars(ServerNotices(c))
        /\ WF_vars(ExecutorStep(c))
        /\ WF_vars(ObserverStep(c))

Spec == Init /\ [][Next]_vars

FairSpec == Spec /\ Fairness

\* For model checking: clients are interchangeable.  (A call ends, so its runs
\* do not check for deadlock; QuietCallIsComplete says in which states
\* everything may stop.)
Symmetry == Permutations(Clients)

-----------------------------------------------------------------------------
(* Vocabulary of the properties.                                           *)

\* The next task of c's executor is op, from p, on a connection it has.
NextTask(c, p, op) ==
    /\ exec[c] # << >>
    /\ Head(exec[c]).op = op
    /\ Head(exec[c]).id = p

Meets(c, p, op) == NextTask(c, p, op) /\ Has(c, p)

Connected(c, p) ==
    /\ peers[c][p].sig = "stable"
    /\ peers[c][p].remote
    /\ peers[c][p].candidates = Candidates

\* c is in the call and nothing has taken it out.
Staying(c) == ~left[c] /\ ws[c] = "open"

-----------------------------------------------------------------------------
(* Safety.                                                                 *)

\* An offer always finds the connection that _new_peer prepared for it, still
\* untouched: the two sides never offer to each other.
OfferFindsFreshPeer ==
    \A c, p \in Clients :
        /\ NextTask(c, p, "offer") /\ Staying(c) /\ webSocket[c] => Has(c, p)
        /\ Meets(c, p, "offer") => peers[c][p] = NewPeer

\* No candidate is thrown away for want of a remote description: a candidate
\* never overtakes the offer or the answer it belongs to.
CandidateFindsDescription ==
    \A c, p \in Clients :
        Meets(c, p, "ice_candidate") => peers[c][p].remote

\* An answer finds the offer it answers still open.
AnswerFindsOffer ==
    \A c, p \in Clients :
        Meets(c, p, "answer") => peers[c][p].sig = "have_local_offer"

\* An observer call throws only in a client that is leaving or has lost its
\* connection: while a call goes on the socket is there for every callback.
CrashOnlyOnTheWayOut ==
    [][\A c \in Clients :
          crashed'[c] /\ ~crashed[c] => left[c] \/ ws[c] # "open"]_vars

\* When the websocket has closed and the executor is idle the client holds
\* nothing of the call any more, whatever arrived after exitRoom.
ReleasedAtTheEnd ==
    \A c \in Clients :
        /\ ws[c] = "closed"
        /\ exec[c] = << >>
        /\ ~crashed[c]
        => /\ ~factory[c]
           /\ ~camera[c]
           /\ \A p \in Clients : ~Has(c, p)

\* Nothing is on its way to anyone and nobody has anything left to do.
Quiet ==
    /\ runner = << >>
    /\ \A c \in Clients :
        /\ up[c] = << >>
        /\ exec[c] = << >>
        /\ seen[c] = Len(inbox[c])
        /\ \A p \in Clients : pending[c][p] = << >>

\* A call that has come to rest is complete: any two who joined and stayed are
\* connected to each other.
QuietCallIsComplete ==
    Quiet =>
        \A c, p \in Clients :
            /\ c # p
            /\ joined[c] /\ Staying(c)
            /\ joined[p] /\ Staying(p)
            => Connected(c, p)

\* Every frame finds the connection it is about in the state it needs: an offer
\* one that has exchanged nothing, a candidate one with a description, an
\* answer one that has offered, whatever the server and the two networks
\* reorder between two clients, and the queues hold only what was sent
\* (onReceiveOffer, onRemoteIceCandidate, onReceiverAnswer).
FramesFindConnection ==
    /\ CallTypeOK
    /\ OfferFindsFreshPeer
    /\ CandidateFindsDescription
    /\ AnswerFindsOffer

-----------------------------------------------------------------------------
(* Liveness.                                                               *)

\* Two clients that join and stay get connected, in both directions and with
\* every candidate.
PairConnects ==
    \A c, p \in Clients :
        c # p =>
            (joined[c] /\ joined[p]) ~>
                (Connected(c, p) \/ ~Staying(c) \/ ~Staying(p))

\* Hanging up ends the call for the client, with everything released, unless
\* an observer call crashed on the way.
HangUpEnds ==
    \A c \in Clients :
        left[c] ~> \/ crashed[c]
                   \/ /\ ws[c] = "closed" /\ exec[c] = << >>
                      /\ ~factory[c] /\ ~camera[c]

\* The others drop their connection to a client that hung up, for good.
PeerForgets ==
    \A c, p \in Clients :
        c # p => (left[c] ~> [](~Has(p, c) \/ ~Staying(p)))

\* A hang-up comes to its end on both sides: the client that hung up holds
\* nothing of the call any more, and the other one drops the connection to it
\* for good (exitRoom, onRemoveSocket).
LeaveEnds == HangUpEnds /\ PeerForgets

=============================================================================
