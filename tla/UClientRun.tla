------------------------------ MODULE UClientRun ------------------------------
(* The sessions of the test client turnutils_uclient once they are started    *)
(* (UClientStart): one thread that reads the sockets and runs a timer, which  *)
(* refreshes the allocation, the permission and the channel, sends the        *)
(* numbered messages and ends the session when it has waited long enough or   *)
(* has everything back.  Requests are sent without waiting; their answers are *)
(* met by client_read.  Datagrams are lost, doubled and reordered, and take   *)
(* at most until the next tick.  The server and the echo are external.  UDP   *)
(* relays, no mobility, no TCP.                                               *)
EXTENDS Integers, Sequences, FiniteSets, FiniteSetsExt, Bags

CONSTANTS
  Elems,          \* the sessions
  C2C,            \* pairs of sessions send to each other
  HangOn,         \* hang_on: a session that has completed stays
  MsgNum,         \* tot_msgnum
  Interval,       \* ticks between refreshes, 30 seconds
  StopTime,       \* STOPPING_TIME
  AllocLife, PermLife, ChanLife,  \* the server's lifetimes
  MaxTime, MaxLost, MaxDouble, MaxStale, MaxDropped

UClientRunAssumption ==
  /\ IsFiniteSet(Elems) /\ {C2C, HangOn} \subseteq BOOLEAN
  /\ C2C => Cardinality(Elems) = 2
  /\ {MsgNum, Interval, StopTime, AllocLife, PermLife, ChanLife, MaxTime, MaxLost, MaxDouble, MaxStale, MaxDropped} \subseteq Nat

VARIABLES
  now, todo,      \* the time, and the sessions the timer's loop has still to visit
  el,             \* the sessions
  tot_send_messages, tot_recv_messages, total_loss,
  net,            \* the datagrams on their way, each with the time it was sent
  srv,            \* of each session the server's nonce and the times its things expire
  lost, doubled, stale, dropped, late,
  bye             \* of each session, what became of its last refresh

runVars == <<now, todo, el, tot_send_messages, tot_recv_messages, total_loss, net, srv, lost, doubled, stale, dropped, late, bye>>
world == <<lost, doubled, stale>>

Other(e) == IF C2C THEN CHOOSE f \in Elems : f # e ELSE e
TotMessages == MsgNum * Cardinality(Elems)

Request(e, m, lt, at) == [kind |-> "request", e |-> e, method |-> m, lt |-> lt, nonce |-> at, n |-> 0, at |-> now]
Challenge(q, nonce) == [q EXCEPT !.kind = "challenge", !.nonce = nonce, !.at = now]
Data(e, n) == [kind |-> "data", e |-> e, method |-> "none", lt |-> 0, nonce |-> 0, n |-> n, at |-> now]

-----------------------------------------------------------------------------
(* start_mclient has started every session; the first message of each waits   *)
(* for a random time.                                                         *)
RunInit ==
  /\ now = 0 /\ todo = {}
  /\ el \in [Elems -> {[state |-> "READY", wmsgnum |-> 0, recvmsgnum |-> -1, rmsgnum |-> 0, loss |-> 0, refresh |-> 0,
                        toSend |-> t, finished |-> 0, completed |-> FALSE, nonce |-> 1] : t \in 1 .. 2}]
  /\ tot_send_messages = 0 /\ tot_recv_messages = 0 /\ total_loss = 0
  /\ net = EmptyBag
  /\ srv = [e \in Elems |-> [nonce |-> 1, alloc |-> AllocLife, perm |-> PermLife, chan |-> ChanLife]]
  /\ lost = 0 /\ doubled = 0 /\ stale = 0 /\ dropped = 0 /\ late = 0
  /\ bye = [e \in Elems |-> "none"]

(* refresh_channel: with method "none" the allocation, the permission and the *)
(* channel, with lifetime 0 only the allocation; all with the nonce the       *)
(* session has now.  The next refresh is due after Interval.                  *)
refresh_channel(e, method, lt) ==
  [send |-> {Request(e, m, lt, el[e].nonce) :
               m \in {x \in {"REFRESH", "CREATE_PERMISSION", "CHANNEL_BIND"} :
                        /\ method \in {"none", x}
                        /\ x # "REFRESH" => lt # 0}},
   due |-> now + Interval]

(* The session has sent everything, and has waited or has everything back.    *)
Ends(e, s) ==
  s.wmsgnum >= MsgNum /\ now >= s.toSend /\ (now >= s.finished \/ tot_recv_messages >= TotMessages)

LastWord(e) == refresh_channel(e, "none", 0).send

MayWrite(s) == now >= s.toSend /\ s.wmsgnum < MsgNum

(* client_timer_handler: refresh when due; then a message when due            *)
(* (client_write, which counts a message it failed to send as written); when  *)
(* none is left the end, after which the session reads no more.               *)
client_timer_handler(e) ==
  LET s == el[e]
      due == now >= s.refresh
      r == refresh_channel(e, "none", 600)
      s1 == IF due THEN [s EXCEPT !.refresh = r.due] ELSE s
      first == IF due THEN r.send ELSE {}
      Counted(x) == [x EXCEPT !.loss = 0, !.completed = TRUE]
  IN /\ e \in todo /\ todo' = todo \ {e}
     /\ IF HangOn /\ s.completed
          THEN /\ el' = [el EXCEPT ![e] = s1] /\ net' = net (+) SetToBag(first)
               /\ UNCHANGED <<tot_send_messages, total_loss, dropped, bye>>
        ELSE IF Ends(e, s1)
          THEN /\ total_loss' = total_loss + s1.loss
               /\ IF HangOn
                    THEN el' = [el EXCEPT ![e] = Counted(s1)] /\ net' = net (+) SetToBag(first) /\ UNCHANGED bye
                    ELSE /\ el' = [el EXCEPT ![e] = [Counted(s1) EXCEPT !.state = "DONE", !.refresh = r.due]]
                         /\ net' = net (+) SetToBag(first) (+) SetToBag(LastWord(e))
                         /\ bye' = [bye EXCEPT ![e] = "sent"]
               /\ UNCHANGED <<tot_send_messages, dropped>>
        ELSE IF MayWrite(s1)
          THEN /\ el' = [el EXCEPT ![e] = [s1 EXCEPT !.wmsgnum = @ + 1, !.toSend = @ + 1, !.finished = now + StopTime]]
               /\ \/ /\ net' = net (+) SetToBag(first) (+) SetToBag({Data(Other(e), s1.wmsgnum)})
                     /\ tot_send_messages' = tot_send_messages + 1 /\ UNCHANGED dropped
                  \/ /\ dropped < MaxDropped /\ dropped' = dropped + 1
                     /\ net' = net (+) SetToBag(first) /\ UNCHANGED tot_send_messages
               /\ UNCHANGED <<total_loss, bye>>
          ELSE /\ el' = [el EXCEPT ![e] = s1] /\ net' = net (+) SetToBag(first)
               /\ UNCHANGED <<tot_send_messages, total_loss, dropped, bye>>
     /\ UNCHANGED <<now, tot_recv_messages, srv, world, late>>

(* Mutant: a message counts as lost only when it comes again.                 *)
client_read_data_backwards(s, d) ==
  [s EXCEPT !.loss = IF d.n <= s.recvmsgnum THEN @ + 1 ELSE @, !.recvmsgnum = d.n, !.rmsgnum = @ + 1]

(* client_read of a message: one that is not the successor of the last one    *)
(* counts as a loss.                                                          *)
client_read_data(s, d) ==
  [s EXCEPT !.loss = IF d.n # s.recvmsgnum + 1 THEN @ + 1 ELSE @, !.recvmsgnum = d.n, !.rmsgnum = @ + 1]

(* client_read of a challenge: the nonce is remembered; only a refresh is     *)
(* made again, a permission or a channel waits for the next interval.         *)
client_read_challenge(e, d) ==
  LET s == [el[e] EXCEPT !.nonce = d.nonce]
  IN IF d.method = "REFRESH"
       THEN LET r == refresh_channel(e, "REFRESH", 600)
            IN [s |-> [s EXCEPT !.refresh = r.due], send |-> {[q EXCEPT !.nonce = d.nonce] : q \in r.send}]
       ELSE [s |-> s, send |-> {}]

(* client_input_handler and client_read, one datagram.                        *)
client_read(e, d) ==
  /\ todo = {} /\ d \in BagToSet(net) /\ d.e = e /\ d.kind # "request" /\ el[e].state = "READY"
  /\ \/ /\ d.kind = "data"
        /\ el' = [el EXCEPT ![e] = client_read_data(@, d)]
        /\ tot_recv_messages' = tot_recv_messages + 1
        /\ net' = net (-) SetToBag({d})
     \/ /\ d.kind = "challenge"
        /\ \E r \in {client_read_challenge(e, d)} :
             /\ el' = [el EXCEPT ![e] = r.s]
             /\ net' = (net (-) SetToBag({d})) (+) SetToBag(r.send)
        /\ UNCHANGED tot_recv_messages
  /\ UNCHANGED <<now, todo, tot_send_messages, total_loss, srv, world, dropped, late, bye>>

(* What reaches the closed socket of an ended session.                        *)
closed_socket(e, d) ==
  /\ todo = {} /\ d \in BagToSet(net) /\ d.e = e /\ d.kind # "request" /\ el[e].state = "DONE"
  /\ net' = net (-) SetToBag({d})
  /\ late' = IF d.kind = "data" THEN late + 1 ELSE late
  /\ bye' = IF d.kind = "challenge" /\ d.lt = 0 THEN [bye EXCEPT ![e] = "challenged"] ELSE bye
  /\ UNCHANGED <<now, todo, el, tot_send_messages, tot_recv_messages, total_loss, srv, world, dropped>>

-----------------------------------------------------------------------------
(* The server.  The client does nothing with a success or an error, so these  *)
(* answers are left out.                                                      *)
Serve(q) ==
  LET e == q.e
      v == srv[e]
      Taken == net' = net (-) SetToBag({q})
      Do(w) == srv' = [srv EXCEPT ![e] = w] /\ Taken
  IN /\ todo = {} /\ q \in BagToSet(net) /\ q.kind = "request"
     /\ CASE q.nonce # v.nonce -> net' = (net (-) SetToBag({q})) (+) SetToBag({Challenge(q, v.nonce)}) /\ UNCHANGED srv
          [] q.nonce = v.nonce /\ v.alloc < now -> Taken /\ UNCHANGED srv
          [] q.nonce = v.nonce /\ v.alloc >= now ->
               CASE q.method = "REFRESH" -> Do([v EXCEPT !.alloc = IF q.lt = 0 THEN -1 ELSE now + AllocLife])
                 [] q.method = "CREATE_PERMISSION" -> Do([v EXCEPT !.perm = now + PermLife])
                 [] q.method = "CHANNEL_BIND" -> Do([v EXCEPT !.chan = now + ChanLife, !.perm = now + PermLife])
     /\ UNCHANGED <<now, todo, el, tot_send_messages, tot_recv_messages, total_loss, world, dropped, late, bye>>

Stale ==
  /\ todo = {} /\ stale < MaxStale /\ stale' = stale + 1
  /\ \E e \in Elems : srv' = [srv EXCEPT ![e].nonce = @ + 1]
  /\ UNCHANGED <<now, todo, el, tot_send_messages, tot_recv_messages, total_loss, net, lost, doubled, dropped, late, bye>>

Lose ==
  /\ todo = {} /\ lost < MaxLost /\ lost' = lost + 1
  /\ \E d \in BagToSet(net) :
       /\ net' = net (-) SetToBag({d})
       /\ bye' = IF d.method = "REFRESH" /\ d.lt = 0 THEN [bye EXCEPT ![d.e] = "lost"] ELSE bye
       /\ late' = IF d.kind = "data" THEN late + 1 ELSE late
  /\ UNCHANGED <<now, todo, el, tot_send_messages, tot_recv_messages, total_loss, srv, doubled, stale, dropped>>

Double ==
  /\ todo = {} /\ doubled < MaxDouble /\ doubled' = doubled + 1
  /\ \E d \in BagToSet(net) : d.kind = "data" /\ net' = net (+) SetToBag({d})
  /\ UNCHANGED <<now, todo, el, tot_send_messages, tot_recv_messages, total_loss, srv, lost, stale, dropped, late, bye>>

(* Time passes when nothing is older than a tick; then the timer fires.       *)
Tick ==
  /\ todo = {} /\ now < MaxTime
  /\ \A d \in BagToSet(net) : d.at = now
  /\ now' = now + 1
  /\ todo' = {e \in Elems : el[e].state = "READY"}
  /\ UNCHANGED <<el, tot_send_messages, tot_recv_messages, total_loss, net, srv, world, dropped, late, bye>>

Timer == \E e \in Elems : client_timer_handler(e)
Input == \E e \in Elems, d \in BagToSet(net) : client_read(e, d) \/ closed_socket(e, d)
AnyServe == \E q \in BagToSet(net) : Serve(q)

RunNext == Tick \/ Timer \/ Input \/ AnyServe \/ Stale \/ Lose \/ Double
RunSpec == RunInit /\ [][RunNext]_runVars

(* The event loop runs its timer and reads what arrives, and time passes.     *)
FairRunSpec == RunSpec /\ WF_runVars(Tick) /\ WF_runVars(Timer) /\ WF_runVars(Input) /\ WF_runVars(AnyServe)

-----------------------------------------------------------------------------
InFlight == MapThenSumSet(LAMBDA d : IF d.kind = "data" THEN CopiesIn(d, net) ELSE 0, BagToSet(net))

RunTypeOK ==
  /\ now \in 0 .. MaxTime /\ todo \subseteq Elems
  /\ \A e \in Elems : el[e].state \in {"READY", "DONE"} /\ el[e].wmsgnum \in 0 .. MsgNum /\ el[e].recvmsgnum \in -1 .. MsgNum - 1
  /\ \A e \in todo : el[e].state = "READY"

(* While a session lasts, its allocation, its permission and its channel do   *)
(* not expire, whatever single request is lost or challenged.                 *)
KeptAlive ==
  \A e \in Elems : el[e].state = "READY" => srv[e].alloc >= now /\ srv[e].perm >= now /\ srv[e].chan >= now

(* A session that counted no loss has received exactly the messages up to the *)
(* last one, once each and in order.                                          *)
NoLossNoGap == \A e \in Elems : ~el[e].completed /\ el[e].loss = 0 => el[e].rmsgnum = el[e].recvmsgnum + 1

(* The loss start_mclient reports when the last session has ended.            *)
Reported == IF tot_send_messages < tot_recv_messages THEN 0 ELSE tot_send_messages - tot_recv_messages

(* Every message that was sent is received, lost, late or on its way; what    *)
(* the final report calls lost was lost or late, and it misses no more of     *)
(* these than were doubled.                                                   *)
LossReported ==
  /\ tot_send_messages + dropped = MapThenSumSet(LAMBDA e : el[e].wmsgnum, Elems)
  /\ tot_send_messages + doubled = tot_recv_messages + late + InFlight
  /\ (\A e \in Elems : el[e].state = "DONE") /\ net = EmptyBag => Reported \in Max({0, late - doubled}) .. late

(* A session that ended has given its allocation up, unless its last word was *)
(* lost or challenged: nobody reads the answer.                               *)
GivenUp ==
  \A e \in Elems : el[e].state = "DONE" /\ (\A d \in BagToSet(net) : d.e # e) /\ bye[e] = "sent" => srv[e].alloc = -1

(* Every session ends, whatever is lost.                                      *)
RunEnds == <>(\A e \in Elems : el[e].state = "DONE")
=============================================================================
