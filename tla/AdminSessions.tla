---------------------------- MODULE AdminSessions ----------------------------
(* The list of sessions an administrator sees, and the sessions she cancels.  *)
(* The relay thread of TurnSession reports its sessions to the admin thread   *)
(* through a buffer of libevent, the admin thread sends the numbers of the    *)
(* sessions to cancel through another one.  The buffers keep their order and  *)
(* lose nothing.  Session numbers are never used again; those of different    *)
(* relay threads are different, so one relay thread shows what can happen.    *)
EXTENDS TurnSession, SequencesExt

CONSTANTS
  MaxReports,    \* bound: reports in the buffer
  MaxCancels     \* bound: cancellations in the buffer

AdminSessionsAssumption == MaxReports \in Nat /\ MaxCancels \in Nat

VARIABLES
  reports,       \* adminserver.in_buf
  sessions,      \* adminserver.sessions: the numbers with an entry
  started,       \* there is a map in adminserver.sessions
  cancels,       \* the relay's in_buf, as far as cancellations go
  moved,         \* history: moved since they were last reported
  cancelled      \* history: found and shut down by a cancellation

listVars == <<reports, sessions, started, cancels, moved, cancelled>>

(* setup_admin_thread makes the map last, and not at all when the listener of *)
(* the web interface or of the command line cannot be opened.                 *)
ListInit ==
  /\ SessionInit
  /\ reports = <<>> /\ sessions = {} /\ started \in BOOLEAN /\ cancels = <<>>
  /\ moved = {} /\ cancelled = {}

(* turn_session_info_copy_from.                                               *)
Info(st, s) == [id |-> s, valid |-> st.ss[s].valid /\ st.ss[s].quota]

(* turn_report_session_usage(ss, 1)                                           *)
Gone(s) == [id |-> s, valid |-> FALSE]

(* report_turn_session_info, send_turn_session_info.                          *)
Report(infos) ==
  /\ reports' = reports \o infos
  /\ moved' = moved \ {infos[i].id : i \in DOMAIN infos}

Room(n) == Len(reports) + Len(cancels) + n <= MaxReports

-----------------------------------------------------------------------------
(* The relay thread: read_client_connection reports after every command but   *)
(* BINDING and SEND.                                                          *)

Open(r, t) == open_client_connection_session(r, t) /\ UNCHANGED listVars

Allocate(s, u, mobility, bps, got) ==
  /\ Room(1)
  /\ handle_turn_allocate(s, u, mobility, bps, got)
  /\ Report(<<Info(srv', s)>>)
  /\ UNCHANGED <<sessions, started, cancels, cancelled>>

(* A command that leaves the session as it is, or every 4096th packet.        *)
Usage(s) ==
  /\ Room(1)
  /\ s \in LiveSession /\ srv.ss[s].client = "open"
  /\ Report(<<Info(srv, s)>>)
  /\ UNCHANGED <<sessionVars, sessions, started, cancels, cancelled>>

(* A session that moved is not reported: handle_turn_refresh returns before   *)
(* it comes to the report.  The session the request came from is reported,    *)
(* and once more when it is closed.                                           *)
Move(s, t, fresh) ==
  /\ Room(2)
  /\ handle_turn_refresh(s, t, TRUE, fresh)
  /\ reports' = reports \o <<Gone(s), Gone(s)>>
  /\ moved' = moved \cup {srv.mobile_map[t]}
  /\ UNCHANGED <<sessions, started, cancels, cancelled>>

MoveRefused(s, t) ==
  /\ Room(2)
  /\ handle_turn_refresh(s, t, FALSE, t)
  /\ Report(<<Info(srv', srv.mobile_map[t]), Info(srv', s)>>)
  /\ UNCHANGED <<sessions, started, cancels, cancelled>>

(* What ends a session without an administrator: its client's socket breaks,  *)
(* its allocation expires, the watchdog finds it.                             *)
Ends(s) ==
  /\ Room(1)
  /\ \/ turn_cancel_session(s)
     \/ client_to_be_allocated_timeout_handler(s)
     \/ \E f \in Family : srv.ss[s].relay = {f} /\ client_ss_allocation_timeout_handler(s, f)
  /\ Report(<<Gone(s)>>)
  /\ UNCHANGED <<sessions, started, cancels, cancelled>>

(* One family of two expires: nothing is reported.                            *)
FamilyEnds(s) ==
  /\ \E f \in Family : srv.ss[s].relay \ {f} # {} /\ client_ss_allocation_timeout_handler(s, f)
  /\ UNCHANGED listVars

(* get_session_from_map                                                       *)
Cancelled(s) == s \in LiveSession

(* relay_receive_message: RMT_CANCEL_SESSION.                                 *)
ReceiveCancel ==
  /\ cancels # <<>>
  /\ cancels' = Tail(cancels)
  /\ LET s == Head(cancels)
     IN  IF Cancelled(s)
         THEN turn_cancel_session(s) /\ Report(<<Gone(s)>>) /\ cancelled' = cancelled \cup {s}
         ELSE UNCHANGED <<sessionVars, reports, moved, cancelled>>
  /\ UNCHANGED <<sessions, started>>

-----------------------------------------------------------------------------
(* The admin thread.                                                          *)

(* What the list says of s once the reports in the buffer have been received. *)
Latest(s) ==
  LET mine == SelectSeq(reports, LAMBDA r : r.id = s)
  IN  IF mine = <<>> THEN s \in sessions ELSE Last(mine).valid

Received == {s \in Session : Latest(s)}

(* Without a map ur_map_put refuses, and the report is lost.                  *)
admin_server_receive_message ==
  /\ reports # <<>>
  /\ reports' = <<>>
  /\ sessions' = IF started THEN Received ELSE {}
  /\ UNCHANGED <<sessionVars, started, cancels, moved, cancelled>>

(* The command line takes any number, the web page one of its list.           *)
send_session_cancellation_to_relay(s) ==
  /\ Room(1) /\ Len(cancels) < MaxCancels
  /\ cancels' = Append(cancels, s)
  /\ UNCHANGED <<sessionVars, reports, sessions, started, moved, cancelled>>

ListNext ==
  \/ \E r \in Realm, t \in Ticket : Open(r, t)
  \/ \E s \in Session :
       \/ \E u \in User, mobility \in BOOLEAN, bps \in Bps, got \in SUBSET Family : Allocate(s, u, mobility, bps, got)
       \/ Usage(s)
       \/ \E t, fresh \in Ticket : Move(s, t, fresh)
       \/ \E t \in Ticket : MoveRefused(s, t)
       \/ Ends(s)
       \/ FamilyEnds(s)
  \/ ReceiveCancel
  \/ admin_server_receive_message
  \/ \E s \in 1..MaxSession : send_session_cancellation_to_relay(s)

(* Both threads run their event loops for ever.                               *)
ListFairness ==
  /\ WF_<<sessionVars, listVars>>(ReceiveCancel)
  /\ WF_<<sessionVars, listVars>>(admin_server_receive_message)

ListSpec == ListInit /\ [][ListNext]_<<sessionVars, listVars>> /\ ListFairness

-----------------------------------------------------------------------------
(* No ghosts and nothing missing: once the buffer is empty the list has only  *)
(* sessions with an allocation, and every session with an allocation that is  *)
(* counted, but for those that moved and have sent nothing since.             *)
ListExact ==
  started =>
    \A s \in Session :
      /\ Latest(s) => srv.ss[s].live /\ srv.ss[s].valid
      /\ srv.ss[s].live /\ srv.ss[s].valid /\ srv.ss[s].quota /\ s \notin moved => Latest(s)

(* A session that is cancelled disappears from the list, whatever it and the  *)
(* admin thread do at the same time (turn_cancel_session).                    *)
CancelDelists ==
  \A s \in 1..MaxSession : (s \in Range(cancels)) ~> ~Latest(s)

(* "cs <session-id> - cancel session, forcefully": a session that was found   *)
(* and cancelled is gone.                                                     *)
(* The code does not keep this (README).                                      *)
CancelEnds == \A s \in cancelled : ~srv.ss[s].live
=============================================================================
