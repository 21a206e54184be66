----------------------------- MODULE TurnSession -----------------------------
(* The sessions of one TURN server: opening, allocating, moving to another    *)
(* client socket (mobility), the timers that end them, and the account of     *)
(* quotas, bandwidth and mobility tickets they are kept in.  A session is an  *)
(* object of the heap, numbered in the order of creation.  Durations are left *)
(* out: a timer that is set may fire at any time.                             *)
EXTENDS Integers, Sequences, FiniteSets

CONSTANTS
  User, Realm, NoUser,
  Ticket,        \* mobility ids (56 random bits in the code)
  Family,        \* address families of relay sockets
  UserQuota, TotalQuota,   \* --user-quota, --total-quota; 0: no limit
  Bps,           \* bandwidths a session may ask for; 0: none
  BpsCapacity,   \* --bps-capacity; 0: no limit
  MaxSession     \* bound: sessions ever opened

SessionAssumption ==
  /\ UserQuota \in Nat /\ TotalQuota \in Nat /\ BpsCapacity \in Nat /\ MaxSession \in Nat
  /\ Bps \subseteq Nat /\ NoUser \notin User /\ 0 \notin Ticket

ASSUME SessionAssumed == SessionAssumption

VARIABLES
  srv,       \* the server: see SessionInit
  tickets    \* history: tickets that clients were given

sessionVars == <<srv, tickets>>

(* A new session: what calloc leaves, a client socket, the realm of the       *)
(* origin and the timer that ends it unless an allocation comes.              *)
EmptySession(r) == [live |-> TRUE, client |-> "open", valid |-> FALSE, relay |-> {}, timer |-> {},
                    mobile |-> FALSE, mid |-> 0, quota |-> FALSE, bps |-> 0, user |-> NoUser,
                    realm |-> r, key |-> FALSE, watchdog |-> TRUE]

SessionInit ==
  /\ srv = [ss |-> <<>>,
            mobile_map |-> [t \in Ticket |-> 0],
            alloc_counters |-> [r \in Realm |-> [u \in User |-> 0]],
            total |-> [r \in Realm |-> 0],
            bps |-> 0]
  /\ tickets = {}

Session == DOMAIN srv.ss
LiveSession == {s \in Session : srv.ss[s].live}

-----------------------------------------------------------------------------
(* Quotas: counters of the realm, per user and in total.                      *)

check_new_allocation_quota(st, u, r) ==
  /\ TotalQuota = 0 \/ st.total[r] < TotalQuota
  /\ st.alloc_counters[r][u] = 0 \/ UserQuota = 0 \/ st.alloc_counters[r][u] < UserQuota

(* Mutant: only the total is taken back.                                      *)
release_allocation_quota_total(st, u, r) ==
  [st EXCEPT !.total[r] = IF @ > 0 THEN @ - 1 ELSE 0]

release_allocation_quota(st, u, r) ==
  [st EXCEPT !.alloc_counters[r][u] = IF @ > 0 THEN @ - 1 ELSE 0,
             !.total[r] = IF @ > 0 THEN @ - 1 ELSE 0]

InQuota(st, s, u) == st.ss[s].quota \/ check_new_allocation_quota(st, u, st.ss[s].realm)

inc_quota(st, s, u) ==
  IF st.ss[s].quota \/ ~InQuota(st, s, u) THEN st
  ELSE [st EXCEPT !.alloc_counters[st.ss[s].realm][u] = @ + 1,
                  !.total[st.ss[s].realm] = @ + 1,
                  !.ss[s].quota = TRUE, !.ss[s].user = u]

dec_quota(st, s) ==
  IF ~st.ss[s].quota THEN st
  ELSE release_allocation_quota([st EXCEPT !.ss[s].quota = FALSE], st.ss[s].user, st.ss[s].realm)

-----------------------------------------------------------------------------
(* Bandwidth: what is left is granted, though it be less than was asked.      *)

BpsGranted(st, n) ==
  IF BpsCapacity = 0 THEN n
  ELSE IF st.bps >= BpsCapacity THEN 0
  ELSE IF BpsCapacity - st.bps =< n THEN BpsCapacity - st.bps ELSE n

allocate_bps(st, s, n) ==
  IF n = 0 \/ st.ss[s].bps # 0 THEN st
  ELSE [st EXCEPT !.bps = @ + BpsGranted(st, n), !.ss[s].bps = BpsGranted(st, n)]

dec_bps(st, s) ==
  [st EXCEPT !.bps = IF @ >= st.ss[s].bps THEN @ - st.ss[s].bps ELSE 0, !.ss[s].bps = 0]

-----------------------------------------------------------------------------
(* The map from tickets to sessions.                                          *)

put_session_into_mobile_map(st, s, t) ==
  LET id == IF st.ss[s].mid = 0 THEN t ELSE st.ss[s].mid
  IN  [st EXCEPT !.ss[s].mid = id, !.mobile_map[id] = s]

delete_session_from_mobile_map(st, s) ==
  IF st.ss[s].mid = 0 THEN st
  ELSE [st EXCEPT !.mobile_map[st.ss[s].mid] = 0, !.ss[s].mid = 0]

NewTicket(st) == {t \in Ticket : st.mobile_map[t] = 0}

-----------------------------------------------------------------------------
(* The end of a session.                                                      *)

turn_server_remove_all_from_ur_map_ss(st, s) ==
  LET a == delete_session_from_mobile_map(st, s)
  IN  [a EXCEPT !.ss[s].live = FALSE, !.ss[s].client = "none", !.ss[s].valid = FALSE,
                !.ss[s].relay = {}, !.ss[s].timer = {}, !.ss[s].watchdog = FALSE]

(* A mobile session with an allocation survives its client socket: the first  *)
(* stage gives its quota and its bandwidth back and closes the socket.        *)
shutdown_client_connection(st, s, force) ==
  LET a == dec_bps(dec_quota(st, s), s)
  IN  IF ~force /\ st.ss[s].valid /\ st.ss[s].mobile
      THEN [a EXCEPT !.ss[s].client = "none"]
      ELSE turn_server_remove_all_from_ur_map_ss(a, s)

(* A watchdog runs for every session, again and again; it ends the session    *)
(* that has no client socket or no relay socket with a timer.                 *)
client_to_be_allocated_timeout_handler(s) ==
  /\ s \in LiveSession /\ srv.ss[s].watchdog
  /\ srv.ss[s].client = "none" \/ srv.ss[s].relay = {} \/ srv.ss[s].timer = {}
  /\ srv' = shutdown_client_connection(srv, s, TRUE)
  /\ UNCHANGED tickets

(* The relay socket of family f is closed.                                    *)
LosesRelay(st, s, f) == [st EXCEPT !.ss[s].relay = @ \ {f}, !.ss[s].timer = @ \ {f}]

client_ss_allocation_timeout_handler(s, f) ==
  /\ s \in LiveSession /\ f \in srv.ss[s].timer
  /\ LET a == LosesRelay(srv, s, f)
     IN  srv' = IF a.ss[s].relay = {} THEN shutdown_client_connection(a, s, FALSE) ELSE a
  /\ UNCHANGED tickets

(* The client's socket breaks, or an administrator cancels the session.       *)
turn_cancel_session(s) ==
  /\ s \in LiveSession
  /\ srv' = shutdown_client_connection(srv, s, FALSE)
  /\ UNCHANGED tickets

-----------------------------------------------------------------------------
(* Requests.                                                                  *)

(* The realm of a session is the one of the origin of its first message.      *)
OpensSession(st, r) == [st EXCEPT !.ss = Append(@, EmptySession(r))]

open_client_connection_session(r, t) ==
  /\ Len(srv.ss) < MaxSession
  /\ t \in NewTicket(srv)
  /\ srv' = put_session_into_mobile_map(OpensSession(srv, r), Len(srv.ss) + 1, t)
  /\ UNCHANGED tickets

(* Relay sockets are made for the families in got out of those in want; a     *)
(* session has an allocation as soon as there is one.                         *)
create_relay_connection(st, s, got) ==
  [st EXCEPT !.ss[s].relay = got, !.ss[s].timer = got, !.ss[s].valid = (got # {})]

OverQuota(st, s, u) == ~InQuota(st, s, u)

(* What check_stun_auth and the attributes of the request leave in a session. *)
Authenticated(st, s, u, mobility) ==
  [st EXCEPT !.ss[s].mobile = @ \/ mobility, !.ss[s].user = u, !.ss[s].key = TRUE]

(* The request of an authenticated user.  A session that does not ask for     *)
(* mobility loses its ticket; a failure after the quota was counted leaves it *)
(* counted until the session ends.                                            *)
handle_turn_allocate(s, u, mobility, bps, got) ==
  /\ s \in LiveSession /\ srv.ss[s].client = "open" /\ ~srv.ss[s].valid
  /\ srv.ss[s].user \in {NoUser, u}
  /\ LET a == Authenticated(srv, s, u, mobility)
         b == IF a.ss[s].mobile THEN a ELSE delete_session_from_mobile_map(a, s)
         c == allocate_bps(inc_quota(b, s, u), s, bps)
         refused == OverQuota(b, s, u)
         nobps == bps # 0 /\ c.ss[s].bps = 0
         d == create_relay_connection(c, s, got)
     IN  /\ srv' = IF refused THEN b ELSE IF nobps THEN c ELSE d
         /\ tickets' = tickets \cup ({srv'.ss[s].mid} \ {0})

(* The realm, the name and the key of the session x.                         *)
TakesName(st, s, x) == [st EXCEPT !.ss[s].realm = x.realm, !.ss[s].user = x.user, !.ss[s].key = x.key]

copy_auth_parameters(st, from, to) ==
  LET b == TakesName(dec_quota(st, to), to, st.ss[from])
  IN  IF b.ss[to].user = NoUser THEN b ELSE inc_quota(b, to, b.ss[to].user)

(* The session of the ticket lends s its realm, and its name and key if s has *)
(* none of its own.                                                           *)
TakesRealm(st, s, r) == [st EXCEPT !.ss[s].realm = r]

(* attach_socket_to_session: the client socket of s goes to o.                *)
SocketMoves(st, s, o) == [st EXCEPT !.ss[o].client = "open", !.ss[s].client = "none"]

(* REFRESH with a ticket from a session s without an allocation: the session  *)
(* of the ticket takes over the client socket of s and gets a new ticket; s   *)
(* is closed.  The credentials may be wrong, or still unknown (postponed).    *)
handle_turn_refresh(s, t, authentic, fresh) ==
  LET o == srv.mobile_map[t]
  IN  /\ s \in LiveSession /\ srv.ss[s].client = "open" /\ ~srv.ss[s].valid
      /\ t \in tickets /\ o # 0 /\ o # s /\ srv.ss[o].mobile
      /\ LET a == TakesRealm(srv, s, srv.ss[o].realm)
             b == IF a.ss[s].key THEN a ELSE copy_auth_parameters(a, o, s)
             c == SocketMoves(b, s, o)
             d == IF c.ss[s].key THEN copy_auth_parameters(c, s, o) ELSE c
             e == delete_session_from_mobile_map(delete_session_from_mobile_map(d, s), o)
             g == inc_quota(dec_quota(put_session_into_mobile_map(e, o, fresh), s), o, e.ss[o].user)
         IN  IF authentic
             THEN /\ fresh \in NewTicket(e)
                  /\ srv' = shutdown_client_connection(g, s, FALSE)
                  /\ tickets' = tickets \cup {fresh}
             ELSE /\ fresh = t
                  /\ srv' = b
                  /\ UNCHANGED tickets

SessionNext ==
  \/ \E r \in Realm, t \in Ticket : open_client_connection_session(r, t)
  \/ \E s \in Session :
       \/ \E u \in User, mobility \in BOOLEAN, bps \in Bps, got \in SUBSET Family :
            handle_turn_allocate(s, u, mobility, bps, got)
       \/ \E t, fresh \in Ticket, authentic \in BOOLEAN : handle_turn_refresh(s, t, authentic, fresh)
       \/ \E f \in Family : client_ss_allocation_timeout_handler(s, f)
       \/ client_to_be_allocated_timeout_handler(s)
       \/ turn_cancel_session(s)

(* The watchdog is a cyclic timer of the engine.                              *)
SessionFairness ==
  \A s \in 1..MaxSession : WF_sessionVars(s \in Session /\ client_to_be_allocated_timeout_handler(s))

SessionSpec == SessionInit /\ [][SessionNext]_sessionVars /\ SessionFairness

-----------------------------------------------------------------------------
(* Types of the session records (ts_ur_super_session) and of the accounts.    *)
SessionTypeOK ==
  /\ srv.mobile_map \in [Ticket -> 0..Len(srv.ss)]
  /\ srv.alloc_counters \in [Realm -> [User -> 0..MaxSession]]
  /\ srv.total \in [Realm -> 0..MaxSession]
  /\ BpsCapacity # 0 => srv.bps \in 0..BpsCapacity
  /\ \A s \in Session : /\ srv.ss[s].relay \subseteq Family
                        /\ srv.ss[s].mid \in Ticket \cup {0}
                        /\ srv.ss[s].user \in User \cup {NoUser}

(* The counters of the quotas are the sessions that are counted, however      *)
(* sessions fail, move and end.                                               *)
QuotaExact ==
  \A r \in Realm :
    /\ \A u \in User :
         srv.alloc_counters[r][u] =
           Cardinality({s \in LiveSession : srv.ss[s].quota /\ srv.ss[s].user = u /\ srv.ss[s].realm = r})
    /\ srv.total[r] = Cardinality({s \in LiveSession : srv.ss[s].quota /\ srv.ss[s].realm = r})

(* The sum of what the sessions hold; one that ended holds nothing.           *)
BpsHeld(ss) ==
  LET held[n \in 0 .. Len(ss)] == IF n = 0 THEN 0 ELSE held[n - 1] + ss[n].bps
  IN  held[Len(ss)]

(* The bandwidth the server has given out is what its sessions hold.          *)
BpsExact == srv.bps = BpsHeld(srv.ss)

(* A ticket leads to a live session that has this ticket, and a session that  *)
(* has one is found by it: no ticket of a session that ended leads anywhere.  *)
TicketsLeadHome ==
  /\ \A t \in Ticket : srv.mobile_map[t] # 0 =>
       srv.mobile_map[t] \in LiveSession /\ srv.ss[srv.mobile_map[t]].mid = t
  /\ \A s \in LiveSession : srv.ss[s].mid # 0 => srv.mobile_map[srv.ss[s].mid] = s

(* A session that ended holds nothing: no relay socket, no timer, no quota,   *)
(* no bandwidth, no ticket.                                                   *)
EndedHoldsNothing ==
  \A s \in Session \ LiveSession :
    /\ srv.ss[s].relay = {} /\ srv.ss[s].timer = {} /\ ~srv.ss[s].watchdog
    /\ ~srv.ss[s].quota /\ srv.ss[s].bps = 0 /\ srv.ss[s].mid = 0

(* Every allocation with a client is counted against the quotas, except that  *)
(* a mobile session that comes back may find its quota gone.                  *)
ServedIsCounted ==
  \A s \in LiveSession : srv.ss[s].valid /\ srv.ss[s].client = "open" /\ ~srv.ss[s].mobile
                         => srv.ss[s].quota

(* What sessions hold and what the server counts agree, however sessions      *)
(* fail, move to another client socket and end: quotas, bandwidth and tickets *)
(* are exactly those of the live sessions, an ended session holds nothing,    *)
(* and whoever is served is counted.                                          *)
SessionsAccounted ==
  /\ SessionTypeOK
  /\ QuotaExact
  /\ BpsExact
  /\ TicketsLeadHome
  /\ EndedHoldsNothing
  /\ ServedIsCounted

(* A session without a client socket ends or gets a new one.                  *)
OrphanEnds ==
  \A s \in 1..MaxSession :
    (s \in LiveSession /\ srv.ss[s].client = "none") ~> (s \notin LiveSession \/ srv.ss[s].client = "open")

(* A user has no more concurrent allocations than the quota says.             *)
(* The code does not keep this (README).                                      *)
UserQuotaKept ==
  UserQuota = 0 \/ \A r \in Realm, u \in User :
    Cardinality({s \in LiveSession : srv.ss[s].valid /\ srv.ss[s].relay # {}
                                     /\ srv.ss[s].user = u /\ srv.ss[s].realm = r}) =< UserQuota
=============================================================================
