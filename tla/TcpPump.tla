------------------------------- MODULE TcpPump -------------------------------
(* The two data sockets of one TCP relay connection (RFC 6062) and the        *)
(* congestion control between them: each side's libevent buffers, the read,   *)
(* write and event handlers of the io layer, and the remote parties at both   *)
(* ends.  The sockets are plain TCP, and amounts are counted in units; the    *)
(* constants keep the order of the code's limits.  Callbacks are deferred     *)
(* (BEV_OPT_DEFER_CALLBACKS): they run one at a time on the relay thread, a   *)
(* while after the event that asked for them.                                 *)
EXTENDS Integers, TLAPS

CONSTANTS
  STUN_BUFFER_SIZE, BUFFEREVENT_HIGH_WATERMARK, BUFFEREVENT_MAX_TCP_TO_TCP_WRITE,
  Talking,       \* the sides whose remote party sends
  MaxSent        \* bound: units a remote party sends

Side == {"client_s", "peer_s"}

PumpAssumption ==
  /\ STUN_BUFFER_SIZE \in Nat /\ BUFFEREVENT_HIGH_WATERMARK \in Nat /\ MaxSent \in Nat
  /\ BUFFEREVENT_MAX_TCP_TO_TCP_WRITE \in Nat
  /\ STUN_BUFFER_SIZE < BUFFEREVENT_MAX_TCP_TO_TCP_WRITE
  /\ Talking \subseteq Side

VARIABLES
  open,          \* the connection is not deleted
  in, out,       \* units in the input and the output buffer of a side
  enabled,       \* EV_READ is enabled
  wcb,           \* the write callback is due: the output buffer ran empty
  eof,           \* the remote party ended its stream
  given, taken   \* history: units a remote party sent and received

pumpVars == <<open, in, out, enabled, wcb, eof, given, taken>>

Other(s) == IF s = "client_s" THEN "peer_s" ELSE "client_s"

PumpInit ==
  /\ open = TRUE
  /\ in = [s \in Side |-> 0] /\ out = [s \in Side |-> 0]
  /\ enabled = [s \in Side |-> TRUE] /\ wcb = [s \in Side |-> FALSE]
  /\ eof = [s \in Side |-> FALSE]
  /\ given = [s \in Side |-> 0] /\ taken = [s \in Side |-> 0]

-----------------------------------------------------------------------------
(* Mutant: the room the next read needs is forgotten.                         *)
is_socket_writeable_full(units) == units < BUFFEREVENT_MAX_TCP_TO_TCP_WRITE

(* With that many units in the socket's output buffer.                        *)
is_socket_writeable(units) == units + STUN_BUFFER_SIZE < BUFFEREVENT_MAX_TCP_TO_TCP_WRITE

(* Between data sockets nothing is dropped (option 2 answers "writeable").    *)
send_data_to_data_socket(s, n) == out[s] + n

(* All turns of the worker in one call of the read handler: they empty the    *)
(* input buffer into the other side (their limit of 128 is never met: the     *)
(* high watermark holds two reads).  The worker looks at the other side       *)
(* before each read, the last time when the input is empty and all of it is   *)
(* in the other side's output.  Reading was enabled (e) or not.               *)
socket_input_worker_data(s, e) ==
  /\ out' = [out EXCEPT ![Other(s)] = send_data_to_data_socket(Other(s), in[s])]
  /\ in' = [in EXCEPT ![s] = 0]
  /\ enabled' = [enabled EXCEPT ![s] = e /\ is_socket_writeable(out[Other(s)] + in[s])]

socket_input_handler_data(s) ==
  /\ open /\ in[s] > 0
  /\ socket_input_worker_data(s, enabled[s])
  /\ UNCHANGED <<open, wcb, eof, given, taken>>

(* The buffer that is tested is the one of the socket whose reading is        *)
(* disabled, not the one that just ran empty.                                 *)
Resumes(s) == ~enabled[Other(s)] /\ is_socket_writeable(out[Other(s)])

(* It enables the other side and calls that side's read handler.              *)
socket_output_handler_bev(s) ==
  /\ open /\ wcb[s]
  /\ wcb' = [wcb EXCEPT ![s] = FALSE]
  /\ \/ Resumes(s) /\ socket_input_worker_data(Other(s), TRUE)
     \/ ~Resumes(s) /\ UNCHANGED <<in, out, enabled>>
  /\ UNCHANGED <<open, eof, given, taken>>

(* The end of a stream is noticed by a read, after the data before it; both   *)
(* sockets are closed with what is in their buffers.                          *)
eventcb_bev(s) ==
  /\ open /\ eof[s] /\ enabled[s] /\ in[s] = 0
  /\ open' = FALSE
  /\ UNCHANGED <<in, out, enabled, wcb, eof, given, taken>>

-----------------------------------------------------------------------------
(* libevent and the network.                                                  *)

Arrives(s) ==
  /\ open /\ s \in Talking /\ ~eof[s] /\ enabled[s]
  /\ in[s] < BUFFEREVENT_HIGH_WATERMARK /\ given[s] < MaxSent
  /\ in' = [in EXCEPT ![s] = @ + 1]
  /\ given' = [given EXCEPT ![s] = @ + 1]
  /\ UNCHANGED <<open, out, enabled, wcb, eof, taken>>

Takes(s) ==
  /\ open /\ out[s] > 0
  /\ out' = [out EXCEPT ![s] = @ - 1]
  /\ taken' = [taken EXCEPT ![s] = @ + 1]
  /\ wcb' = [wcb EXCEPT ![s] = @ \/ out[s] = 1]
  /\ UNCHANGED <<open, in, enabled, eof, given>>

Ends(s) ==
  /\ open /\ ~eof[s]
  /\ eof' = [eof EXCEPT ![s] = TRUE]
  /\ UNCHANGED <<open, in, out, enabled, wcb, given, taken>>

PumpNext ==
  \E s \in Side : \/ socket_input_handler_data(s) \/ socket_output_handler_bev(s)
                  \/ eventcb_bev(s) \/ Arrives(s) \/ Takes(s) \/ Ends(s)

(* The event loop runs every callback that is due; the remote parties go on   *)
(* reading.                                                                   *)
PumpFairness ==
  \A s \in Side : /\ WF_pumpVars(socket_input_handler_data(s)) /\ WF_pumpVars(socket_output_handler_bev(s))
                  /\ WF_pumpVars(eventcb_bev(s)) /\ WF_pumpVars(Takes(s))

PumpSpec == PumpInit /\ [][PumpNext]_pumpVars
FairPumpSpec == PumpSpec /\ PumpFairness

-----------------------------------------------------------------------------
(* Every count is a natural number and every flag a flag.                     *)
PumpTypeOK ==
  /\ open \in BOOLEAN
  /\ in \in [Side -> Nat] /\ out \in [Side -> Nat]
  /\ enabled \in [Side -> BOOLEAN] /\ wcb \in [Side -> BOOLEAN] /\ eof \in [Side -> BOOLEAN]
  /\ given \in [Side -> Nat] /\ taken \in [Side -> Nat]

(* The relay is a pipe: what one party sent is in the input buffer, in the    *)
(* other side's output buffer or received, whatever congestion control did    *)
(* (send_data_from_ioa_socket_nbh, socket_input_worker).                      *)
NothingDropped ==
  \A s \in Side : given[s] = in[s] + out[Other(s)] + taken[Other(s)]

(* What congestion control is for: however slowly one party reads, the        *)
(* relay keeps at most the write limit and one input buffer for it            *)
(* (socket_input_worker).                                                     *)
MemoryBounded ==
  \A s \in Side :
    out[s] + in[Other(s)] + STUN_BUFFER_SIZE
      < BUFFEREVENT_MAX_TCP_TO_TCP_WRITE + BUFFEREVENT_HIGH_WATERMARK

(* Reading that congestion control stopped is taken up again once the other   *)
(* party has read what was sent to it (socket_output_handler_bev).             *)
ReadingResumes == \A s \in Side : []<>(enabled[s] \/ ~open)

(* Whatever the two parties and the callbacks do, in any order, the relay     *)
(* between them drops nothing and keeps a bounded amount                      *)
(* (socket_input_handler_bev, socket_output_handler_bev).                     *)
PipeKept == PumpTypeOK /\ NothingDropped /\ MemoryBounded

-----------------------------------------------------------------------------
(* PipeKept for every size of the buffers.  It is not inductive by itself: a  *)
(* read adds a full input buffer to the other side's output, so the bound     *)
(* needs that reading is only enabled while the other side is writeable, and  *)
(* that an input buffer stays within the watermark.                           *)
PumpInv ==
  /\ PipeKept
  /\ \A s \in Side : in[s] <= BUFFEREVENT_HIGH_WATERMARK
  /\ \A s \in Side : enabled[s] => is_socket_writeable(out[Other(s)])

(* The two sockets of a connection are each other's other side.               *)
LEMMA OtherSide ==
  ASSUME NEW s \in Side
  PROVE  Other(s) \in Side /\ Other(s) # s /\ Other(Other(s)) = s
BY DEF Side, Other

(* A call of the read handler moves what is in the input buffer of s.         *)
LEMMA WorkerStep ==
  ASSUME PumpAssumption, PumpInv, NEW s \in Side, NEW e \in BOOLEAN,
         socket_input_worker_data(s, e), UNCHANGED <<open, eof, given, taken>>,
         wcb' \in [Side -> BOOLEAN]
  PROVE  PumpInv'
<1> DEFINE o == Other(s)
<1>1. /\ in \in [Side -> Nat] /\ out \in [Side -> Nat] /\ taken \in [Side -> Nat]
      /\ given \in [Side -> Nat] /\ enabled \in [Side -> BOOLEAN]
  BY DEF PumpInv, PipeKept, PumpTypeOK
<1>2. /\ o \in Side /\ o # s /\ Other(o) = s
      /\ \A x \in Side : x = s \/ x = o
  BY OtherSide DEF Side
<1> HIDE DEF o
<1>3. /\ out' = [out EXCEPT ![o] = out[o] + in[s]]
      /\ in' = [in EXCEPT ![s] = 0]
      /\ enabled' = [enabled EXCEPT ![s] = e /\ is_socket_writeable(out[o] + in[s])]
  BY DEF socket_input_worker_data, send_data_to_data_socket, o
<1>4. Other(s) = o
  BY DEF o
<1>5. /\ out'[o] = out[o] + in[s] /\ out'[s] = out[s]
      /\ in'[s] = 0 /\ in'[o] = in[o]
      /\ enabled'[s] => is_socket_writeable(out'[o])
      /\ enabled'[o] = enabled[o]
  BY <1>1, <1>2, <1>3
<1>6. PumpTypeOK'
  <2>1. in' \in [Side -> Nat] /\ out' \in [Side -> Nat]
    BY <1>1, <1>2, <1>3
  <2>2. (e /\ is_socket_writeable(out[o] + in[s])) \in BOOLEAN
    BY DEF is_socket_writeable
  <2>3. enabled' \in [Side -> BOOLEAN]
    BY <1>1, <1>3, <2>2, Zenon
  <2> QED BY <2>1, <2>3 DEF PumpInv, PipeKept, PumpTypeOK
<1>7. NothingDropped'
  <2>1. /\ given[s] = in[s] + out[o] + taken[o]
        /\ given[o] = in[o] + out[s] + taken[s]
    BY <1>2, <1>4 DEF PumpInv, PipeKept, NothingDropped
  <2>2. /\ given[s] = in'[s] + out'[o] + taken[o]
        /\ given[o] = in'[o] + out'[s] + taken[s]
    BY <1>1, <1>2, <1>5, <2>1
  <2> QED BY <1>2, <1>4, <2>2 DEF NothingDropped
<1>8. MemoryBounded'
  <2>1. /\ out[s] + in[o] + STUN_BUFFER_SIZE
             < BUFFEREVENT_MAX_TCP_TO_TCP_WRITE + BUFFEREVENT_HIGH_WATERMARK
        /\ out[o] + in[s] + STUN_BUFFER_SIZE
             < BUFFEREVENT_MAX_TCP_TO_TCP_WRITE + BUFFEREVENT_HIGH_WATERMARK
    BY <1>2, <1>4 DEF PumpInv, PipeKept, MemoryBounded
  <2>2. /\ out'[s] + in'[o] = out[s] + in[o]
        /\ out'[o] + in'[s] = out[o] + in[s]
    BY <1>1, <1>2, <1>5
  <2> QED BY <1>2, <1>4, <2>1, <2>2 DEF MemoryBounded
<1>9. \A x \in Side : in'[x] <= BUFFEREVENT_HIGH_WATERMARK
  BY <1>1, <1>2, <1>5 DEF PumpInv, PumpAssumption
<1>10. \A x \in Side : enabled'[x] => is_socket_writeable(out'[Other(x)])
  BY <1>2, <1>4, <1>5 DEF PumpInv
<1> QED BY <1>6, <1>7, <1>8, <1>9, <1>10 DEF PumpInv, PipeKept

(* So every handler and every event keeps the strengthened invariant.         *)
LEMMA PumpStep == ASSUME PumpAssumption, PumpInv, [PumpNext]_pumpVars PROVE PumpInv'
<1>1. /\ PumpTypeOK
      /\ in \in [Side -> Nat] /\ out \in [Side -> Nat] /\ taken \in [Side -> Nat]
      /\ given \in [Side -> Nat] /\ enabled \in [Side -> BOOLEAN]
      /\ wcb \in [Side -> BOOLEAN] /\ eof \in [Side -> BOOLEAN]
  BY DEF PumpInv, PipeKept, PumpTypeOK
<1>2. ASSUME NEW s \in Side, socket_input_handler_data(s) PROVE PumpInv'
  BY <1>1, <1>2, WorkerStep DEF socket_input_handler_data
<1>3. ASSUME NEW s \in Side, socket_output_handler_bev(s) PROVE PumpInv'
  <2>1. /\ wcb' \in [Side -> BOOLEAN] /\ UNCHANGED <<open, eof, given, taken>>
    BY <1>1, <1>3 DEF socket_output_handler_bev
  <2>2. CASE socket_input_worker_data(Other(s), TRUE)
    BY <2>1, <2>2, OtherSide, WorkerStep
  <2>3. CASE UNCHANGED <<in, out, enabled>>
    BY <2>1, <2>3 DEF PumpInv, PipeKept, PumpTypeOK, NothingDropped, MemoryBounded,
                      is_socket_writeable
  <2> QED BY <1>3, <2>2, <2>3 DEF socket_output_handler_bev
<1>4. ASSUME NEW s \in Side, eventcb_bev(s) PROVE PumpInv'
  BY <1>4 DEF eventcb_bev, PumpInv, PipeKept, PumpTypeOK, NothingDropped, MemoryBounded,
              is_socket_writeable
<1>5. ASSUME NEW s \in Side, Arrives(s) PROVE PumpInv'
  <2> DEFINE o == Other(s)
  <2>1. /\ o \in Side /\ o # s /\ Other(o) = s
        /\ \A x \in Side : x = s \/ x = o
    BY OtherSide DEF Side
  <2>2. /\ in' = [in EXCEPT ![s] = in[s] + 1] /\ given' = [given EXCEPT ![s] = given[s] + 1]
        /\ in[s] < BUFFEREVENT_HIGH_WATERMARK /\ enabled[s]
        /\ UNCHANGED <<open, out, enabled, wcb, eof, taken>>
    BY <1>5 DEF Arrives
  <2>3. PumpTypeOK'
    BY <1>1, <2>2 DEF PumpTypeOK
  <2>4. out[o] + STUN_BUFFER_SIZE < BUFFEREVENT_MAX_TCP_TO_TCP_WRITE
    BY <2>2 DEF PumpInv, is_socket_writeable
  <2>5. Other(s) = o
    OBVIOUS
  <2> HIDE DEF o
  <2>6. NothingDropped'
    <3>1. /\ given[s] = in[s] + out[o] + taken[o]
          /\ given[o] = in[o] + out[s] + taken[s]
      BY <2>1, <2>5 DEF PumpInv, PipeKept, NothingDropped
    <3>2. /\ given'[s] = in'[s] + out'[o] + taken'[o]
          /\ given'[o] = in'[o] + out'[s] + taken'[s]
      BY <1>1, <2>1, <2>2, <3>1
    <3> QED BY <2>1, <2>5, <3>2 DEF NothingDropped
  <2>7. MemoryBounded'
    <3>1. out[s] + in[o] + STUN_BUFFER_SIZE
             < BUFFEREVENT_MAX_TCP_TO_TCP_WRITE + BUFFEREVENT_HIGH_WATERMARK
      BY <2>1, <2>5 DEF PumpInv, PipeKept, MemoryBounded
    <3>2. out'[s] = out[s] /\ in'[o] = in[o] /\ out'[o] = out[o] /\ in'[s] = in[s] + 1
      BY <1>1, <2>1, <2>2
    <3>3. out'[o] + in'[s] + STUN_BUFFER_SIZE
             < BUFFEREVENT_MAX_TCP_TO_TCP_WRITE + BUFFEREVENT_HIGH_WATERMARK
      BY <1>1, <2>1, <2>2, <2>4, <3>2 DEF PumpAssumption
    <3> QED BY <2>1, <2>5, <3>1, <3>2, <3>3 DEF MemoryBounded
  <2>8. \A x \in Side : in'[x] <= BUFFEREVENT_HIGH_WATERMARK
    BY <1>1, <2>1, <2>2 DEF PumpInv, PumpAssumption
  <2>9. \A x \in Side : enabled'[x] => is_socket_writeable(out[Other(x)])'
    BY <2>2 DEF PumpInv, is_socket_writeable
  <2> QED BY <2>3, <2>6, <2>7, <2>8, <2>9 DEF PumpInv, PipeKept
<1>6. ASSUME NEW s \in Side, Takes(s) PROVE PumpInv'
  <2> DEFINE o == Other(s)
  <2>1. /\ o \in Side /\ o # s /\ Other(o) = s
        /\ \A x \in Side : x = s \/ x = o
    BY OtherSide DEF Side
  <2>2. /\ out' = [out EXCEPT ![s] = out[s] - 1] /\ taken' = [taken EXCEPT ![s] = taken[s] + 1]
        /\ out[s] > 0
        /\ UNCHANGED <<open, in, enabled, eof, given>>
    BY <1>6 DEF Takes
  <2>3. PumpTypeOK'
    <3>1. out' \in [Side -> Nat] /\ taken' \in [Side -> Nat]
      BY <1>1, <2>2
    <3>2. (wcb[s] \/ out[s] = 1) \in BOOLEAN
      BY <1>1
    <3>3. wcb' \in [Side -> BOOLEAN]
      BY <1>1, <1>6, <3>2, Zenon DEF Takes
    <3> QED BY <1>1, <2>2, <3>1, <3>3 DEF PumpTypeOK
  <2>4. Other(s) = o
    OBVIOUS
  <2> HIDE DEF o
  <2>5. out'[s] = out[s] - 1 /\ out'[o] = out[o] /\ taken'[s] = taken[s] + 1 /\ taken'[o] = taken[o]
    BY <1>1, <2>1, <2>2
  <2>6. NothingDropped'
    <3>1. /\ given[s] = in[s] + out[o] + taken[o]
          /\ given[o] = in[o] + out[s] + taken[s]
      BY <2>1, <2>4 DEF PumpInv, PipeKept, NothingDropped
    <3>2. /\ given'[s] = in'[s] + out'[o] + taken'[o]
          /\ given'[o] = in'[o] + out'[s] + taken'[s]
      BY <1>1, <2>1, <2>2, <2>5, <3>1
    <3> QED BY <2>1, <2>4, <3>2 DEF NothingDropped
  <2>7. MemoryBounded'
    <3>1. /\ out[s] + in[o] + STUN_BUFFER_SIZE
               < BUFFEREVENT_MAX_TCP_TO_TCP_WRITE + BUFFEREVENT_HIGH_WATERMARK
          /\ out[o] + in[s] + STUN_BUFFER_SIZE
               < BUFFEREVENT_MAX_TCP_TO_TCP_WRITE + BUFFEREVENT_HIGH_WATERMARK
      BY <2>1, <2>4 DEF PumpInv, PipeKept, MemoryBounded
    <3>2. /\ out'[s] + in'[o] + STUN_BUFFER_SIZE
               < BUFFEREVENT_MAX_TCP_TO_TCP_WRITE + BUFFEREVENT_HIGH_WATERMARK
          /\ out'[o] + in'[s] + STUN_BUFFER_SIZE
               < BUFFEREVENT_MAX_TCP_TO_TCP_WRITE + BUFFEREVENT_HIGH_WATERMARK
      BY <1>1, <2>1, <2>2, <2>5, <3>1 DEF PumpAssumption
    <3> QED BY <2>1, <2>4, <3>2 DEF MemoryBounded
  <2>8. \A x \in Side : in'[x] <= BUFFEREVENT_HIGH_WATERMARK
    BY <2>2 DEF PumpInv
  <2>9. \A x \in Side : enabled'[x] => is_socket_writeable(out'[Other(x)])
    BY <1>1, <2>1, <2>2, <2>4, <2>5 DEF PumpInv, is_socket_writeable, PumpAssumption
  <2> QED BY <2>3, <2>6, <2>7, <2>8, <2>9 DEF PumpInv, PipeKept
<1>7. ASSUME NEW s \in Side, Ends(s) PROVE PumpInv'
  BY <1>1, <1>7 DEF Ends, PumpInv, PipeKept, PumpTypeOK, NothingDropped, MemoryBounded,
              is_socket_writeable
<1>8. CASE UNCHANGED pumpVars
  BY <1>8 DEF pumpVars, PumpInv, PipeKept, PumpTypeOK, NothingDropped, MemoryBounded,
              is_socket_writeable
<1> QED BY <1>2, <1>3, <1>4, <1>5, <1>6, <1>7, <1>8 DEF PumpNext

(* The pump between the client and the peer connection of a TCP relay         *)
(* (socket_input_worker, socket_output_handler_bev) loses no data and never   *)
(* holds more than the write limit and one input buffer per direction, for    *)
(* any buffer sizes with a write limit above one read, and whatever the two   *)
(* parties send, read and close.                                              *)
THEOREM PipeAlwaysKept == ASSUME PumpAssumption PROVE PumpSpec => []PipeKept
<1>1. PumpInit => PumpInv
  <2> SUFFICES ASSUME PumpInit PROVE PumpInv
    OBVIOUS
  <2>1. \A s \in Side : Other(s) \in Side
    BY OtherSide
  <2>2. PumpTypeOK
    BY DEF PumpInit, PumpTypeOK
  <2> QED BY <2>1, <2>2 DEF PumpInit, PumpInv, PipeKept, NothingDropped, MemoryBounded,
                           is_socket_writeable, PumpAssumption
<1>2. PumpInv /\ [PumpNext]_pumpVars => PumpInv'
  BY PumpStep
<1>3. PumpInv => PipeKept
  BY DEF PumpInv
<1> QED BY <1>1, <1>2, <1>3, PTL DEF PumpSpec
=============================================================================
