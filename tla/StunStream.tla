------------------------------ MODULE StunStream ------------------------------
(* A client's TCP connection to the server: the kind of the connection is     *)
(* found out from its first bytes, then the stream is cut into STUN messages, *)
(* channel data and HTTP requests.  The stream is the client's messages one   *)
(* after the other; what matters of its bytes is where each message starts    *)
(* and how long it says it is.  Bytes inside a message are never the start of *)
(* one that would be accepted.  Sizes are real, the width of the 16-bit       *)
(* counters and of the buffer is scaled down.                                 *)
EXTENDS Integers, Sequences

CONSTANTS
  Connections,   \* the kinds of connection there may be: see how
  MaxMessage,    \* bound: messages it sends
  Wrap,          \* uint16_t counts modulo this
  BufferSize,    \* STUN_BUFFER_SIZE
  HttpAsChannel, \* the size of channel data that starts like an HTTP request
  MaxCycle       \* messages one call of the read callback takes, 129 in the code

StreamAssumption ==
  /\ \A h \in Connections :
       /\ h.client \in {"plain", "tls", "proxy1", "proxy2"} /\ h.fragments \in BOOLEAN
       /\ \A m \in h.sends : m.kind \in {"stun", "channel", "http"} /\ m.data \in Nat
  /\ {MaxMessage, Wrap, BufferSize, HttpAsChannel, MaxCycle} \subseteq Nat

VARIABLES
  how,           \* fixed when it connects.  client: "plain", "tls", "proxy1" or "proxy2"; sends: the messages
                 \* it may send, records of kind and data; fragments: its first bytes may come in pieces
  sent,          \* the client's messages
  arrived,       \* bytes that reached the server's buffer
  pos,           \* bytes taken out of it
  socket_type,   \* the kind of socket: tentative, tcp, tls, proxy, or closed
  ready,         \* the read callback is due or running
  cycle,         \* calls of the worker it has made
  got,           \* what was handed to read_cb
  spent          \* the last call of the callback ended because of its limit

streamVars == <<how, sent, arrived, pos, socket_type, ready, cycle, got, spent>>

Padded(n) == IF n % 4 = 0 THEN n ELSE n + 4 - (n % 4)

(* What comes before the messages: a TLS hello, or a proxy's header.          *)
Preamble == CASE how.client = "plain" -> 0 [] how.client = "tls" -> 12 [] how.client = "proxy1" -> 30 [] how.client = "proxy2" -> 28

(* Channel data takes four bytes of header and is padded on a stream.         *)
stun_init_channel_message_str(length) == 4 + Padded(length)

Size(m) ==
  CASE m.kind = "stun" -> 20 + m.data
    [] m.kind = "channel" -> stun_init_channel_message_str(m.data)
    [] m.kind = "http" -> 12 + m.data

(* What the server's handler is to see of it: without the padding.            *)
AppSize(m) == IF m.kind = "channel" THEN 4 + m.data ELSE Size(m)

(* Where messages start that follow one another from place p on.              *)
Starts(s, p) ==
  LET f[n \in 1 .. MaxMessage + 1] == IF n = 1 THEN p ELSE f[n - 1] + Size(s[n - 1])
  IN  f

Start == Starts(sent, Preamble)
Total == Start[Len(sent) + 1]

-----------------------------------------------------------------------------
StreamInit ==
  /\ how \in Connections
  /\ sent = <<>> /\ arrived = 0 /\ pos = 0 /\ got = <<>> /\ ready = FALSE /\ cycle = 0 /\ spent = FALSE
  /\ socket_type = IF how.client \in {"proxy1", "proxy2"} THEN "proxy" ELSE "tentative"

Send(m) ==
  /\ Len(sent) < MaxMessage
  /\ sent' = Append(sent, m)
  /\ UNCHANGED <<how, arrived, pos, socket_type, ready, cycle, got, spent>>

(* The event loop finds bytes and asks for the callback.  Unless the first    *)
(* bytes may come in pieces, what precedes the messages comes at once.        *)
Arrive ==
  /\ socket_type # "closed" /\ cycle = 0
  /\ \E n \in (arrived + 1) .. Total :
       /\ how.fragments \/ n >= Preamble
       /\ arrived' = n
  /\ ready' = TRUE
  /\ UNCHANGED <<how, sent, pos, socket_type, cycle, got, spent>>

-----------------------------------------------------------------------------
(* The first twelve bytes are looked at once: with fewer of them there, or    *)
(* other ones, the connection is a plain one for good.                        *)
check_tentative_tls == how.client = "tls" /\ arrived >= 12

tentative_tcp ==
  /\ socket_type = "tentative" /\ ready
  /\ socket_type' = IF check_tentative_tls THEN "tls" ELSE "tcp"
  /\ pos' = IF check_tentative_tls THEN Preamble ELSE pos
  /\ UNCHANGED <<how, sent, arrived, ready, cycle, got, spent>>

(* 0: more bytes are needed; -1: not such a header; else its length.          *)
socket_parse_proxy_v2(blen) ==
  IF blen < 16 THEN 0 ELSE IF how.client # "proxy2" THEN -1 ELSE IF blen < Preamble THEN 0 ELSE Preamble

(* The text header must be there as a whole once it is looked at.             *)
socket_parse_proxy_v1(blen) ==
  IF blen < 11 THEN 0 ELSE IF how.client # "proxy1" \/ blen < Preamble THEN -1 ELSE Preamble

socket_parse_proxy(blen) ==
  IF socket_parse_proxy_v2(blen) = -1 THEN socket_parse_proxy_v1(blen) ELSE socket_parse_proxy_v2(blen)

-----------------------------------------------------------------------------
Least(a, b) == IF a < b THEN a ELSE b

(* Mutant: what is there of a message is taken for the message.               *)
stun_get_message_len_str_partial(at, blen) ==
  LET here == {n \in DOMAIN sent : Start[n] = at}
  IN  IF here = {} THEN [len |-> -1, app |-> 0]
      ELSE LET m == sent[CHOOSE n \in here : TRUE]
           IN  [len |-> Least(Size(m), blen), app |-> Least(AppSize(m), blen)]

(* The size of the message at the head of the stream, -1 while it is not all  *)
(* there: a STUN message by its header, then an HTTP request, then channel    *)
(* data, which the first letters of an HTTP request also look like.           *)
stun_get_message_len_str(at, blen) ==
  LET here == {n \in DOMAIN sent : Start[n] = at}
      m == sent[CHOOSE n \in here : TRUE]
      stun == (20 + m.data) % Wrap
      app == (4 + m.data) % Wrap
  IN  CASE here = {} -> [len |-> -1, app |-> 0]
        [] here # {} /\ m.kind = "stun" ->
             IF blen >= 20 /\ stun <= blen THEN [len |-> stun, app |-> stun] ELSE [len |-> -1, app |-> 0]
        [] here # {} /\ m.kind = "http" ->
             IF blen >= Size(m) THEN [len |-> Size(m), app |-> Size(m)]
             ELSE IF blen >= HttpAsChannel THEN [len |-> HttpAsChannel, app |-> HttpAsChannel]
             ELSE [len |-> -1, app |-> 0]
        [] here # {} /\ m.kind = "channel" ->
             IF blen >= 4 /\ Padded(app) % Wrap <= blen THEN [len |-> Padded(app) % Wrap, app |-> app]
             ELSE [len |-> -1, app |-> 0]

(* One call of the worker on a stream whose kind is known: c is what it works *)
(* on, more tells that the callback may call it again.                        *)
socket_input_worker_stream(c) ==
  LET there == Least(arrived - c.pos, BufferSize)
      head == IF c.st = "proxy" THEN socket_parse_proxy(there) ELSE 0
      at == c.pos + head
      blen == Least(arrived - at, BufferSize)
      r == stun_get_message_len_str(at, blen)
  IN  IF there = 0 \/ (c.st = "proxy" /\ head = 0) THEN [c EXCEPT !.more = FALSE]
      ELSE IF head < 0 THEN [c EXCEPT !.st = "closed", !.more = FALSE]
      ELSE IF blen = 0 \/ r.len <= 0 \/ r.len > blen
           THEN [c EXCEPT !.pos = at, !.st = IF @ = "proxy" THEN "tcp" ELSE @, !.more = FALSE]
      ELSE [pos |-> at + r.len, st |-> IF c.st = "proxy" THEN "tcp" ELSE c.st, more |-> TRUE,
            got |-> Append(c.got, [at |-> at, app |-> r.app])]

(* The callback runs the worker until nothing more is found, or MaxCycle      *)
(* times; it is due again only when more bytes arrive.                        *)
socket_input_handler_bev ==
  /\ ready /\ socket_type \notin {"tentative", "closed"}
  /\ \E c \in {socket_input_worker_stream([pos |-> pos, st |-> socket_type, got |-> got, more |-> TRUE])} :
       /\ pos' = c.pos /\ socket_type' = c.st /\ got' = c.got
       /\ ready' = (c.more /\ cycle + 1 < MaxCycle)
       /\ cycle' = IF ready' THEN cycle + 1 ELSE 0
       /\ spent' = (c.more /\ ~ready')
  /\ UNCHANGED <<how, sent, arrived>>

StreamNext ==
  \/ \E m \in how.sends : Send(m)
  \/ Arrive
  \/ tentative_tcp
  \/ socket_input_handler_bev

StreamSpec == StreamInit /\ [][StreamNext]_streamVars

-----------------------------------------------------------------------------
StreamTypeOK ==
  /\ socket_type \in {"tentative", "tcp", "tls", "proxy", "closed"} /\ ready \in BOOLEAN /\ cycle \in 0 .. MaxCycle /\ spent \in BOOLEAN
  /\ 0 <= pos /\ pos <= arrived /\ arrived <= Total

(* However the bytes arrive, the handler is given the client's messages in    *)
(* order, each cut where it was joined and without its padding.               *)
CutWhereJoined ==
  /\ Len(got) <= Len(sent)
  /\ \A n \in DOMAIN got : got[n] = [at |-> Start[n], app |-> AppSize(sent[n])]

(* When no callback is due, a message waits in the buffer although it is all  *)
(* there only if the last callback had used up its calls of the worker.       *)
OnlyLimitLeavesMessage ==
  (~ready /\ socket_type \in {"tcp", "tls"} /\ Len(got) < Len(sent) /\ Start[Len(got) + 2] <= arrived) => spent

(* A proxy's header that comes in pieces (in one piece for the text form)     *)
(* does not end the connection.                                               *)
ProxyIsHeard == socket_type # "closed"

(* However the bytes of a connection arrive, the handler is given the         *)
(* client's messages in order, each cut where it was joined, a whole message  *)
(* waits only when the callback has used up its calls, and a proxy's header   *)
(* does not end the connection (socket_input_worker, socket_input_handler_bev *)
(* of ns_ioalib_engine_impl.c, stun_get_message_len_str of ns_turn_msg.c).    *)
StreamsKept == StreamTypeOK /\ CutWhereJoined /\ OnlyLimitLeavesMessage /\ ProxyIsHeard

(* When it is so: messages and headers fit into the buffer and the counters,  *)
(* no HTTP request is as long as the channel data it looks like, and what is  *)
(* looked at once, a TLS hello or a proxy's text header, comes in one piece.  *)
MessagesFit ==
  /\ 30 <= BufferSize
  /\ \A h \in Connections :
       /\ h.client \in {"tls", "proxy1"} => ~h.fragments
       /\ \A m \in h.sends :
            Size(m) <= BufferSize /\ Size(m) < Wrap /\ (m.kind = "http" => Size(m) <= HttpAsChannel)

(* A client that speaks TLS is not taken for a plain one.                     *)
(* The code does not keep this (README).                                      *)
TlsIsRecognised == how.client = "tls" => socket_type # "tcp"

(* Every message of a client that goes on is handed over in the end.          *)
AllHandedOver == \A n \in 1 .. MaxMessage : (Len(sent) >= n) ~> (Len(got) >= n)
=============================================================================
