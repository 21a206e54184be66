------------------------------- MODULE StunMsg -------------------------------
(* STUN messages as bytes in groups of four: how the message library builds   *)
(* one attribute by attribute, and what its parser, its integrity check and   *)
(* its fingerprint check make of the message that arrives, after the network  *)
(* changed at most MaxChange words of it.  A word is its two halves, as the   *)
(* parser reads them when it takes the word for an attribute's header, and,   *)
(* for a word of a digest, what the digest was taken of.  A digest of two     *)
(* different things is never the same.                                        *)
EXTENDS Integers, Sequences, FiniteSets, FiniteSetsExt

CONSTANTS
  Class,         \* classes of messages the sender makes
  Method,        \* methods the sender uses
  AttrLen,       \* lengths of attribute values
  Key,           \* keys
  MAX_STUN_MESSAGE_SIZE,
  MaxAttr,       \* bound: calls that add to the message
  MaxChange      \* bound: changes on the way

MsgAssumption ==
  /\ Class \subseteq {"request", "indication", "success", "error"} /\ Method \subseteq 0 .. 4095 /\ AttrLen \subseteq Nat
  /\ MAX_STUN_MESSAGE_SIZE \in Nat /\ MaxAttr \in Nat /\ MaxChange \in Nat

VARIABLES
  buf,           \* the sender's message, [len |-> 0] before stun_init_command_str
  added,         \* what the sender added to it: types and lengths, in order
  signed,        \* the message as it was when its integrity was added
  calls,         \* calls that added to it
  wire,          \* the message on its way or received
  changes,       \* changes made to it
  seen           \* what the receiver made of it

msgVars == <<buf, added, signed, calls, wire, changes, seen>>

STUN_HEADER_LENGTH == 20
USERNAME == 6
MESSAGE_INTEGRITY == 8
REALM == 20
NONCE == 21
FINGERPRINT == 32808
SHATYPE == {"sha1", "sha256"}
shasize == [s \in SHATYPE |-> IF s = "sha1" THEN 20 ELSE 32]

NoDigest == [of |-> "nothing"]
Word(hi, lo) == [hi |-> hi, lo |-> lo, digest |-> NoDigest]
NoMsg == [len |-> 0]

-----------------------------------------------------------------------------
(* Bits 4 to 6 move up by one and bits 7 to 11 by two, around the class bits. *)
stun_make_type(method) ==
  (method % 16) + 32 * ((method \div 16) % 8) + 512 * ((method \div 128) % 8) + 4096 * ((method \div 1024) % 4)

stun_get_method_str(b) ==
  (b.type % 16) + 16 * ((b.type \div 32) % 8) + 128 * ((b.type \div 512) % 8) + 1024 * ((b.type \div 4096) % 4)

ClassBits == [request |-> 0, indication |-> 16, success |-> 256, error |-> 272]

(* stun_make_request, stun_make_indication and the two responses.             *)
stun_make(class, method) == stun_make_type(method) + ClassBits[class]

stun_is(class, b) == (16 * ((b.type \div 16) % 2)) + (256 * ((b.type \div 256) % 2)) = ClassBits[class]

(* The two high bits of the type are cleared, so no message is a channel's.   *)
stun_init_command_str(class, method) ==
  [len |-> STUN_HEADER_LENGTH, type |-> stun_make(class, method) % 16384, mlen |-> 0, cookie |-> TRUE,
   words |-> <<>>]

-----------------------------------------------------------------------------
(* The length the header claims, header included; -1 when that is not there.  *)
stun_get_command_message_len_str(b) ==
  IF b.len < STUN_HEADER_LENGTH \/ b.mlen + STUN_HEADER_LENGTH > b.len THEN -1
  ELSE b.mlen + STUN_HEADER_LENGTH

stun_set_command_message_len_str(b, len) ==
  IF len < STUN_HEADER_LENGTH THEN b
  ELSE [b EXCEPT !.mlen = (len - STUN_HEADER_LENGTH) % 65536]

Padded(n) == IF n % 4 = 0 THEN n ELSE n + 4 - (n % 4)

(* The word at byte position pos.                                             *)
At(b, pos) == b.words[((pos - STUN_HEADER_LENGTH) \div 4) + 1]

(* The attribute at pos, 0 unless its padded value fits in what remains.      *)
stun_attr_check_valid(b, pos, remaining) ==
  IF remaining >= 4 /\ Padded(At(b, pos).lo) <= remaining - 4 THEN pos ELSE 0

stun_attr_get_first_str(b) ==
  LET bufLen == stun_get_command_message_len_str(b)
  IN  IF bufLen > STUN_HEADER_LENGTH
      THEN stun_attr_check_valid(b, STUN_HEADER_LENGTH, bufLen - STUN_HEADER_LENGTH)
      ELSE 0

stun_attr_get_next_str(b, prev) ==
  LET end == stun_get_command_message_len_str(b)
      attrlen == Padded(At(b, prev).lo)
  IN  IF attrlen < end - prev - 4
      THEN stun_attr_check_valid(b, prev + 4 + attrlen, end - (prev + 4 + attrlen))
      ELSE 0

(* The positions of the attributes in the order the loops over them see them. *)
Walk(b) ==
  LET at[n \in 0 .. Len(b.words)] ==
        IF n = 0 THEN stun_attr_get_first_str(b)
        ELSE LET prev == at[n - 1] IN IF prev = 0 THEN 0 ELSE stun_attr_get_next_str(b, prev)
  IN  LET last == Cardinality({n \in 0 .. Len(b.words) : at[n] # 0})
      IN  [n \in 1 .. last |-> at[n - 1]]

Attrs(b) == LET w == Walk(b) IN [n \in DOMAIN w |-> [type |-> At(b, w[n]).hi, len |-> At(b, w[n]).lo]]

stun_attr_get_first_by_type_str(b, type) ==
  LET w == Walk(b)
      hits == {n \in DOMAIN w : At(b, w[n]).hi = type}
  IN  IF hits = {} THEN 0 ELSE w[Min(hits)]

-----------------------------------------------------------------------------
(* One more attribute, padded; refused when the message would be too long.    *)
stun_attr_add_str(b, attr, value, alen) ==
  LET clen == stun_get_command_message_len_str(b)
      newlen == Padded(clen + 4 + alen)
  IN  IF newlen >= MAX_STUN_MESSAGE_SIZE THEN [ok |-> FALSE, b |-> b]
      ELSE [ok |-> TRUE,
            b |-> [stun_set_command_message_len_str(b, newlen) EXCEPT
                     !.len = newlen,
                     !.words = SubSeq(@, 1, (clen - STUN_HEADER_LENGTH) \div 4) \o <<Word(attr, alen)>> \o value]]

Value(alen, w) == [i \in 1 .. Padded(alen) \div 4 |-> w]

(* What a digest of the first n bytes is taken of.                            *)
Prefix(b, n) == [b EXCEPT !.len = n, !.words = SubSeq(@, 1, (n - STUN_HEADER_LENGTH) \div 4)]

(* Mutant: the digest leaves out the header.                                  *)
stun_calculate_hmac_body(b, n, key, shatype) ==
  [of |-> "hmac", key |-> key, sha |-> shatype, msg |-> [words |-> Prefix(b, n).words]]

stun_calculate_hmac(b, n, key, shatype) == [of |-> "hmac", key |-> key, sha |-> shatype, msg |-> Prefix(b, n)]

ns_crc32(b, n) == [of |-> "crc", msg |-> Prefix(b, n)]

(* The n bytes of digest d: d stands in the first of the words.               *)
DigestWords(n, d) ==
  [i \in 1 .. n \div 4 |-> [hi |-> 0, lo |-> 0, digest |-> IF i = 1 THEN d ELSE [of |-> "rest"]]]

(* The n bytes at pos are those of d.                                         *)
IsDigest(b, pos, n, d) ==
  SubSeq(b.words, ((pos - STUN_HEADER_LENGTH) \div 4) + 1, (pos + n - STUN_HEADER_LENGTH) \div 4) = DigestWords(n, d)

(* The digest is of everything before the attribute, under a header that      *)
(* already counts it.                                                         *)
stun_attr_add_integrity_str(b, key, shatype) ==
  LET n == shasize[shatype]
      a == stun_attr_add_str(b, MESSAGE_INTEGRITY, Value(n, Word(0, 0)), n)
      pos == a.b.len - 4 - n
      d == stun_calculate_hmac(a.b, pos, key, shatype)
  IN  IF ~a.ok THEN a
      ELSE [a EXCEPT !.b.words = SubSeq(@, 1, Len(@) - (n \div 4)) \o DigestWords(n, d)]

(* User name, nonce and realm, then the integrity; what was added before the  *)
(* first refusal stays in the message.                                        *)
stun_attr_add_integrity_by_key_str(b, alen, key, shatype) ==
  LET u == stun_attr_add_str(b, USERNAME, Value(alen, Word(0, 0)), alen)
      n == stun_attr_add_str(u.b, NONCE, Value(alen, Word(0, 0)), alen)
      r == stun_attr_add_str(n.b, REALM, Value(alen, Word(0, 0)), alen)
  IN  IF ~u.ok THEN u ELSE IF ~n.ok THEN n ELSE IF ~r.ok THEN r
      ELSE stun_attr_add_integrity_str(r.b, key, shatype)

stun_attr_add_fingerprint_str(b) ==
  LET a == stun_attr_add_str(b, FINGERPRINT, Value(4, Word(0, 0)), 4)
  IN  IF ~a.ok THEN a
      ELSE [a EXCEPT !.b.words = SubSeq(@, 1, Len(@) - 1) \o DigestWords(4, ns_crc32(a.b, a.b.len - 8))]

-----------------------------------------------------------------------------
stun_is_command_message_str(b) ==
  /\ b.len >= STUN_HEADER_LENGTH /\ b.type < 16384 /\ b.cookie
  /\ b.mlen % 4 = 0 /\ b.mlen + STUN_HEADER_LENGTH = b.len

(* With a fingerprint it must be right; without one the message passes unless *)
(* fingerprints are asked for, and a BINDING always does.                     *)
stun_is_command_message_full_check_str(b, must) ==
  IF ~stun_is_command_message_str(b) THEN [ok |-> FALSE, present |-> FALSE]
  ELSE LET sar == stun_attr_get_first_by_type_str(b, FINGERPRINT)
           good == IsDigest(b, sar + 4, 4, ns_crc32(b, sar))
       IN  IF sar = 0 THEN [ok |-> stun_get_method_str(b) = 1 \/ ~must, present |-> FALSE]
           ELSE IF At(b, sar).lo # 4 THEN [ok |-> FALSE, present |-> FALSE]
           ELSE [ok |-> good, present |-> good]

(* -1 when there is no digest of this kind, 0 when it is wrong, 1 when it is  *)
(* right.  The header is made to end with the digest while it is computed,    *)
(* and then put back.                                                         *)
stun_check_message_integrity_by_key_str(b, key, shatype) ==
  LET sar == stun_attr_get_first_by_type_str(b, MESSAGE_INTEGRITY)
      n == shasize[shatype]
      orig_len == stun_get_command_message_len_str(b)
      cut == stun_set_command_message_len_str(b, sar + 4 + n)
      good == IsDigest(b, sar + 4, n, stun_calculate_hmac(cut, sar, key, shatype))
  IN  IF sar = 0 \/ At(b, sar).lo # n \/ orig_len < 0 \/ sar + 4 + n > orig_len THEN [res |-> -1, b |-> b]
      ELSE [res |-> IF good THEN 1 ELSE 0, b |-> stun_set_command_message_len_str(cut, orig_len)]

-----------------------------------------------------------------------------
MsgInit ==
  /\ buf = NoMsg /\ wire = NoMsg /\ signed = NoMsg /\ added = <<>> /\ calls = 0 /\ changes = 0
  /\ seen = [done |-> FALSE]

Start(class, method) ==
  /\ buf = NoMsg
  /\ buf' = stun_init_command_str(class, method)
  /\ UNCHANGED <<added, signed, calls, wire, changes, seen>>

(* The fingerprint is the last attribute the callers add.                     *)
Adding ==
  /\ buf # NoMsg /\ wire = NoMsg /\ calls < MaxAttr /\ calls' = calls + 1
  /\ \A n \in DOMAIN added : added[n].type # FINGERPRINT

(* Value words that look like the header of a digest, or are zero.            *)
ValueWord == {Word(0, 0), Word(MESSAGE_INTEGRITY, 20)}

Add(alen, w) ==
  /\ Adding
  /\ LET a == stun_attr_add_str(buf, NONCE, Value(alen, w), alen)
     IN  /\ buf' = a.b
         /\ added' = IF a.ok THEN Append(added, [type |-> NONCE, len |-> alen]) ELSE added
  /\ UNCHANGED <<signed, wire, changes, seen>>

AddIntegrity(alen, key, shatype) ==
  /\ Adding /\ signed = NoMsg
  /\ LET a == stun_attr_add_integrity_by_key_str(buf, alen, key, shatype)
     IN  /\ buf' = a.b
         /\ added' = IF a.b = buf THEN added
                     ELSE added \o SubSeq(<<[type |-> USERNAME, len |-> alen], [type |-> NONCE, len |-> alen],
                                            [type |-> REALM, len |-> alen],
                                            [type |-> MESSAGE_INTEGRITY, len |-> shasize[shatype]]>>,
                                          1, Len(Attrs(a.b)) - Len(Attrs(buf)))
         /\ signed' = IF a.ok THEN [b |-> a.b, key |-> key, sha |-> shatype, len |-> a.b.len] ELSE signed
  /\ UNCHANGED <<wire, changes, seen>>

AddFingerprint ==
  /\ Adding
  /\ LET a == stun_attr_add_fingerprint_str(buf)
     IN  /\ buf' = a.b
         /\ added' = IF a.ok THEN Append(added, [type |-> FINGERPRINT, len |-> 4]) ELSE added
  /\ UNCHANGED <<signed, wire, changes, seen>>

Send ==
  /\ buf # NoMsg /\ wire = NoMsg
  /\ wire' = buf
  /\ UNCHANGED <<buf, added, signed, calls, changes, seen>>

(* The network changes the type, the length or a word, or loses the end.      *)
Changed(b) ==
  {[b EXCEPT !.type = t] : t \in {stun_make("success", 1)}}
  \cup {[b EXCEPT !.mlen = n] : n \in {0, b.mlen - 4, b.mlen + 4, b.mlen - 1} \cap Nat}
  \cup {[b EXCEPT !.words[i] = w] : i \in DOMAIN b.words,
                                    w \in {Word(MESSAGE_INTEGRITY, 20), Word(FINGERPRINT, 4), Word(NONCE, 7),
                                           Word(NONCE, 65535)}}
  \cup {[b EXCEPT !.len = @ - 4, !.words = SubSeq(@, 1, Len(@) - 1)] : k \in IF b.words = <<>> THEN {} ELSE {1}}

Change ==
  /\ wire # NoMsg /\ ~seen.done /\ changes < MaxChange
  /\ wire' \in Changed(wire) /\ wire' # wire
  /\ changes' = changes + 1
  /\ UNCHANGED <<buf, added, signed, calls, seen>>

(* The receiver checks the message, then its integrity with its key.          *)
Receive(key, shatype, must) ==
  /\ wire # NoMsg /\ ~seen.done
  /\ LET f == stun_is_command_message_full_check_str(wire, must)
         i == stun_check_message_integrity_by_key_str(wire, key, shatype)
     IN  /\ seen' = [done |-> TRUE, ok |-> f.ok, present |-> f.present, must |-> must,
                     integrity |-> IF f.ok THEN i.res ELSE -1, key |-> key, sha |-> shatype,
                     before |-> wire]
         /\ wire' = IF f.ok THEN i.b ELSE wire
  /\ UNCHANGED <<buf, added, signed, calls, changes>>

MsgNext ==
  \/ \E c \in Class, m \in Method : Start(c, m)
  \/ \E alen \in AttrLen, w \in ValueWord : Add(alen, w)
  \/ \E alen \in AttrLen, k \in Key, s \in SHATYPE : AddIntegrity(alen, k, s)
  \/ AddFingerprint
  \/ Send
  \/ Change
  \/ \E k \in Key, s \in SHATYPE, must \in BOOLEAN : Receive(k, s, must)

MsgSpec == MsgInit /\ [][MsgNext]_msgVars

-----------------------------------------------------------------------------
(* The sender's message always has the length its header and its words say,   *)
(* and stays below the library's limit.                                       *)
MsgTypeOK ==
  buf # NoMsg =>
    /\ buf.len = STUN_HEADER_LENGTH + 4 * Len(buf.words)
    /\ buf.len <= Max({STUN_HEADER_LENGTH, MAX_STUN_MESSAGE_SIZE - 1})
    /\ stun_is_command_message_str(buf)

(* Whatever was refused in between, the parser reads from the sender's        *)
(* message exactly the attributes that were added to it, in order: padding,   *)
(* empty values and values that look like attributes do not confuse it.       *)
ReadsWhatWasAdded == buf # NoMsg => Attrs(buf) = added

(* In a message changed on the way the loops over its attributes only visit   *)
(* attributes that lie inside it, padding included, each after the last.      *)
WalkInBounds ==
  wire # NoMsg =>
    LET w == Walk(wire)
    IN  \A n \in DOMAIN w :
          /\ w[n] + 4 + Padded(At(wire, w[n]).lo) <= wire.len
          /\ n > 1 => w[n] > w[n - 1]

(* A message that is taken for intact because of its fingerprint is the one   *)
(* that was sent, up to a fingerprint the sender put in.                      *)
FingerprintIsRight ==
  seen.done /\ seen.ok /\ seen.present =>
    LET sar == stun_attr_get_first_by_type_str(seen.before, FINGERPRINT)
    IN  Prefix(seen.before, sar).words = Prefix(buf, sar).words /\ seen.before.type = buf.type

(* A digest that is accepted was made by the sender with the receiver's key,  *)
(* and everything before it, type included, is as the sender signed it.       *)
IntegrityIsAuthentic ==
  seen.done /\ seen.integrity = 1 =>
    /\ signed # NoMsg /\ signed.key = seen.key /\ signed.sha = seen.sha
    /\ wire.type = signed.b.type
    /\ Prefix(wire, signed.len).words = signed.b.words

(* A message that was not changed passes unless it lacks a fingerprint that   *)
(* is asked for, and a receiver with the signer's key accepts its integrity,  *)
(* also when a fingerprint or other attributes were added after the digest.   *)
UnchangedIsAccepted ==
  seen.done /\ changes = 0 =>
    /\ seen.ok <=> \/ ~seen.must
                  \/ stun_get_method_str(buf) = 1
                  \/ \E n \in DOMAIN added : added[n].type = FINGERPRINT
    /\ (seen.ok /\ signed # NoMsg /\ seen.key = signed.key /\ seen.sha = signed.sha) => seen.integrity = 1

(* The check of the integrity leaves the message as it was, whatever it says. *)
CheckRestores == seen.done => wire = seen.before

(* A message is in exactly one class, the sender's method is read back, and   *)
(* no message is taken for channel data.                                      *)
MethodAndClass ==
  buf # NoMsg =>
    /\ Cardinality({c \in DOMAIN ClassBits : stun_is(c, buf)}) = 1
    /\ \E c \in DOMAIN ClassBits, m \in Method : buf.type = stun_make(c, m) /\ stun_is(c, buf) /\ stun_get_method_str(buf) = m
    /\ ~(buf.type \in 16384 .. 32767)
=============================================================================
