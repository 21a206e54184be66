------------------------------ MODULE TurnPeers ------------------------------
(* The peers of one TURN allocation: its permissions and its channels, the    *)
(* timers that end them, and what is relayed because of them.                 *)
(* ns_turn_allocation.c keeps permissions and channels in hash tables whose   *)
(* entries are reused; a channel points to its permission and the permission  *)
(* maps ports to its channels.  The model is one bucket of each table, the    *)
(* case where every address and every number collides: a sequence of entries, *)
(* an index is a pointer.  A timer is an event of the engine, apart from the  *)
(* entry that holds its handle, so that it can outlive the entry.             *)
EXTENDS Integers, Sequences, FiniteSets

CONSTANTS
  Ip,                  \* peer addresses without a port
  PeerPort,            \* their ports (positive numbers)
  ChNum,               \* valid channel numbers
  DeniedIp,            \* addresses that good_peer_addr refuses
  NoRelay,             \* addresses of a family without a relay socket
  NoIp,                \* the zeroed address
  PermissionLifetime,  \* --permission-lifetime, in ticks
  ChannelLifetime,     \* --channel-lifetime, in ticks
  MaxAddresses         \* bound: addresses in one CreatePermission

PeersAssumption ==
  /\ PermissionLifetime \in Nat \ {0} /\ ChannelLifetime \in Nat \ {0}
  /\ DeniedIp \subseteq Ip /\ NoRelay \subseteq Ip /\ NoIp \notin Ip
  /\ PeerPort \subseteq Nat \ {0} /\ ChNum \subseteq Nat \ {0} /\ MaxAddresses \in Nat

VARIABLES
  is_valid,   \* allocation.is_valid
  al,      \* [perms, chns: the entries of the two tables, timers: pending events]
  out,     \* what the last step sent, and to whom
  owedPerm, owedChn, bound   \* history: what the client was promised

peersVars == <<is_valid, al, out, owedPerm, owedChn, bound>>

PeerAddr == Ip \X PeerPort
Longest == IF PermissionLifetime > ChannelLifetime THEN PermissionLifetime ELSE ChannelLifetime

(* A zeroed entry of each table, and a new one.                               *)
NoPermission == [allocated |-> FALSE, addr |-> NoIp, ev |-> FALSE, chns |-> [p \in PeerPort |-> 0]]
NoChannel == [allocated |-> FALSE, chnum |-> 0, peer |-> <<NoIp, 0>>, owner |-> 0, ev |-> FALSE]
NewPermission(ip) == [allocated |-> TRUE, addr |-> ip, ev |-> FALSE, chns |-> [p \in PeerPort |-> 0]]
NewChannel(c, peer, i) == [allocated |-> TRUE, chnum |-> c, peer |-> peer, owner |-> i, ev |-> FALSE]

NoneRelayed == [kind |-> "nothing"]
Reply(code) == [kind |-> "reply", code |-> code]
ToPeer(via, peer) == [kind |-> "peer", via |-> via, peer |-> peer]
ToClient(chnum, peer) == [kind |-> "client", chnum |-> chnum, peer |-> peer]

-----------------------------------------------------------------------------
(* The tables.                                                                *)

Allocated(slots) == {i \in DOMAIN slots : slots[i].allocated}
FirstFree(slots) == CHOOSE i \in 1..(Len(slots) + 1) :
                      /\ i \notin Allocated(slots)
                      /\ \A j \in 1..(i - 1) : j \in Allocated(slots)
SetEntry(slots, i, e) == IF i > Len(slots) THEN Append(slots, e) ELSE [slots EXCEPT ![i] = e]

get_from_turn_permission_hashtable(a, ip) ==
  {i \in Allocated(a.perms) : a.perms[i].addr = ip}

allocation_get_ch_info(a, c) == {i \in Allocated(a.chns) : a.chns[i].chnum = c}

get_turn_channel(a, i, port) ==
  IF port \in PeerPort /\ a.perms[i].chns[port] # 0
     /\ a.chns[a.perms[i].chns[port]].chnum \in ChNum
  THEN {a.perms[i].chns[port]} ELSE {}

allocation_get_ch_info_by_peer_addr(a, peer) ==
  UNION {get_turn_channel(a, i, peer[2]) : i \in get_from_turn_permission_hashtable(a, peer[1])}

allocation_add_permission(a, ip) ==
  [a EXCEPT !.perms = SetEntry(@, FirstFree(@), NewPermission(ip))]

allocation_get_permission(a, ip) ==
  IF get_from_turn_permission_hashtable(a, ip) = {} THEN allocation_add_permission(a, ip) ELSE a

PermissionOf(a, ip) == CHOOSE i \in get_from_turn_permission_hashtable(a, ip) : TRUE

(* ch_map_get with new_chn set takes the first entry that is not allocated.   *)
allocation_get_new_ch_info(a, c, peer) ==
  LET b == allocation_get_permission(a, peer[1])
      i == PermissionOf(b, peer[1])
      k == FirstFree(b.chns)
  IN  [b EXCEPT !.chns = SetEntry(@, k, NewChannel(c, peer, i)),
                !.perms[i].chns[peer[2]] = k]

-----------------------------------------------------------------------------
(* Timers: IOA_EVENT_DEL stops the events whose handles the entries hold.     *)

EventDel(ts, kind, entries, is) == {t \in ts : ~(t.kind = kind /\ t.slot \in is /\ entries[t.slot].ev)}

Event(kind, i, left) == [kind |-> kind, slot |-> i, left |-> left]

update_turn_permission_lifetime(a, i, delta) ==
  [a EXCEPT !.timers = EventDel(@, "perm", a.perms, {i}) \cup {Event("perm", i, delta)},
            !.perms[i].ev = TRUE]

update_channel_lifetime(a, k) ==
  LET b == update_turn_permission_lifetime(a, a.chns[k].owner, ChannelLifetime)
  IN  [b EXCEPT !.timers = EventDel(@, "chn", b.chns, {k}) \cup {Event("chn", k, ChannelLifetime)},
                !.chns[k].ev = TRUE]

(* Cleaned for each channel of ks, one after the other in the code.           *)
ch_info_clean(a, ks) ==
  [a EXCEPT !.timers = EventDel(@, "chn", a.chns, ks),
            !.chns = [k \in DOMAIN @ |-> IF k \in ks THEN NoChannel ELSE @[k]]]

(* Mutant: the map of the permission keeps its pointer to the channel.        *)
turn_channel_delete_half(a, k) == ch_info_clean(a, {k})

turn_channel_delete(a, k) ==
  LET c == a.chns[k]
      b == IF c.owner # 0 /\ c.peer[2] \in PeerPort
           THEN [a EXCEPT !.perms[c.owner].chns[c.peer[2]] = 0] ELSE a
  IN  ch_info_clean(b, {k})

(* Cleaned for each permission of is, with the channels it points to.         *)
turn_permission_clean(a, is) ==
  LET gone == is \cap Allocated(a.perms)
      b == ch_info_clean(a, (UNION {{a.perms[i].chns[p] : p \in PeerPort} : i \in gone}) \ {0})
  IN  [b EXCEPT !.timers = EventDel(@, "perm", b.perms, gone),
                !.perms = [i \in DOMAIN @ |-> IF i \in gone THEN NoPermission ELSE @[i]]]

update_permission(a, ip, port) ==
  LET b == allocation_get_permission(a, ip)
      i == PermissionOf(b, ip)
      c == update_turn_permission_lifetime(b, i, PermissionLifetime)
      k == get_turn_channel(c, i, port)
  IN  IF k = {} THEN c ELSE update_channel_lifetime(c, CHOOSE x \in k : TRUE)

(* The addresses of a request, one after the other, each with its port set    *)
(* to 0.                                                                      *)
Granted(a, ips) ==
  LET g[n \in 0 .. Len(ips)] == IF n = 0 THEN a ELSE update_permission(g[n - 1], ips[n], 0)
  IN  g[Len(ips)]

good_peer_addr(ip) == ip \notin DeniedIp

-----------------------------------------------------------------------------
(* The requests of the client.                                                *)

PeersInit ==
  /\ is_valid = TRUE
  /\ al = [perms |-> <<>>, chns |-> <<>>, timers |-> {}]
  /\ out = NoneRelayed
  /\ owedPerm = [ip \in Ip |-> 0] /\ owedChn = [c \in ChNum |-> 0]
  /\ bound = [c \in ChNum |-> <<NoIp, 0>>]

(* The first loop over the attributes validates every address, the second     *)
(* one grants them all.                                                       *)
PermissionError(ips) ==
  LET wrong == {n \in DOMAIN ips : ips[n] \in NoRelay \/ ~good_peer_addr(ips[n])}
  IN  IF wrong = {} THEN 0
      ELSE LET first == CHOOSE n \in wrong : \A j \in wrong : n =< j
           IN  IF ips[first] \in NoRelay THEN 443 ELSE 403

handle_turn_create_permission(ips) ==
  /\ is_valid
  /\ LET err == PermissionError(ips)
     IN  /\ out' = Reply(err)
         /\ al' = IF err = 0 THEN Granted(al, ips) ELSE al
         /\ owedPerm' = [ip \in Ip |-> IF err = 0 /\ (\E n \in DOMAIN ips : ips[n] = ip)
                                       THEN PermissionLifetime ELSE owedPerm[ip]]
  /\ UNCHANGED <<is_valid, owedChn, bound>>

ChannelError(c, peer) ==
  LET known == allocation_get_ch_info(al, c)
  IN  IF peer[1] \in NoRelay THEN 443
      ELSE IF known # {} THEN
        LET chn == al.chns[CHOOSE k \in known : TRUE]
        IN  IF chn.peer # peer THEN 400
            ELSE IF chn.owner = 0 \/ al.perms[chn.owner].addr # peer[1] THEN 500 ELSE 0
      ELSE IF allocation_get_ch_info_by_peer_addr(al, peer) # {} THEN 400
      ELSE IF ~good_peer_addr(peer[1]) THEN 403 ELSE 0

handle_turn_channel_bind(c, peer) ==
  /\ is_valid
  /\ LET err == ChannelError(c, peer)
         known == allocation_get_ch_info(al, c)
         a == IF known = {} THEN allocation_get_new_ch_info(al, c, peer) ELSE al
         k == IF known = {} THEN FirstFree(al.chns) ELSE CHOOSE x \in known : TRUE
     IN  /\ out' = Reply(err)
         /\ al' = IF err = 0 THEN update_channel_lifetime(a, k) ELSE al
         /\ owedPerm' = IF err = 0 THEN [owedPerm EXCEPT ![peer[1]] = ChannelLifetime] ELSE owedPerm
         /\ owedChn' = IF err = 0 THEN [owedChn EXCEPT ![c] = ChannelLifetime] ELSE owedChn
         /\ bound' = IF err = 0 THEN [bound EXCEPT ![c] = peer] ELSE bound
  /\ UNCHANGED is_valid

(* A Send indication goes to any port of an address with a permission; an     *)
(* indication without one is dropped in silence.                              *)
handle_turn_send(peer) ==
  /\ is_valid
  /\ out' = IF get_from_turn_permission_hashtable(al, peer[1]) # {} THEN ToPeer(0, peer) ELSE NoneRelayed
  /\ UNCHANGED <<is_valid, al, owedPerm, owedChn, bound>>

write_to_peerchannel(c) ==
  /\ is_valid
  /\ LET known == allocation_get_ch_info(al, c)
     IN  out' = IF known = {} THEN NoneRelayed ELSE ToPeer(c, al.chns[CHOOSE k \in known : TRUE].peer)
  /\ UNCHANGED <<is_valid, al, owedPerm, owedChn, bound>>

(* What a peer sends reaches the client on the peer's channel, or else as a   *)
(* Data indication.                                                           *)
peer_input_handler(peer) ==
  /\ is_valid
  /\ LET perm == get_from_turn_permission_hashtable(al, peer[1])
         chn == allocation_get_ch_info_by_peer_addr(al, peer)
     IN  out' = IF perm = {} THEN NoneRelayed
                ELSE ToClient(IF chn = {} THEN 0 ELSE al.chns[CHOOSE k \in chn : TRUE].chnum, peer)
  /\ UNCHANGED <<is_valid, al, owedPerm, owedChn, bound>>

-----------------------------------------------------------------------------
(* The engine: a timer that is due fires before time goes on.                 *)

client_ss_perm_timeout_handler(t) ==
  /\ t.kind = "perm" /\ t.left = 0
  /\ LET a == [al EXCEPT !.timers = @ \ {t}]
     IN  al' = turn_permission_clean(a, {t.slot})
  /\ out' = NoneRelayed
  /\ UNCHANGED <<is_valid, owedPerm, owedChn, bound>>

client_ss_channel_timeout_handler(t) ==
  /\ t.kind = "chn" /\ t.left = 0
  /\ LET a == [al EXCEPT !.timers = @ \ {t}]
     IN  al' = turn_channel_delete(a, t.slot)
  /\ out' = NoneRelayed
  /\ UNCHANGED <<is_valid, owedPerm, owedChn, bound>>

Pass(owed) == [x \in DOMAIN owed |-> IF owed[x] = 0 THEN 0 ELSE owed[x] - 1]

PeersTick ==
  /\ \A t \in al.timers : t.left > 0
  /\ al' = [al EXCEPT !.timers = {[t EXCEPT !.left = @ - 1] : t \in @}]
  /\ out' = NoneRelayed
  /\ owedPerm' = Pass(owedPerm) /\ owedChn' = Pass(owedChn)
  /\ UNCHANGED <<is_valid, bound>>

(* The allocation ends: permissions first, then what is left of the channels. *)
clear_allocation ==
  /\ is_valid
  /\ is_valid' = FALSE
  /\ LET a == turn_permission_clean(al, Allocated(al.perms))
         b == ch_info_clean(a, Allocated(a.chns))
     IN  al' = [b EXCEPT !.perms = <<>>, !.chns = <<>>]
  /\ out' = NoneRelayed
  /\ owedPerm' = [ip \in Ip |-> 0] /\ owedChn' = [c \in ChNum |-> 0]
  /\ UNCHANGED bound

PeersNext ==
  \/ \E n \in 1 .. MaxAddresses : \E ips \in [1 .. n -> Ip] : handle_turn_create_permission(ips)
  \/ \E peer \in PeerAddr : \/ \E c \in ChNum : handle_turn_channel_bind(c, peer)
                            \/ handle_turn_send(peer)
                            \/ peer_input_handler(peer)
  \/ \E c \in ChNum : write_to_peerchannel(c)
  \/ \E t \in al.timers : \/ client_ss_perm_timeout_handler(t)
                          \/ client_ss_channel_timeout_handler(t)
  \/ PeersTick
  \/ clear_allocation

PeersSpec == PeersInit /\ [][PeersNext]_peersVars

-----------------------------------------------------------------------------
(* Types of the allocation's tables (turn_permission_info, ch_info).          *)
PeersTypeOK ==
  /\ is_valid \in BOOLEAN
  /\ \A i \in DOMAIN al.perms :
       /\ al.perms[i].addr \in Ip \cup {NoIp}
       /\ al.perms[i].chns \in [PeerPort -> 0..Len(al.chns)]
  /\ \A k \in DOMAIN al.chns : /\ al.chns[k].owner \in 0..Len(al.perms)
                               /\ al.chns[k].chnum \in ChNum \cup {0}
  /\ \A t \in al.timers : t.kind \in {"perm", "chn"} /\ t.left \in 0..Longest

(* The two tables point to each other: every channel hangs under a live       *)
(* permission for its address, at its port, and a permission maps a port only *)
(* to the channel of that port, whatever entries were freed and reused.       *)
TablesLinked ==
  /\ \A k \in Allocated(al.chns) :
       LET c == al.chns[k]
       IN  /\ c.owner \in Allocated(al.perms)
           /\ al.perms[c.owner].addr = c.peer[1]
           /\ al.perms[c.owner].chns[c.peer[2]] = k
  /\ \A i \in Allocated(al.perms), p \in PeerPort :
       LET k == al.perms[i].chns[p]
       IN  k # 0 => /\ k \in Allocated(al.chns)
                    /\ al.chns[k].owner = i /\ al.chns[k].peer[2] = p

(* A timer of the engine always finds the entry it was started for, and an    *)
(* entry in use has exactly one: none is left behind when an entry is freed   *)
(* by the other timer or by the end of the allocation.                        *)
OneTimerEach ==
  /\ \A i \in Allocated(al.perms) : Cardinality({t \in al.timers : t.kind = "perm" /\ t.slot = i}) = 1
  /\ \A k \in Allocated(al.chns) : Cardinality({t \in al.timers : t.kind = "chn" /\ t.slot = k}) = 1
  /\ \A t \in al.timers : t.slot \in Allocated(IF t.kind = "perm" THEN al.perms ELSE al.chns)

(* No two channels share a number or a peer (400 of handle_turn_channel_bind).*)
ChannelsOneToOne ==
  \A j, k \in Allocated(al.chns) :
    j # k => al.chns[j].chnum # al.chns[k].chnum /\ al.chns[j].peer # al.chns[k].peer

(* What a client was granted lasts: a permission is there for as long as the  *)
(* last CreatePermission or ChannelBind for its address promised.             *)
PermissionLasts ==
  \A ip \in Ip : is_valid /\ owedPerm[ip] > 0 => get_from_turn_permission_hashtable(al, ip) # {}

PermissionDue(ip) ==
  \E t \in al.timers : t.kind = "perm" /\ t.left = 0 /\ al.perms[t.slot].addr = ip

(* Nothing is relayed, in either direction, outside the lifetimes granted for *)
(* the address, channel data reach the peer the client bound the number to,   *)
(* and a peer's data arrive on the number bound to that very peer.            *)
RelayedAsGranted ==
  /\ out.kind = "peer" =>
       /\ owedPerm[out.peer[1]] > 0 \/ PermissionDue(out.peer[1])
       /\ out.via \in ChNum => bound[out.via] = out.peer
  /\ out.kind = "client" =>
       /\ owedPerm[out.peer[1]] > 0 \/ PermissionDue(out.peer[1])
       /\ out.chnum \in ChNum => bound[out.chnum] = out.peer

(* A request that is refused changes nothing: CreatePermission grants all of  *)
(* its addresses or none.                                                     *)
RefusedChangesNothing ==
  out'.kind = "reply" /\ out'.code # 0 => UNCHANGED al

(* Through every order of requests, timers and packets, channels and          *)
(* permissions point to each other, no channel is shared, each entry has the  *)
(* one timer that will find it, a permission lasts as granted, and relayed    *)
(* data use what is granted then; and a CreatePermission that is refused has  *)
(* granted none of its addresses (handle_turn_create_permission,              *)
(* handle_turn_channel_bind, the two lifetime timers, handle_turn_send,       *)
(* write_to_peerchannel, peer_input_handler).                                 *)
PeersRight ==
  /\ [](/\ PeersTypeOK /\ TablesLinked /\ OneTimerEach
        /\ ChannelsOneToOne /\ PermissionLasts /\ RelayedAsGranted)
  /\ [][RefusedChangesNothing]_peersVars

(* A channel binding lasts as long as ChannelBind promised.                   *)
(* The code does not keep this (README).                                      *)
ChannelLasts ==
  \A c \in ChNum : is_valid /\ owedChn[c] > 0 => allocation_get_ch_info(al, c) # {}
=============================================================================
