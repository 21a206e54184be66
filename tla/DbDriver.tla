------------------------------ MODULE DbDriver ------------------------------
(***************************************************************************)
(* What the five database drivers of the TURN server share: the database   *)
(* as rows, the statements a driver sends, and the threads that call it.   *)
(*                                                                         *)
(* A driver function is a short program: a sequence of statements, each    *)
(* with what follows when it succeeds and when it fails, namely another    *)
(* statement or the value the function returns.  Calls of different        *)
(* threads interleave between statements.  The database is reachable or    *)
(* not (up); a statement sent while it is not fails, and, where the        *)
(* database is across a network (LostReplies), it may still have been      *)
(* carried out.                                                            *)
(*                                                                         *)
(* The server keeps what it has read in memory: the realm of an origin,    *)
(* the options of a realm, and the lists of allowed and denied peers.  One *)
(* thread of netengine.c reads them again every five seconds.              *)
(***************************************************************************)
EXTENDS Integers, Sequences, FiniteSets, Functions

CONSTANTS Clients,      \* threads and tools that call the driver
          Realms, Users, Keys, Secrets, Kids, Origins, Opts, Ips, Admins, Pwds,
          Values,       \* values given to an option; 0 removes it
          Default,      \* the option's value on the command line
          NoRealm,      \* the empty realm name
          LostReplies,  \* a failed statement may have been carried out
          MaxCalls, MaxFaults

DbAssumption == /\ MaxCalls \in Nat /\ MaxFaults \in Nat /\ LostReplies \in BOOLEAN
                       /\ Values \subseteq Nat /\ NoRealm \notin Realms

VARIABLES rows,         \* the database: row -> value, for the rows it has
          up,           \* the database can be reached
          conn,         \* Clients -> the thread's cached connection
          busy,         \* Clients -> the call in progress
          last,         \* Clients -> the last call that returned
          calls, faults

dbVars == <<rows, up, conn, busy, last, calls, faults>>

VARIABLES o_to_realm,   \* origin -> realm, as last read
          options,      \* <<realm, option>> -> value in force
          lists,        \* "allowed", "denied" -> peers, as last read
          flush         \* where the refreshing thread is

memVars == <<o_to_realm, options, lists, flush>>
allVars == <<dbVars, memVars>>

-----------------------------------------------------------------------------
UserRow(r, u) == <<"turnusers_lt", r, u>>
SecretRow(r, s) == <<"turn_secret", r, s>>
OauthRow(k) == <<"oauth_key", k>>
OriginRow(o) == <<"turn_origin_to_realm", o>>
OptionRow(r, o) == <<"turn_realm_option", r, o>>
PeerIpRow(kind, r, i) == <<kind, r, i>>
AdminRow(a) == <<"admin_user", a>>
DocRow(r) == <<"realm", r>>      \* the document of a realm, in MongoDB

UserRows == {UserRow(r, u) : r \in Realms, u \in Users}
SecretRows == {SecretRow(r, s) : r \in Realms, s \in Secrets}
OauthRows == {OauthRow(k) : k \in Kids}
OriginRows == {OriginRow(o) : o \in Origins}
OptionRows == {OptionRow(r, o) : r \in Realms, o \in Opts}
PeerIpRows(kind) == {PeerIpRow(kind, r, i) : r \in Realms, i \in Ips}
AdminRows == {AdminRow(a) : a \in Admins}
InRealm(rs, r) == {x \in rs : r = NoRealm \/ x[2] = r}

\* What a call is to do to its rows: give them a value, remove or only read them.
Is(v) == [how |-> "is", val |-> v]
Gone == [how |-> "gone"]
Read == [how |-> "read"]
Kept == "set"           \* the value of a row that is only a key
Idle == [op |-> "idle"]

\* A statement: its kind, the rows it is about, the value it gives them, and
\* where the program goes when it succeeds and when it fails.  A number above
\* zero is a place in the program, 0 and -1 are what the function returns.  A
\* fetch reads the value of a row whose key an earlier select has returned.
Stmt(k, on, v, ok, fail) == [kind |-> k, on |-> on, val |-> v, ok |-> ok, fail |-> fail]

\* An insert of a row that is there fails, and a lookup that finds none.
Carries(s, db) == /\ s.kind = "insert" => s.on \cap DOMAIN db = {}
                  /\ s.kind = "get" => s.on \cap DOMAIN db # {}
Effect(s, db) ==
  CASE s.kind \in {"put", "insert"} -> [x \in DOMAIN db \cup s.on |-> IF x \in s.on THEN s.val ELSE db[x]]
    [] s.kind = "update" -> [x \in DOMAIN db |-> IF x \in s.on THEN s.val ELSE db[x]]
    [] s.kind = "match" -> IF {DocRow(x[2]) : x \in s.on} \subseteq DOMAIN db
                             THEN [x \in DOMAIN db \cup s.on |-> IF x \in s.on THEN s.val ELSE db[x]] ELSE db
    [] s.kind = "hmset" -> [x \in DOMAIN db \cup s.on |-> IF x \notin s.on THEN db[x]
                              ELSE <<IF x \in DOMAIN db THEN db[x][1] ELSE NoRealm, s.val[2]>>]
    [] s.kind = "delete" -> Restrict(db, DOMAIN db \ s.on)
    [] OTHER -> db

\* The value of a cached connection after get_..._connection, as each driver
\* computes it: "none" when it returns NULL, "open" to a server across the
\* network, "stale" when that server has since been lost, "bad" when a statement
\* on it has failed, "local" when it needs no server of its own.
Works(k) == up /\ k \in {"open", "local"}
Flusher == "flusher"
Threads == Clients \cup {Flusher}

\* A write or an outage during a refresh is noted (history only).
FlushNotes == flush' = [flush EXCEPT !.quiet = @ /\ rows' = rows /\ up']

\* A thread begins a call over connection k; without one it is over at once.
Call(c, k, op, on, want, prog) ==
  LET f == [op |-> op, on |-> on, want |-> want, prog |-> prog, pc |-> 1, got |-> {},
            kept |-> on \cap DOMAIN rows, seen |-> on \cap DOMAIN rows,
            touched |-> FALSE, failed |-> FALSE]
  IN /\ busy[c] = Idle /\ calls < MaxCalls
     /\ calls' = calls + 1
     /\ conn' = [conn EXCEPT ![c] = k]
     /\ IF k # "none"
          THEN busy' = [busy EXCEPT ![c] = f] /\ last' = [last EXCEPT ![c] = Idle]
          ELSE busy' = busy /\ last' = [last EXCEPT ![c] = [op |-> op, ret |-> -1]]
     /\ UNCHANGED <<rows, up, faults, memVars>>

\* The calls in progress notice a change of the database (history only).
Noticed(b, c, db) ==
  [d \in Clients |-> IF b[d] = Idle THEN Idle
     ELSE [b[d] EXCEPT !.kept = @ \cap DOMAIN db, !.seen = @ \cup (b[d].on \cap DOMAIN db),
                       !.touched = @ \/ (d # c /\ \E x \in b[d].on : (x \in DOMAIN rows) # (x \in DOMAIN db)
                                                    \/ (x \in DOMAIN db /\ rows[x] # db[x]))]]

\* What the caller asked for is in the database, or someone else has changed
\* one of its rows while the call was going on.
Holds(f, db) == \/ f.touched \/ f.want.how = "read"
                \/ f.want.how = "gone" /\ f.on \cap DOMAIN db = {}
                \/ f.want.how = "is" /\ \A x \in f.on : x \in DOMAIN db /\ db[x] = f.want.val

\* A statement with the given outcome leaves the database as db and has read
\* the rows got, and found the rows lost missing; then the program goes on, or
\* the function returns.
Advance(c, ok, db, got, lost) ==
  LET f == busy[c]
      next == IF ok THEN f.prog[f.pc].ok ELSE f.prog[f.pc].fail
      b == Noticed([busy EXCEPT ![c].got = (@ \cup got) \ lost, ![c].failed = @ \/ ~Works(conn[c])], c, db)
  IN /\ rows' = db
     /\ IF next > 0
          THEN busy' = [b EXCEPT ![c].pc = next] /\ last' = last
          ELSE /\ busy' = [b EXCEPT ![c] = Idle]
               /\ last' = [last EXCEPT ![c] = [op |-> f.op, ret |-> next, want |-> f.want, got |-> b[c].got,
                                               kept |-> b[c].kept, seen |-> b[c].seen,
                                               failed |-> b[c].failed, holds |-> Holds(b[c], db)]]
     /\ UNCHANGED <<up, calls, faults, o_to_realm, options, lists>> /\ FlushNotes

Answered(c) == /\ busy[c] # Idle /\ Works(conn[c])
               /\ LET s == busy[c].prog[busy[c].pc]
                  IN Advance(c, Carries(s, rows), IF Carries(s, rows) THEN Effect(s, rows) ELSE rows,
                             IF s.kind \in {"select", "get"} THEN s.on \cap DOMAIN rows ELSE {},
                             IF s.kind = "fetch" THEN s.on \ DOMAIN rows ELSE {})
               /\ conn' = conn

Spoilt(k) == IF k \in {"open", "stale"} THEN "bad" ELSE k
Failed(c) == /\ busy[c] # Idle /\ ~Works(conn[c])
             /\ LET s == busy[c].prog[busy[c].pc]
                IN \E db \in {rows} \cup (IF LostReplies /\ Carries(s, rows) THEN {Effect(s, rows)} ELSE {}) :
                     Advance(c, FALSE, db, {}, IF s.kind = "fetch" THEN s.on ELSE {})
             /\ conn' = [conn EXCEPT ![c] = Spoilt(@)]

Lose == /\ up /\ faults < MaxFaults /\ up' = FALSE /\ faults' = faults + 1
        /\ conn' = [t \in Threads |-> IF conn[t] = "open" THEN "stale" ELSE conn[t]]
        /\ UNCHANGED <<rows, busy, last, calls, o_to_realm, options, lists>> /\ FlushNotes
Recover == /\ ~up /\ up' = TRUE /\ UNCHANGED <<rows, conn, busy, last, calls, faults, memVars>>

Environment == Lose \/ Recover \/ \E c \in Clients : Answered(c) \/ Failed(c)

-----------------------------------------------------------------------------
(* The refreshing thread.  flush.at is the step it is in, flush.todo what   *)
(* its loop has left, flush.quiet that nothing was written and nothing      *)
(* failed since it began (history only).                                    *)
OriginsOf(db) == [o \in {x \in Origins : OriginRow(x) \in DOMAIN db} |-> db[OriginRow(o)]]
OptionOf(db, x) == IF OptionRow(x[1], x[2]) \in DOMAIN db THEN db[OptionRow(x[1], x[2])] ELSE Default
PeersOf(db, kind) == PeerIpRows(kind) \cap DOMAIN db
AllOptions == Realms \X Opts

dbRest == <<rows, up, busy, last, calls, faults>>
\* The thread goes to another step; ok says that the read it made succeeded.
Flush(at, todo, ok) == flush' = [at |-> at, todo |-> todo, quiet |-> flush.quiet /\ ok]
FlushConn(k, ok) == conn' = [conn EXCEPT ![Flusher] = IF ok THEN k ELSE Spoilt(k)]

\* reread_realms: the default realm first, then the driver.
reread_realms == /\ flush.at = "sleep" /\ flush' = [at |-> "origins", todo |-> {}, quiet |-> TRUE]
                 /\ UNCHANGED <<dbRest, conn, o_to_realm, options, lists>>

\* The steps the drivers for SQL databases have in common: the origins are
\* read and installed, the options of the realms are set to the default one
\* realm after another, the options are read, and set one row after another.
RereadOrigins(k) ==
  /\ flush.at = "origins"
  /\ o_to_realm' = IF Works(k) THEN OriginsOf(rows) ELSE o_to_realm
  /\ IF k = "none" THEN Flush("lists", {}, FALSE) ELSE Flush("reset", Realms, Works(k))
  /\ FlushConn(k, Works(k)) /\ UNCHANGED <<dbRest, options, lists>>
ResetOptions(r) ==
  /\ flush.at = "reset" /\ r \in flush.todo
  /\ options' = [x \in AllOptions |-> IF x[1] = r THEN Default ELSE options[x]]
  /\ Flush(IF flush.todo = {r} THEN "select" ELSE "reset", flush.todo \ {r}, TRUE)
  /\ UNCHANGED <<dbRest, conn, o_to_realm, lists>>
ReadOptions ==
  LET k == conn[Flusher]
      read == {<<x, OptionOf(rows, x)>> : x \in {y \in AllOptions : OptionRow(y[1], y[2]) \in DOMAIN rows}}
  IN /\ flush.at = "select"
     /\ Flush(IF Works(k) /\ read # {} THEN "apply" ELSE "lists", IF Works(k) THEN read ELSE {}, Works(k))
     /\ FlushConn(k, Works(k)) /\ UNCHANGED <<dbRest, o_to_realm, options, lists>>
ApplyOption(p) ==
  /\ flush.at = "apply" /\ p \in flush.todo
  /\ options' = [options EXCEPT ![p[1]] = p[2]]
  /\ Flush(IF flush.todo = {p} THEN "lists" ELSE "apply", flush.todo \ {p}, TRUE)
  /\ UNCHANGED <<dbRest, conn, o_to_realm, lists>>
RereadRealms(k) == \/ RereadOrigins(k) \/ ReadOptions
                   \/ \E r \in Realms : ResetOptions(r)
                   \/ \E p \in flush.todo : ApplyOption(p)

\* update_white_and_black_lists: get_ip_list of the driver fills a new list
\* and its result is not looked at, so what a failed read leaves is installed.
update_list(k, kind, from, to) ==
  /\ flush.at = from
  /\ lists' = [lists EXCEPT ![kind] = IF Works(k) THEN PeersOf(rows, kind) ELSE {}]
  /\ Flush(to, {}, Works(k)) /\ FlushConn(k, Works(k))
  /\ UNCHANGED <<dbRest, o_to_realm, options>>
update_white_and_black_lists(k) == \/ update_list(k, "allowed", "lists", "denied")
                                   \/ update_list(k, "denied", "denied", "sleep")

DbInit(stored) ==
  /\ rows \in {<<>>, stored}
  /\ up = TRUE /\ conn = [c \in Threads |-> "none"]
  /\ busy = [c \in Clients |-> Idle] /\ last = [c \in Clients |-> Idle]
  /\ calls = 0 /\ faults = 0
  /\ o_to_realm = <<>> /\ options = [x \in AllOptions |-> Default]
  /\ lists = [k \in {"allowed", "denied"} |-> {}]
  /\ flush = [at |-> "sleep", todo |-> {}, quiet |-> FALSE]

-----------------------------------------------------------------------------
\* A listing or lookup that reports success has every row that was there all
\* along and none that was never there, whatever other callers did meanwhile.
ListedComplete ==
  \A c \in Clients : last[c] # Idle /\ last[c].ret = 0 /\ last[c].want.how = "read"
     => last[c].kept \subseteq last[c].got /\ last[c].got \subseteq last[c].seen

\* The same for the drivers in which a listing that failed returns 0, too: it
\* is about those none of whose statements failed.
Succeeded(c) == last[c] # Idle /\ last[c].ret = 0 /\ ~last[c].failed
ListedIfAnswered ==
  \A c \in Clients : Succeeded(c) /\ last[c].want.how = "read"
     => last[c].kept \subseteq last[c].got /\ last[c].got \subseteq last[c].seen

\* A refresh during which nothing was written and nothing failed leaves in
\* memory exactly what the database has.
QuietRefreshExact ==
  flush.at = "lists" /\ flush.quiet =>
     /\ o_to_realm = OriginsOf(rows)
     /\ \A x \in AllOptions : options[x] = OptionOf(rows, x)

\* What the server has in memory agrees with the database: the origins and the
\* lists of peers, and the options.
TablesCurrent == /\ o_to_realm = OriginsOf(rows)
                 /\ \A k \in {"allowed", "denied"} : lists[k] = PeersOf(rows, k)
OptionsCurrent == \A x \in AllOptions : options[x] = OptionOf(rows, x)

\* A limit of a realm that the database keeps is in force all through a
\* refresh: no step of it takes a stored value out of memory.
\* The code does not keep this (README).
OptionStaysInForce ==
  [][\A x \in AllOptions : OptionRow(x[1], x[2]) \in DOMAIN rows /\ options[x] = OptionOf(rows, x) /\ rows' = rows
       => options'[x] = options[x]]_allVars

\* A peer the database denies, once denied by the server, stays denied.
\* The code does not keep this (README).
DeniedStaysDenied ==
  [][\A p \in lists["denied"] : p \in DOMAIN rows /\ p \in DOMAIN rows' => p \in lists'["denied"]]_allVars
=============================================================================
