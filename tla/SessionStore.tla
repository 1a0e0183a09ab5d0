---------------------------- MODULE SessionStore ----------------------------
(***************************************************************************)
(* The session store of the proxy (crates/proxy/src/session.rs) and the    *)
(* handlers of the REST API that drive it (crates/proxy/src/proxy.rs).     *)
(*                                                                         *)
(* The store keeps every session twice: as a row of a SQLite table and as  *)
(* an entry of a hash map keyed by source IP.  Table and map have a mutex  *)
(* each, and no operation holds both: `create' takes the table lock twice  *)
(* and the map lock once, `delete' the map, the table and the map again,   *)
(* and the handler of POST /sessions calls create, set_key_map and get one *)
(* after the other.  An action below is one such critical section, and     *)
(* the sections of different requests interleave freely: every connection  *)
(* has a task of its own on a multi-threaded runtime.                      *)
(*                                                                         *)
(* Abstracted: the allowlist of a session is the set of credential         *)
(* references of its mitm entries, which is all the key map depends on; a  *)
(* key map is the set of the references whose key pair it holds; times     *)
(* are small naturals.  The statistics map is left out (nothing outside    *)
(* the tests writes it).                                                   *)
(***************************************************************************)
EXTENDS Naturals, FiniteSets

CONSTANTS
    Workers,     \* the tasks that serve API connections
    Ids,         \* session ids
    Ips,         \* source addresses
    Refs,        \* credential references that a request may name
    VaultRefs,   \* those the secret store resolves
    Requests,    \* the bodies a client may POST (a bound on the inputs)
    NoExpiry,    \* expires_at = None
    NoSession,   \* no map entry for an address
    MaxNow,      \* bound on the clock
    Durable,     \* TRUE: SessionStore::open(path); FALSE: in_memory()
    SqlErrors,   \* TRUE: an INSERT or a DELETE of SQLite may fail
    Isolated     \* TRUE: a delete overlaps no request for its id or address

Expiries == Nat \union {NoExpiry}
Row      == [id : Ids, ip : Ips, expires : Expiries]
Entry    == [id : Ids, keys : SUBSET Refs, expires : Expiries]
Request  == [id : Ids, ip : Ips, refs : SUBSET Refs, expires : Expiries]

ASSUME RequestsAssumption == Requests \subseteq Request /\ Requests # {}
ASSUME NoSessionAssumption == NoSession \notin Entry
ASSUME VaultAssumption == VaultRefs \subseteq Refs

\* Where a request stands between two critical sections.
Phases == {"idle", "insert", "publish", "setkeys", "readback",
           "delrow", "delentry"}

\* What the client of a worker's last request saw: the status of the answer,
\* "dropped" when the connection closed without one, "none" while it waits.
Replies == {"none", "created", "bad_request", "unprocessable", "conflict",
            "internal_error", "no_content", "not_found", "ok", "dropped"}

VARIABLES
    rows,      \* the table `sessions' of SQLite: durable when Durable
    sessions,  \* the hash map `sessions': address -> entry or NoSession
    phase,     \* worker -> phase of the request it serves
    req,       \* worker -> the request's locals (meaningful unless idle)
    reply,     \* worker -> its last answer
    now        \* the wall clock

vars == <<rows, sessions, phase, req, reply, now>>

TypeOK ==
    /\ rows \subseteq Row
    /\ sessions \in [Ips -> Entry \union {NoSession}]
    /\ phase \in [Workers -> Phases]
    /\ req \in [Workers -> Request]
    /\ reply \in [Workers -> Replies]
    /\ now \in Nat

-----------------------------------------------------------------------------
(* Lookups *)

HasSession(ip) == sessions[ip] # NoSession

\* The addresses under which the map holds an entry with this id.  The code
\* takes the first match of an unordered scan, so any of them may be it.
Holding(id) == {ip \in Ips : HasSession(ip) /\ sessions[ip].id = id}

RowWithId(id) == \E row \in rows : row.id = id
RowWithIp(ip) == \E row \in rows : row.ip = ip

Duplicate(r) == RowWithId(r.id) \/ RowWithIp(r.ip)

Creating(w) == phase[w] \in {"insert", "publish", "setkeys", "readback"}
Deleting(w) == phase[w] \in {"delrow", "delentry"}

\* The contract under which Isolated clients call: a delete and any other
\* request for its session id or its address do not overlap.
Apart(w, id, ip) == req[w].id # id /\ req[w].ip # ip
MayCreate(id, ip) == Isolated => \A w \in Workers : Deleting(w) => Apart(w, id, ip)
MayDelete(id, ip) == Isolated => \A w \in Workers : phase[w] # "idle" => Apart(w, id, ip)

Continue(w, next) ==
    /\ phase' = [phase EXCEPT ![w] = next]
    /\ UNCHANGED reply

\* As a bug would have it (and so the other definitions with a second name).
Answer_KeepsBusy(w, status) ==          \* the worker is never freed
    /\ reply' = [reply EXCEPT ![w] = status]
    /\ phase' = [phase EXCEPT ![w] = "answered"]

Answer(w, status) ==
    /\ reply' = [reply EXCEPT ![w] = status]
    /\ phase' = [phase EXCEPT ![w] = "idle"]

-----------------------------------------------------------------------------
Init ==
    /\ rows = {}
    /\ sessions = [ip \in Ips |-> NoSession]
    /\ phase = [w \in Workers |-> "idle"]
    /\ req = [w \in Workers |-> CHOOSE r \in Requests : TRUE]
    /\ reply = [w \in Workers |-> "none"]
    /\ now = 0

(* POST /sessions *)

\* A body that cannot be read, parsed, or lacks a required field.
RejectBody(w) ==
    /\ phase[w] = "idle"
    /\ Answer(w, "bad_request")
    /\ UNCHANGED <<rows, sessions, req, now>>

\* Everything up to and including the duplicate check of create, which reads
\* the table under one lock: the id first, then the address.
BeginCreate(w, r) ==
    /\ phase[w] = "idle"
    /\ MayCreate(r.id, r.ip)
    /\ req' = [req EXCEPT ![w] = r]
    /\ \/ ~ (r.refs \subseteq VaultRefs) /\ Answer(w, "unprocessable")
       \/ r.refs \subseteq VaultRefs /\ Duplicate(r) /\ Answer(w, "conflict")
       \/ /\ r.refs \subseteq VaultRefs /\ ~ Duplicate(r)
          /\ phase' = [phase EXCEPT ![w] = "insert"]
          /\ reply' = [reply EXCEPT ![w] = "none"]
    /\ UNCHANGED <<rows, sessions, now>>

InsertRow_Unchecked(w) ==               \* a schema without its constraints
    /\ phase[w] = "insert"
    /\ rows' = rows \union
          {[id |-> req[w].id, ip |-> req[w].ip, expires |-> req[w].expires]}
    /\ Continue(w, "publish")
    /\ UNCHANGED <<sessions, req, now>>

\* The INSERT, under a second acquisition of the table lock.  PRIMARY KEY and
\* UNIQUE turn a row that appeared meanwhile into an error, answered 500 as any
\* other of the statement.
InsertRow(w) ==
    /\ phase[w] = "insert"
    /\ \/ /\ Duplicate(req[w]) \/ SqlErrors
          /\ Answer(w, "internal_error")
          /\ UNCHANGED rows
       \/ /\ ~ Duplicate(req[w])
          /\ rows' = rows \union
                {[id |-> req[w].id, ip |-> req[w].ip, expires |-> req[w].expires]}
          /\ Continue(w, "publish")
    /\ UNCHANGED <<sessions, req, now>>

\* The insertion into the map, with an empty key map.
PublishEntry(w) ==
    /\ phase[w] = "publish"
    /\ sessions' = [sessions EXCEPT ![req[w].ip] =
            [id |-> req[w].id, keys |-> {}, expires |-> req[w].expires]]
    /\ Continue(w, IF req[w].refs = {} THEN "readback" ELSE "setkeys")
    /\ UNCHANGED <<rows, req, now>>

SetKeyMap_ByAddress(w) ==               \* found by address, not by id
    /\ phase[w] = "setkeys"
    /\ \/ /\ HasSession(req[w].ip)
          /\ sessions' = [sessions EXCEPT ![req[w].ip].keys = req[w].refs]
       \/ ~ HasSession(req[w].ip) /\ UNCHANGED sessions
    /\ Continue(w, "readback")
    /\ UNCHANGED <<rows, req, now>>

\* set_key_map: by session id, its result is ignored.
SetKeyMap(w) ==
    /\ phase[w] = "setkeys"
    /\ \/ \E ip \in Holding(req[w].id) :
            sessions' = [sessions EXCEPT ![ip].keys = req[w].refs]
       \/ Holding(req[w].id) = {} /\ UNCHANGED sessions
    /\ Continue(w, "readback")
    /\ UNCHANGED <<rows, req, now>>

\* The answer is built from store.get(id).unwrap(): the task panics, and the
\* connection closes without an answer, if the session has gone.
ReadBack(w) ==
    /\ phase[w] = "readback"
    /\ Answer(w, IF Holding(req[w].id) = {} THEN "dropped" ELSE "created")
    /\ UNCHANGED <<rows, sessions, req, now>>

(* DELETE /sessions/{id} *)

\* The scan of the map for the id, which only yields the address.
BeginDelete(w, id) ==
    /\ phase[w] = "idle"
    /\ \/ \E ip \in Holding(id) :
            /\ MayDelete(id, ip)
            /\ req' = [req EXCEPT ![w] =
                    [id |-> id, ip |-> ip, refs |-> {}, expires |-> NoExpiry]]
            /\ phase' = [phase EXCEPT ![w] = "delrow"]
            /\ reply' = [reply EXCEPT ![w] = "none"]
       \/ /\ Holding(id) = {}
          /\ Isolated => \A v \in Workers : phase[v] # "idle" => req[v].id # id
          /\ Answer(w, "not_found")
          /\ UNCHANGED req
    /\ UNCHANGED <<rows, sessions, now>>

DeleteRow_Skipped(w) ==                 \* the session stays in the table
    /\ phase[w] = "delrow"
    /\ Continue(w, "delentry")
    /\ UNCHANGED <<rows, sessions, req, now>>

\* An error of the statement leaves row and entry, and is answered 500.
DeleteRow(w) ==
    /\ phase[w] = "delrow"
    /\ \/ /\ rows' = {row \in rows : row.id # req[w].id}
          /\ Continue(w, "delentry")
       \/ SqlErrors /\ Answer(w, "internal_error") /\ UNCHANGED rows
    /\ UNCHANGED <<sessions, req, now>>

\* map.remove(&source_ip): by address, whatever session is there by now.
DeleteEntry(w) ==
    /\ phase[w] = "delentry"
    /\ sessions' = [sessions EXCEPT ![req[w].ip] = NoSession]
    /\ Answer(w, "no_content")
    /\ UNCHANGED <<rows, req, now>>

(* GET /sessions/{id}: the map alone decides. *)
GetSession(w, id) ==
    /\ phase[w] = "idle"
    /\ Answer(w, IF Holding(id) = {} THEN "not_found" ELSE "ok")
    /\ UNCHANGED <<rows, sessions, req, now>>

(* The clock, and the end of the process *)

Tick ==
    /\ now < MaxNow
    /\ now' = now + 1
    /\ UNCHANGED <<rows, sessions, phase, req, reply>>

\* What SessionStore::open keeps of the table.
Unexpired(row) == row.expires = NoExpiry \/ row.expires >= now

\* The map as open builds it from the rows that are left: no keys.
Loaded(table) ==
    [ip \in Ips |->
        IF \E row \in table : row.ip = ip
        THEN LET row == CHOOSE row \in table : row.ip = ip
             IN  [id |-> row.id, keys |-> {}, expires |-> row.expires]
        ELSE NoSession]

\* The proxy dies and starts again: requests in progress are lost, and a new
\* store is opened on the file, or in memory on an empty table.
Restart ==
    /\ rows' = IF Durable THEN {row \in rows : Unexpired(row)} ELSE {}
    /\ sessions' = Loaded(rows')
    /\ phase' = [w \in Workers |-> "idle"]
    /\ reply' = [w \in Workers |-> IF phase[w] = "idle" THEN reply[w] ELSE "dropped"]
    /\ UNCHANGED <<req, now>>

-----------------------------------------------------------------------------
\* What a request does once it has begun: it needs nothing but the locks.
Advance(w) ==
    \/ InsertRow(w) \/ PublishEntry(w) \/ SetKeyMap(w) \/ ReadBack(w)
    \/ DeleteRow(w) \/ DeleteEntry(w)

Begin(w) ==
    \/ RejectBody(w)
    \/ \E r \in Requests : BeginCreate(w, r)
    \/ \E id \in Ids : BeginDelete(w, id) \/ GetSession(w, id)

Next ==
    \/ \E w \in Workers : Begin(w) \/ Advance(w)
    \/ Tick
    \/ Restart

Spec == Init /\ [][Next]_vars

-----------------------------------------------------------------------------
(* Properties of the store under any clients *)

\* The constraints of the schema hold in the table whatever the interleaving
\* of checks and INSERTs: no id and no address has two rows.
UniqueRows ==
    \A row1, row2 \in rows :
        row1.id = row2.id \/ row1.ip = row2.ip => row1 = row2

\* set_key_map finds its session by id after the lock of create is released:
\* whatever replaced that session meanwhile, no entry ever holds keys that
\* were not asked for in a request for the entry's own id.
OwnKeys ==
    \A ip \in Ips : HasSession(ip) =>
        sessions[ip].keys \subseteq
            UNION {r.refs : r \in {q \in Requests : q.id = sessions[ip].id}}

(* Properties that need Isolated clients *)

EntryMatches(ip, row) ==
    /\ HasSession(ip) /\ row.ip = ip
    /\ row.id = sessions[ip].id /\ row.expires = sessions[ip].expires

\* Table and map differ only while a request is between its two writes: an
\* entry without its row is being deleted, a row without its entry created.
Agreement ==
    /\ \A ip \in Ips : HasSession(ip) =>
          \/ \E row \in rows : EntryMatches(ip, row)
          \/ \E w \in Workers : phase[w] = "delentry" /\ req[w].ip = ip
    /\ \A row \in rows :
          \/ EntryMatches(row.ip, row)
          \/ \E w \in Workers :
                phase[w] = "publish" /\ req[w].id = row.id /\ req[w].ip = row.ip

(* What a comment claims, and the code does not keep *)

\* "Thread-safe session store backed by SQLite + an in-memory HashMap": when
\* no request is in progress, table and map hold the same sessions.
QuiescentAgreement ==
    (\A w \in Workers : phase[w] = "idle") =>
        /\ \A ip \in Ips : HasSession(ip) => \E row \in rows : EntryMatches(ip, row)
        /\ \A row \in rows : EntryMatches(row.ip, row)

-----------------------------------------------------------------------------
(* What the store promises: the registry whose sessions are those of the   *)
(* map.  A create has been asked for until its entry is in the map.        *)

Stage(w) ==
    CASE phase[w] = "idle"                    -> "idle"
      [] phase[w] \in {"insert", "publish"}   -> "asked"
      [] phase[w] \in {"setkeys", "readback"} -> "registered"
      [] phase[w] \in {"delrow", "delentry"}  -> "doomed"

Registry == INSTANCE SessionRegistry WITH
    call <- [w \in Workers |-> [stage |-> Stage(w), request |-> req[w]]]

\* The store with its table, its map and its locks behaves as the registry.
ImplementsRegistry == Registry!Spec

=============================================================================
