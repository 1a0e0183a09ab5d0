------------------------- MODULE SessionStoreProofs -------------------------
(***************************************************************************)
(* Theorems about SessionStore, for any number of workers, ids, addresses  *)
(* and requests.                                                           *)
(***************************************************************************)
EXTENDS SessionStore, TLAPS

USE DEF Phases, Replies

-----------------------------------------------------------------------------
(* Types *)

\* What open builds from any set of rows is a map of entries.
LEMMA LoadedType ==
    ASSUME NEW table, table \subseteq Row
    PROVE  Loaded(table) \in [Ips -> Entry \union {NoSession}]
<1> SUFFICES ASSUME NEW ip \in Ips, \E row \in table : row.ip = ip
             PROVE  LET row == CHOOSE row \in table : row.ip = ip
                    IN  [id |-> row.id, keys |-> {}, expires |-> row.expires] \in Entry
    BY DEF Loaded
<1> DEFINE row == CHOOSE row \in table : row.ip = ip
<1>1. row \in Row
    OBVIOUS
<1> QED BY <1>1 DEF Row, Entry

\* No step of a worker, of the clock or of a restart breaks the types.
LEMMA TypeStep == TypeOK /\ [Next]_vars => TypeOK'
<1> SUFFICES ASSUME TypeOK, [Next]_vars PROVE TypeOK'
    OBVIOUS
<1> USE DEF TypeOK, Answer, Continue
<1>1. ASSUME NEW w \in Workers, RejectBody(w) PROVE TypeOK'
    BY <1>1 DEF RejectBody
<1>2. ASSUME NEW w \in Workers, NEW r \in Requests, BeginCreate(w, r) PROVE TypeOK'
    BY <1>2, RequestsAssumption DEF BeginCreate
<1>3. ASSUME NEW w \in Workers, NEW id \in Ids, BeginDelete(w, id) PROVE TypeOK'
  <2>1. ASSUME NEW ip \in Holding(id)
        PROVE  [id |-> id, ip |-> ip, refs |-> {}, expires |-> NoExpiry] \in Request
      BY DEF Holding, Request, Expiries
  <2>2. req' \in [Workers -> Request]
      BY <1>3, <2>1 DEF BeginDelete
  <2> QED BY <1>3, <2>2 DEF BeginDelete
<1>4. ASSUME NEW w \in Workers, NEW id \in Ids, GetSession(w, id) PROVE TypeOK'
    BY <1>4 DEF GetSession
<1>5. ASSUME NEW w \in Workers, InsertRow(w) PROVE TypeOK'
    BY <1>5 DEF InsertRow, Request, Row
<1>6. ASSUME NEW w \in Workers, PublishEntry(w) PROVE TypeOK'
    BY <1>6 DEF PublishEntry, Request, Entry
<1>7. ASSUME NEW w \in Workers, SetKeyMap(w) PROVE TypeOK'
  <2>1. sessions' \in [Ips -> Entry \union {NoSession}]
    <3>1. CASE UNCHANGED sessions
        BY <3>1
    <3>2. ASSUME NEW ip \in Holding(req[w].id),
                 sessions' = [sessions EXCEPT ![ip].keys = req[w].refs]
          PROVE  sessions' \in [Ips -> Entry \union {NoSession}]
      <4>1. sessions[ip] \in Entry /\ req[w].refs \in SUBSET Refs
          BY DEF Holding, HasSession, Request
      <4>2. [sessions[ip] EXCEPT !.keys = req[w].refs] \in Entry
          BY <4>1 DEF Entry
      <4> QED BY <3>2, <4>2 DEF Holding
    <3> QED BY <1>7, <3>1, <3>2 DEF SetKeyMap
  <2> QED BY <1>7, <2>1 DEF SetKeyMap
<1>8. ASSUME NEW w \in Workers, ReadBack(w) PROVE TypeOK'
    BY <1>8 DEF ReadBack
<1>9. ASSUME NEW w \in Workers, DeleteRow(w) PROVE TypeOK'
    BY <1>9 DEF DeleteRow
<1>10. ASSUME NEW w \in Workers, DeleteEntry(w) PROVE TypeOK'
    BY <1>10 DEF DeleteEntry
<1>11. CASE Tick
    BY <1>11 DEF Tick
<1>12. CASE Restart
  <2>1. rows' \subseteq Row
      BY <1>12 DEF Restart
  <2>2. sessions' \in [Ips -> Entry \union {NoSession}]
      BY <1>12, <2>1, LoadedType DEF Restart
  <2> QED BY <1>12, <2>1, <2>2 DEF Restart
<1>13. CASE UNCHANGED vars
    BY <1>13 DEF vars
<1> QED BY <1>1, <1>2, <1>3, <1>4, <1>5, <1>6, <1>7, <1>8, <1>9, <1>10,
           <1>11, <1>12, <1>13 DEF Next, Begin, Advance

\* Every variable keeps its type, whatever requests come and however often
\* the proxy is restarted.
THEOREM TypeCorrect == Spec => []TypeOK
<1>1. Init => TypeOK
    BY RequestsAssumption DEF Init, TypeOK
<1> QED BY <1>1, TypeStep, PTL DEF Spec

-----------------------------------------------------------------------------
(* The table *)

\* No step puts a second row with the id or the address of a row there is.
LEMMA UniqueRowsStep == UniqueRows /\ [Next]_vars => UniqueRows'
<1> SUFFICES ASSUME UniqueRows, [Next]_vars PROVE UniqueRows'
    OBVIOUS
<1>1. CASE rows' \subseteq rows
    BY <1>1 DEF UniqueRows
<1>2. ASSUME NEW w \in Workers, InsertRow(w) PROVE UniqueRows'
    BY <1>1, <1>2 DEF InsertRow, Duplicate, RowWithId, RowWithIp, UniqueRows
<1>3. ASSUME NEW w \in Workers, Begin(w) PROVE rows' \subseteq rows
    BY <1>3 DEF Begin, RejectBody, BeginCreate, BeginDelete, GetSession
<1>4. ASSUME NEW w \in Workers, Advance(w) PROVE InsertRow(w) \/ rows' \subseteq rows
    BY <1>4 DEF Advance, PublishEntry, SetKeyMap, ReadBack, DeleteRow, DeleteEntry
<1>5. CASE Tick \/ Restart \/ UNCHANGED vars
    BY <1>1, <1>5 DEF Tick, Restart, vars
<1> QED BY <1>1, <1>2, <1>3, <1>4, <1>5 DEF Next

\* The duplicate check of create may be overtaken, the INSERT may not: the
\* constraints are checked under the lock that the row is written under.
THEOREM UniqueRowsHold == Spec => []UniqueRows
<1>1. Init => UniqueRows
    BY DEF Init, UniqueRows
<1> QED BY <1>1, UniqueRowsStep, PTL DEF Spec

-----------------------------------------------------------------------------
(* Keys *)

\* A worker that may still set keys serves a request that was posted.
PostedRequests ==
    \A w \in Workers : Creating(w) => req[w] \in Requests

\* However creates, deletes and restarts interleave, the key map of an entry
\* holds nothing but keys posted for the session id of that entry, although
\* set_key_map looks its session up again after create has let go of it.
THEOREM OwnKeysHold == Spec => []OwnKeys
<1> DEFINE Inv == TypeOK /\ PostedRequests /\ OwnKeys
<1>1. Init => Inv
    BY RequestsAssumption DEF Init, TypeOK, PostedRequests, OwnKeys, Creating, HasSession
<1>2. TypeOK /\ TypeOK' /\ Inv /\ [Next]_vars => Inv'
  <2> SUFFICES ASSUME TypeOK, TypeOK', PostedRequests, OwnKeys, [Next]_vars
               PROVE  PostedRequests' /\ OwnKeys'
      OBVIOUS
  <2> USE DEF Answer, Continue
  <2>1. PostedRequests'
    <3> USE DEF PostedRequests, Creating, TypeOK
    <3>1. ASSUME NEW w \in Workers, Begin(w) PROVE PostedRequests'
      <4>1. CASE RejectBody(w)
          BY <4>1 DEF RejectBody
      <4>2. ASSUME NEW r \in Requests, BeginCreate(w, r) PROVE PostedRequests'
          BY <4>2 DEF BeginCreate
      <4>3. ASSUME NEW id \in Ids, BeginDelete(w, id) PROVE PostedRequests'
        <5>1. \A v \in Workers \ {w} : phase'[v] = phase[v] /\ req'[v] = req[v]
            BY <4>3 DEF BeginDelete
        <5>2. phase'[w] \in {"idle", "delrow"}
            BY <4>3 DEF BeginDelete
        <5> QED BY <5>1, <5>2
      <4>4. ASSUME NEW id \in Ids, GetSession(w, id) PROVE PostedRequests'
          BY <4>4 DEF GetSession
      <4> QED BY <3>1, <4>1, <4>2, <4>3, <4>4 DEF Begin
    <3>2. ASSUME NEW w \in Workers, Advance(w) PROVE PostedRequests'
      <4>1. req' = req /\ \A v \in Workers : Creating(v)' => Creating(v)
          BY <3>2 DEF Advance, InsertRow, PublishEntry, SetKeyMap, ReadBack,
                      DeleteRow, DeleteEntry
      <4> QED BY <4>1
    <3>3. CASE Tick \/ Restart \/ UNCHANGED vars
        BY <3>3 DEF Tick, Restart, vars
    <3> QED BY <3>1, <3>2, <3>3 DEF Next
  <2>2. OwnKeys'
    <3>1. CASE UNCHANGED sessions
        BY <3>1 DEF OwnKeys, HasSession
    <3>2. ASSUME NEW w \in Workers, PublishEntry(w) PROVE OwnKeys'
        BY <3>2 DEF PublishEntry, OwnKeys, HasSession, TypeOK
    <3>3. ASSUME NEW w \in Workers, SetKeyMap(w) PROVE OwnKeys'
      <4>1. ASSUME NEW ip \in Holding(req[w].id),
                   sessions' = [sessions EXCEPT ![ip].keys = req[w].refs]
            PROVE  OwnKeys'
        <5>1. /\ ip \in Ips /\ sessions[ip] \in Entry
              /\ sessions[ip].id = req[w].id /\ req[w] \in Requests
            BY <3>3 DEF Holding, HasSession, SetKeyMap, PostedRequests, Creating, TypeOK
        <5>2. sessions'[ip].id = req[w].id /\ sessions'[ip].keys = req[w].refs
            BY <4>1, <5>1 DEF Entry, TypeOK
        <5>3. \A x \in Ips \ {ip} : sessions'[x] = sessions[x]
            BY <4>1 DEF TypeOK
        <5> QED BY <5>1, <5>2, <5>3 DEF OwnKeys, HasSession
      <4> QED BY <3>1, <3>3, <4>1 DEF SetKeyMap
    <3>4. ASSUME NEW w \in Workers, DeleteEntry(w) PROVE OwnKeys'
        BY <3>4 DEF DeleteEntry, OwnKeys, HasSession, TypeOK
    <3>5. CASE Restart
      <4>1. sessions' = Loaded(rows')
          BY <3>5 DEF Restart
      <4>2. \A ip \in Ips : HasSession(ip)' => sessions'[ip].keys = {}
          BY <4>1 DEF Loaded, HasSession
      <4> QED BY <4>2 DEF OwnKeys
    <3>6. ASSUME NEW w \in Workers, Begin(w) PROVE UNCHANGED sessions
        BY <3>6 DEF Begin, RejectBody, BeginCreate, BeginDelete, GetSession
    <3>7. ASSUME NEW w \in Workers, Advance(w)
          PROVE  PublishEntry(w) \/ SetKeyMap(w) \/ DeleteEntry(w) \/ UNCHANGED sessions
        BY <3>7 DEF Advance, InsertRow, ReadBack, DeleteRow
    <3>8. CASE Tick \/ UNCHANGED vars
        BY <3>1, <3>8 DEF Tick, vars
    <3> QED BY <3>1, <3>2, <3>3, <3>4, <3>5, <3>6, <3>7, <3>8 DEF Next
  <2> QED BY <2>1, <2>2
<1>3. Inv => OwnKeys
    OBVIOUS
<1> QED BY <1>1, <1>2, <1>3, TypeCorrect, PTL DEF Spec

-----------------------------------------------------------------------------
(* Table and map, for clients that keep deletes apart *)

RowOf(w) == [id |-> req[w].id, ip |-> req[w].ip, expires |-> req[w].expires]

\* A create whose row is in the table.
Stored(w) == phase[w] \in {"publish", "setkeys", "readback"}

\* Isolated, as a fact about requests in progress.
KeptApart ==
    \A v, w \in Workers :
        v # w /\ Deleting(v) /\ phase[w] # "idle" => Apart(w, req[v].id, req[v].ip)

\* The constraints of the table keep creates apart once they have a row.
StoredApart ==
    \A v, w \in Workers : v # w /\ Stored(v) /\ Stored(w) => Apart(w, req[v].id, req[v].ip)

\* How far a create has got: the row, then the entry, then its keys.
CreateProgress ==
    \A w \in Workers :
        /\ Stored(w) => RowOf(w) \in rows
        /\ phase[w] = "publish" => ~ HasSession(req[w].ip)
        /\ phase[w] = "setkeys" =>
              sessions[req[w].ip] = [id |-> req[w].id, keys |-> {}, expires |-> req[w].expires]
        /\ phase[w] = "readback" =>
              sessions[req[w].ip] = [id |-> req[w].id, keys |-> req[w].refs, expires |-> req[w].expires]

\* What a delete looked up is still there when it comes to remove it.
DeleteProgress ==
    \A w \in Workers :
        /\ Deleting(w) => HasSession(req[w].ip) /\ sessions[req[w].ip].id = req[w].id
        /\ phase[w] = "delentry" => ~ RowWithId(req[w].id) /\ ~ RowWithIp(req[w].ip)

StoreInv ==
    /\ TypeOK /\ UniqueRows
    /\ KeptApart /\ StoredApart
    /\ CreateProgress /\ DeleteProgress
    /\ Agreement

\* Steps that write neither table nor map nor anybody's phase leave it all.
LEMMA InvStutter ==
    ASSUME StoreInv, UNCHANGED <<rows, sessions, phase, req>>, TypeOK'
    PROVE  StoreInv'
BY DEF StoreInv, UniqueRows, KeptApart, StoredApart, CreateProgress, DeleteProgress,
       Agreement, Deleting, Apart, Stored, RowOf, HasSession, RowWithId, RowWithIp,
       EntryMatches

\* What a step of one worker says of all of them, without its EXCEPTs.
Moves(w, next) ==
    /\ phase'[w] = next
    /\ \A v \in Workers \ {w} : phase'[v] = phase[v] /\ req'[v] = req[v]

\* A worker that becomes idle, except from between its two writes, leaves the
\* table and the map as they are.
LEMMA InvRelease ==
    ASSUME StoreInv, TypeOK', NEW w \in Workers, Moves(w, "idle"),
           UNCHANGED <<rows, sessions>>, phase[w] \notin {"publish", "delentry"}
    PROVE  StoreInv'
<1> USE DEF StoreInv, Moves
<1>1. UniqueRows'
    BY DEF UniqueRows
<1>2. KeptApart'
    BY DEF KeptApart, Deleting, Apart
<1>3. StoredApart'
    BY DEF StoredApart, Stored, Apart
<1>4. CreateProgress'
    BY DEF CreateProgress, Stored, RowOf, HasSession
<1>5. DeleteProgress'
    BY DEF DeleteProgress, Deleting, HasSession, RowWithId, RowWithIp
<1>6. Agreement'
    BY DEF Agreement, EntryMatches, HasSession
<1> QED BY <1>1, <1>2, <1>3, <1>4, <1>5, <1>6

\* The INSERT of a create keeps the invariant: the row it adds has no entry yet, and
\* its own request is what explains it until the entry is published.
LEMMA InvInsertRow ==
    ASSUME StoreInv, TypeOK', UniqueRows', NEW w \in Workers, InsertRow(w)
    PROVE  StoreInv'
<1>1. CASE Answer(w, "internal_error") /\ UNCHANGED rows
  <2>1. Moves(w, "idle") /\ UNCHANGED <<rows, sessions>> /\ phase[w] = "insert"
      BY <1>1 DEF InsertRow, Answer, Moves, StoreInv, TypeOK
  <2> QED BY <2>1, InvRelease
<1>2. CASE ~ Duplicate(req[w]) /\ Continue(w, "publish") /\ rows' = rows \union {RowOf(w)}
  <2>1. /\ Moves(w, "publish") /\ phase[w] = "insert" /\ req'[w] = req[w]
        /\ rows' = rows \union {RowOf(w)} /\ sessions' = sessions
      BY <1>2 DEF InsertRow, Continue, Moves, RowOf, StoreInv, TypeOK
  <2>2. \A row \in rows : row.id # req[w].id /\ row.ip # req[w].ip
      BY <1>2 DEF Duplicate, RowWithId, RowWithIp
  <2>3. ~ HasSession(req[w].ip)
    <3> SUFFICES ASSUME HasSession(req[w].ip) PROVE FALSE
        OBVIOUS
    <3>1. req[w].ip \in Ips
        BY DEF StoreInv, TypeOK, Request
    <3>2. PICK v \in Workers : phase[v] = "delentry" /\ req[v].ip = req[w].ip
        BY <2>2, <3>1 DEF StoreInv, Agreement, EntryMatches
    <3> QED BY <2>1, <3>2 DEF StoreInv, KeptApart, Deleting, Apart
  <2> USE <2>1 DEF StoreInv, Moves
  <2>4. KeptApart'
      BY DEF KeptApart, Deleting, Apart
  <2>5. StoredApart'
    <3>1. \A v \in Workers \ {w} : Stored(v) => req[v].id # req[w].id /\ req[v].ip # req[w].ip
        BY <2>2 DEF CreateProgress, RowOf
    <3> QED BY <3>1 DEF StoredApart, Stored, Apart
  <2>6. CreateProgress'
      BY <2>3 DEF CreateProgress, Stored, RowOf, HasSession
  <2>7. DeleteProgress'
      BY DEF DeleteProgress, Deleting, HasSession, RowWithId, RowWithIp, KeptApart, Apart, RowOf
  <2>8. Agreement'
    <3>1. \A ip \in Ips : HasSession(ip)' =>
            \/ \E row \in rows' : EntryMatches(ip, row)'
            \/ \E v \in Workers : phase'[v] = "delentry" /\ req'[v].ip = ip
        BY DEF Agreement, EntryMatches, HasSession
    <3>2. \A row \in rows' :
            \/ EntryMatches(row.ip, row)'
            \/ \E v \in Workers :
                  phase'[v] = "publish" /\ req'[v].id = row.id /\ req'[v].ip = row.ip
        BY DEF Agreement, EntryMatches, HasSession, RowOf
    <3> QED BY <3>1, <3>2 DEF Agreement
  <2> QED BY <2>4, <2>5, <2>6, <2>7, <2>8
<1> QED BY <1>1, <1>2 DEF InsertRow, RowOf

\* The insertion into the map keeps the invariant: the row of the entry is there, and
\* no delete of that id or address is on its way to remove it.
LEMMA InvPublishEntry ==
    ASSUME StoreInv, TypeOK', UniqueRows', NEW w \in Workers, PublishEntry(w)
    PROVE  StoreInv'
<1> DEFINE here == req[w].ip
           new  == [id |-> req[w].id, keys |-> {}, expires |-> req[w].expires]
<1>1. /\ phase[w] = "publish" /\ req[w] \in Request /\ here \in Ips
      /\ phase'[w] = IF req[w].refs = {} THEN "readback" ELSE "setkeys"
      /\ Moves(w, phase'[w]) /\ req' = req /\ rows' = rows
    BY DEF PublishEntry, Continue, Moves, StoreInv, TypeOK, Request
<1>2. /\ sessions'[here] = new
      /\ \A ip \in Ips \ {here} : sessions'[ip] = sessions[ip]
    BY <1>1 DEF PublishEntry, StoreInv, TypeOK
<1>3. new # NoSession /\ new.id = req[w].id /\ new.keys = {} /\ new.expires = req[w].expires
    BY <1>1, NoSessionAssumption DEF Entry, Request
<1> HIDE DEF new
<1> USE <1>1 DEF StoreInv, Moves
<1>4. KeptApart'
    BY DEF KeptApart, Deleting, Apart
<1>5. StoredApart'
    BY DEF StoredApart, Stored, Apart
<1>6. CreateProgress'
  <2> SUFFICES ASSUME NEW v \in Workers PROVE
        /\ Stored(v)' => RowOf(v)' \in rows'
        /\ phase'[v] = "publish" => ~ HasSession(req[v].ip)'
        /\ phase'[v] = "setkeys" => sessions'[req[v].ip] =
              [id |-> req[v].id, keys |-> {}, expires |-> req[v].expires]
        /\ phase'[v] = "readback" => sessions'[req[v].ip] =
              [id |-> req[v].id, keys |-> req[v].refs, expires |-> req[v].expires]
      BY DEF CreateProgress
  <2>1. CASE v = w
      BY <1>2, <2>1 DEF CreateProgress, Stored, RowOf, new
  <2>2. CASE v # w
    <3>1. Stored(v) => req[v].ip # here
        BY <2>2 DEF StoredApart, Stored, Apart
    <3>2. req[v].ip \in Ips
        BY DEF TypeOK, Request
    <3> QED BY <1>2, <2>2, <3>1, <3>2 DEF CreateProgress, Stored, RowOf, HasSession
  <2> QED BY <2>1, <2>2
<1>7. DeleteProgress'
  <2> SUFFICES ASSUME NEW v \in Workers, Deleting(v)' PROVE
        /\ HasSession(req[v].ip)' /\ sessions'[req[v].ip].id = req[v].id
        /\ phase'[v] = "delentry" => ~ RowWithId(req[v].id) /\ ~ RowWithIp(req[v].ip)
      BY DEF DeleteProgress, RowWithId, RowWithIp, Deleting
  <2>1. v # w /\ Deleting(v) /\ req[v].ip # here /\ req[v].ip \in Ips
      BY DEF Deleting, KeptApart, Apart, TypeOK, Request
  <2> QED BY <1>2, <2>1 DEF DeleteProgress, HasSession, Deleting
<1>8. Agreement'
  <2>1. RowOf(w) \in rows
      BY DEF CreateProgress, Stored
  <2>2. \A ip \in Ips : HasSession(ip)' =>
          \/ \E row \in rows' : EntryMatches(ip, row)'
          \/ \E v \in Workers : phase'[v] = "delentry" /\ req'[v].ip = ip
    <3> TAKE ip \in Ips
    <3>1. CASE ip = here
        BY <1>2, <1>3, <2>1, <3>1 DEF EntryMatches, HasSession, RowOf
    <3>2. CASE ip # here
        BY <1>2, <3>2 DEF Agreement, EntryMatches, HasSession
    <3> QED BY <3>1, <3>2
  <2>3. \A row \in rows' :
          \/ EntryMatches(row.ip, row)'
          \/ \E v \in Workers :
                phase'[v] = "publish" /\ req'[v].id = row.id /\ req'[v].ip = row.ip
    <3> TAKE row \in rows'
    <3>0. row.ip \in Ips
        BY DEF TypeOK, Row
    <3>1. CASE row.ip = here
      <4>1. row = RowOf(w)
          BY <2>1, <3>1 DEF UniqueRows, RowOf
      <4> QED BY <1>2, <1>3, <3>1, <4>1 DEF EntryMatches, HasSession, RowOf
    <3>2. CASE row.ip # here
        BY <1>2, <3>0, <3>2 DEF Agreement, EntryMatches, HasSession
    <3> QED BY <3>1, <3>2
  <2> QED BY <2>2, <2>3 DEF Agreement
<1> QED BY <1>4, <1>5, <1>6, <1>7, <1>8

\* The scan for the session of a create finds the one it has just published.
LEMMA KeysFindTheirSession ==
    ASSUME StoreInv, NEW w \in Workers, phase[w] = "setkeys"
    PROVE  Holding(req[w].id) = {req[w].ip}
<1> DEFINE here == req[w].ip
<1>1. here \in Ips /\ req[w] \in Request /\ RowOf(w) \in rows
      /\ sessions[here] = [id |-> req[w].id, keys |-> {}, expires |-> req[w].expires]
    BY DEF StoreInv, TypeOK, CreateProgress, Stored, Request
<1>2. HasSession(here) /\ sessions[here].id = req[w].id
    BY <1>1, NoSessionAssumption DEF HasSession, Entry, Request
<1> SUFFICES ASSUME NEW ip \in Ips, HasSession(ip), sessions[ip].id = req[w].id
             PROVE  ip = here
    BY <1>1, <1>2 DEF Holding
<1>3. CASE \E row \in rows : EntryMatches(ip, row)
    BY <1>1, <1>3 DEF EntryMatches, StoreInv, UniqueRows, RowOf
<1>4. ASSUME NEW v \in Workers, phase[v] = "delentry", req[v].ip = ip PROVE FALSE
  <2>1. req[v].id = req[w].id
      BY <1>4 DEF StoreInv, DeleteProgress, Deleting
  <2> QED BY <1>4, <2>1 DEF StoreInv, KeptApart, Deleting, Apart
<1> QED BY <1>3, <1>4 DEF StoreInv, Agreement

\* set_key_map keeps the invariant: it finds the entry of its own request and changes
\* only the keys.
LEMMA InvSetKeyMap ==
    ASSUME StoreInv, TypeOK', UniqueRows', NEW w \in Workers, SetKeyMap(w)
    PROVE  StoreInv'
<1> DEFINE here == req[w].ip
           new  == [id |-> req[w].id, keys |-> req[w].refs, expires |-> req[w].expires]
<1>1. /\ phase[w] = "setkeys" /\ req[w] \in Request /\ here \in Ips
      /\ Moves(w, "readback") /\ req' = req /\ rows' = rows
    BY DEF SetKeyMap, Continue, Moves, StoreInv, TypeOK, Request
<1>2. /\ sessions[here] = [id |-> req[w].id, keys |-> {}, expires |-> req[w].expires]
      /\ RowOf(w) \in rows
    BY <1>1 DEF StoreInv, CreateProgress, Stored
<1>3. HasSession(here) /\ sessions[here].id = req[w].id
    BY <1>1, <1>2, NoSessionAssumption DEF HasSession, Entry, Request
<1>4. Holding(req[w].id) = {here}
    BY <1>1, KeysFindTheirSession
<1>5. /\ sessions'[here] = new
      /\ \A ip \in Ips \ {here} : sessions'[ip] = sessions[ip]
    BY <1>1, <1>2, <1>4 DEF SetKeyMap, StoreInv, TypeOK
<1>6. new # NoSession /\ new.id = req[w].id /\ new.expires = req[w].expires
    BY <1>1, NoSessionAssumption DEF Entry, Request
<1> USE <1>1 DEF StoreInv, Moves
<1>7. KeptApart'
    BY DEF KeptApart, Deleting, Apart
<1>8. StoredApart'
    BY DEF StoredApart, Stored, Apart
<1>9. CreateProgress'
  <2> SUFFICES ASSUME NEW v \in Workers PROVE
        /\ Stored(v)' => RowOf(v)' \in rows'
        /\ phase'[v] = "publish" => ~ HasSession(req[v].ip)'
        /\ phase'[v] = "setkeys" => sessions'[req[v].ip] =
              [id |-> req[v].id, keys |-> {}, expires |-> req[v].expires]
        /\ phase'[v] = "readback" => sessions'[req[v].ip] =
              [id |-> req[v].id, keys |-> req[v].refs, expires |-> req[v].expires]
      BY DEF CreateProgress
  <2>1. CASE v = w
      BY <1>2, <1>5, <2>1 DEF Stored, RowOf
  <2>2. CASE v # w
    <3>1. Stored(v) => req[v].ip # here
        BY <2>2 DEF StoredApart, Stored, Apart
    <3>2. req[v].ip \in Ips
        BY DEF TypeOK, Request
    <3> QED BY <1>5, <2>2, <3>1, <3>2 DEF CreateProgress, Stored, RowOf, HasSession
  <2> QED BY <2>1, <2>2
<1>10. DeleteProgress'
  <2> SUFFICES ASSUME NEW v \in Workers, Deleting(v)' PROVE
        /\ HasSession(req[v].ip)' /\ sessions'[req[v].ip].id = req[v].id
        /\ phase'[v] = "delentry" => ~ RowWithId(req[v].id) /\ ~ RowWithIp(req[v].ip)
      BY DEF DeleteProgress, RowWithId, RowWithIp, Deleting
  <2>1. v # w /\ Deleting(v) /\ req[v].ip # here /\ req[v].ip \in Ips
      BY DEF Deleting, KeptApart, Apart, TypeOK, Request
  <2> QED BY <1>5, <2>1 DEF DeleteProgress, HasSession, Deleting
<1>11. Agreement'
  <2>1. \A ip \in Ips : HasSession(ip)' = HasSession(ip)
      BY <1>3, <1>5, <1>6 DEF HasSession
  <2>2. \A ip \in Ips : HasSession(ip) =>
            sessions'[ip].id = sessions[ip].id /\ sessions'[ip].expires = sessions[ip].expires
      BY <1>2, <1>5, <1>6
  <2>3. \A row \in rows : row.ip \in Ips
      BY DEF TypeOK, Row
  <2> QED BY <2>1, <2>2, <2>3 DEF Agreement, EntryMatches
<1> QED BY <1>7, <1>8, <1>9, <1>10, <1>11

\* A worker that sets out on a request touches neither table nor map: what has
\* to be shown is that the request keeps apart, and that it stands at its start.
LEMMA InvSetOut ==
    ASSUME StoreInv, TypeOK', UNCHANGED <<rows, sessions>>,
           NEW w \in Workers, phase[w] = "idle",
           NEW next \in {"insert", "delrow"}, Moves(w, next),
           \A v \in Workers \ {w} : Deleting(v) => Apart(v, req'[w].id, req'[w].ip),
           next = "delrow" =>
               /\ HasSession(req'[w].ip) /\ sessions[req'[w].ip].id = req'[w].id
               /\ \A v \in Workers \ {w} :
                      phase[v] # "idle" => Apart(v, req'[w].id, req'[w].ip)
    PROVE  StoreInv'
<1> USE DEF StoreInv, Moves
<1>1. UniqueRows'
    BY DEF UniqueRows
<1>2. KeptApart'
    BY DEF KeptApart, Deleting, Apart
<1>3. StoredApart'
    BY DEF StoredApart, Stored, Apart
<1>4. CreateProgress'
    BY DEF CreateProgress, Stored, RowOf, HasSession
<1>5. DeleteProgress'
    BY DEF DeleteProgress, Deleting, HasSession, RowWithId, RowWithIp
<1>6. Agreement'
    BY DEF Agreement, EntryMatches, HasSession
<1> QED BY <1>1, <1>2, <1>3, <1>4, <1>5, <1>6

\* A request that begins, or is answered at once, keeps the invariant.
LEMMA InvBegin ==
    ASSUME Isolated, StoreInv, TypeOK', NEW w \in Workers, Begin(w)
    PROVE  StoreInv'
<1> USE DEF Answer, Moves
<1>1. CASE RejectBody(w) \/ \E id \in Ids : GetSession(w, id)
  <2>1. Moves(w, "idle") /\ UNCHANGED <<rows, sessions>> /\ phase[w] = "idle"
      BY <1>1 DEF RejectBody, GetSession, StoreInv, TypeOK
  <2> QED BY <2>1, InvRelease
<1>2. ASSUME NEW r \in Requests, BeginCreate(w, r) PROVE StoreInv'
  <2>1. /\ UNCHANGED <<rows, sessions>> /\ phase[w] = "idle" /\ req'[w] = r
        /\ Moves(w, "idle") \/ Moves(w, "insert")
      BY <1>2 DEF BeginCreate, StoreInv, TypeOK
  <2>2. \A v \in Workers : Deleting(v) => Apart(v, r.id, r.ip)
      BY <1>2, Isolated DEF BeginCreate, MayCreate
  <2> QED BY <2>1, <2>2, InvRelease, InvSetOut
<1>3. ASSUME NEW id \in Ids, BeginDelete(w, id) PROVE StoreInv'
  <2>1. CASE Moves(w, "idle")
    <3>1. UNCHANGED <<rows, sessions>> /\ phase[w] = "idle"
        BY <1>3 DEF BeginDelete
    <3> QED BY <2>1, <3>1, InvRelease
  <2>2. ASSUME NEW ip \in Holding(id), MayDelete(id, ip), phase' = [phase EXCEPT ![w] = "delrow"],
               req' = [req EXCEPT ![w] = [id |-> id, ip |-> ip, refs |-> {}, expires |-> NoExpiry]]
        PROVE  StoreInv'
    <3>1. /\ UNCHANGED <<rows, sessions>> /\ phase[w] = "idle" /\ Moves(w, "delrow")
          /\ req'[w].id = id /\ req'[w].ip = ip
        BY <1>3, <2>2 DEF BeginDelete, StoreInv, TypeOK
    <3>2. HasSession(ip) /\ sessions[ip].id = id
        BY DEF Holding
    <3>3. \A v \in Workers : phase[v] # "idle" => Apart(v, id, ip)
        BY <2>2, Isolated DEF MayDelete
    <3> QED BY <3>1, <3>2, <3>3, InvSetOut DEF Deleting
  <2> QED BY <1>3, <2>1, <2>2 DEF BeginDelete, StoreInv, TypeOK
<1> QED BY <1>1, <1>2, <1>3 DEF Begin

\* The DELETE of the row keeps the invariant: its entry is now one being deleted.
LEMMA InvDeleteRow ==
    ASSUME StoreInv, TypeOK', UniqueRows', NEW w \in Workers, DeleteRow(w)
    PROVE  StoreInv'
<1>0. CASE Answer(w, "internal_error") /\ UNCHANGED rows
  <2>1. Moves(w, "idle") /\ UNCHANGED <<rows, sessions>> /\ phase[w] = "delrow"
      BY <1>0 DEF DeleteRow, Answer, Moves, StoreInv, TypeOK
  <2> QED BY <2>1, InvRelease
<1> SUFFICES ASSUME Continue(w, "delentry"), rows' = {row \in rows : row.id # req[w].id}
             PROVE  StoreInv'
    BY <1>0 DEF DeleteRow
<1>1. /\ phase[w] = "delrow" /\ Moves(w, "delentry")
      /\ req' = req /\ sessions' = sessions
      /\ rows' = {row \in rows : row.id # req[w].id}
    BY DEF DeleteRow, Continue, Moves, StoreInv, TypeOK
<1> USE <1>1 DEF StoreInv, Moves
<1>2. KeptApart'
    BY DEF KeptApart, Deleting, Apart
<1>3. StoredApart'
    BY DEF StoredApart, Stored, Apart
<1>4. CreateProgress'
  <2>1. \A v \in Workers : Stored(v) => req[v].id # req[w].id
      BY DEF KeptApart, Deleting, Stored, Apart
  <2> QED BY <2>1 DEF CreateProgress, Stored, RowOf, HasSession
<1>5. \A row \in rows : row.id = req[w].id <=> row.ip = req[w].ip
  <2>1. HasSession(req[w].ip) /\ sessions[req[w].ip].id = req[w].id /\ req[w].ip \in Ips
      BY DEF DeleteProgress, Deleting, TypeOK, Request
  <2>2. PICK own \in rows : EntryMatches(req[w].ip, own)
      BY <2>1 DEF Agreement, KeptApart, Deleting, Apart
  <2> QED BY <2>1, <2>2 DEF UniqueRows, EntryMatches
<1>6. DeleteProgress'
    BY <1>5 DEF DeleteProgress, Deleting, HasSession, RowWithId, RowWithIp
<1>7. Agreement'
  <2>1. \A ip \in Ips : HasSession(ip)' =>
          \/ \E row \in rows' : EntryMatches(ip, row)'
          \/ \E v \in Workers : phase'[v] = "delentry" /\ req'[v].ip = ip
      BY <1>5 DEF Agreement, EntryMatches, HasSession
  <2>2. \A row \in rows' :
          \/ EntryMatches(row.ip, row)'
          \/ \E v \in Workers :
                phase'[v] = "publish" /\ req'[v].id = row.id /\ req'[v].ip = row.ip
      BY DEF Agreement, EntryMatches, HasSession
  <2> QED BY <2>1, <2>2 DEF Agreement
<1> QED BY <1>2, <1>3, <1>4, <1>6, <1>7

\* map.remove(&source_ip) keeps the invariant: the entry at the address is the one whose
\* row has gone, as nobody else has used the address meanwhile.
LEMMA InvDeleteEntry ==
    ASSUME StoreInv, TypeOK', UniqueRows', NEW w \in Workers, DeleteEntry(w)
    PROVE  StoreInv'
<1> DEFINE here == req[w].ip
<1>1. /\ phase[w] = "delentry" /\ Moves(w, "idle") /\ here \in Ips
      /\ req' = req /\ rows' = rows
      /\ sessions'[here] = NoSession
      /\ \A ip \in Ips \ {here} : sessions'[ip] = sessions[ip]
    BY DEF DeleteEntry, Answer, Moves, StoreInv, TypeOK, Request
<1> USE <1>1 DEF StoreInv, Moves
<1>2. KeptApart'
    BY DEF KeptApart, Deleting, Apart
<1>3. StoredApart'
    BY DEF StoredApart, Stored, Apart
<1>4. \A v \in Workers \ {w} : phase[v] # "idle" => req[v].ip # here /\ req[v].ip \in Ips
    BY DEF KeptApart, Deleting, Apart, TypeOK, Request
<1>5. CreateProgress'
    BY <1>4 DEF CreateProgress, Stored, RowOf, HasSession
<1>6. DeleteProgress'
    BY <1>4 DEF DeleteProgress, Deleting, HasSession, RowWithId, RowWithIp
<1>7. Agreement'
  <2>1. \A ip \in Ips : HasSession(ip)' =>
          \/ \E row \in rows' : EntryMatches(ip, row)'
          \/ \E v \in Workers : phase'[v] = "delentry" /\ req'[v].ip = ip
      BY DEF Agreement, EntryMatches, HasSession
  <2>2. \A row \in rows' :
          \/ EntryMatches(row.ip, row)'
          \/ \E v \in Workers :
                phase'[v] = "publish" /\ req'[v].id = row.id /\ req'[v].ip = row.ip
    <3>1. \A row \in rows : row.ip # here /\ row.ip \in Ips
        BY DEF DeleteProgress, RowWithIp, TypeOK, Row
    <3> QED BY <3>1 DEF Agreement, EntryMatches, HasSession
  <2> QED BY <2>1, <2>2 DEF Agreement
<1> QED BY <1>2, <1>3, <1>5, <1>6, <1>7

\* A restart keeps the invariant: the map is built from the rows, and nobody is at work.
LEMMA InvRestart ==
    ASSUME StoreInv, TypeOK', UniqueRows', Restart
    PROVE  StoreInv'
<1>1. /\ \A w \in Workers : phase'[w] = "idle"
      /\ sessions' = Loaded(rows') /\ rows' \subseteq Row
    BY DEF Restart, StoreInv, TypeOK
<1>2. KeptApart' /\ StoredApart' /\ CreateProgress' /\ DeleteProgress'
    BY <1>1 DEF KeptApart, StoredApart, CreateProgress, DeleteProgress, Deleting, Stored
<1>3. Agreement'
  <2>1. ASSUME NEW row \in rows'
        PROVE  row.ip \in Ips /\ sessions'[row.ip] = [id |-> row.id, keys |-> {}, expires |-> row.expires]
    <3>1. row.ip \in Ips
        BY <1>1 DEF Row
    <3>2. (CHOOSE r \in rows' : r.ip = row.ip) = row
        BY DEF UniqueRows
    <3> QED BY <1>1, <3>1, <3>2 DEF Loaded
  <2>2. ASSUME NEW ip \in Ips, HasSession(ip)' PROVE \E row \in rows' : row.ip = ip
      BY <1>1, <2>2 DEF HasSession, Loaded
  <2>3. \A row \in rows' : EntryMatches(row.ip, row)'
    <3> TAKE row \in rows'
    <3>1. [id |-> row.id, keys |-> {}, expires |-> row.expires] \in Entry
        BY <1>1 DEF Row, Entry
    <3> QED BY <2>1, <3>1, NoSessionAssumption DEF EntryMatches, HasSession
  <2> QED BY <2>2, <2>3 DEF Agreement
<1> QED BY <1>2, <1>3 DEF StoreInv

\* The inductive invariant, for clients that keep deletes apart.
LEMMA InvHolds ==
    ASSUME Isolated
    PROVE  Spec => []StoreInv
<1>1. Init => StoreInv
  <2> SUFFICES ASSUME Init PROVE StoreInv
      OBVIOUS
  <2>1. TypeOK
      BY RequestsAssumption DEF Init, TypeOK
  <2> QED BY <2>1 DEF Init, StoreInv, UniqueRows, KeptApart, StoredApart, CreateProgress,
             DeleteProgress, Agreement, Deleting, Stored, HasSession
<1>2. StoreInv /\ [Next]_vars => StoreInv'
  <2> SUFFICES ASSUME StoreInv, [Next]_vars PROVE StoreInv'
      OBVIOUS
  <2>1. TypeOK' /\ UniqueRows'
      BY TypeStep, UniqueRowsStep DEF StoreInv
  <2>2. ASSUME NEW w \in Workers, Begin(w) PROVE StoreInv'
      BY <2>1, <2>2, Isolated, InvBegin
  <2>3. ASSUME NEW w \in Workers, Advance(w) PROVE StoreInv'
    <3>1. CASE ReadBack(w)
      <4>1. Moves(w, "idle") /\ UNCHANGED <<rows, sessions>> /\ phase[w] = "readback"
          BY <3>1 DEF ReadBack, Answer, Moves, StoreInv, TypeOK
      <4> QED BY <2>1, <4>1, InvRelease
    <3> QED BY <2>1, <2>3, <3>1, InvInsertRow, InvPublishEntry, InvSetKeyMap,
               InvDeleteRow, InvDeleteEntry DEF Advance
  <2>4. CASE Restart
      BY <2>1, <2>4, InvRestart
  <2>5. CASE Tick \/ UNCHANGED vars
      BY <2>1, <2>5, InvStutter DEF Tick, vars
  <2> QED BY <2>2, <2>3, <2>4, <2>5 DEF Next
<1> QED BY <1>1, <1>2, PTL DEF Spec

\* If no delete overlaps a request for its session or its address, table and
\* map agree except about the session that a request is between writing twice.
THEOREM AgreementHolds ==
    ASSUME Isolated
    PROVE  Spec => []Agreement
<1>1. StoreInv => Agreement
    BY DEF StoreInv
<1> QED BY <1>1, InvHolds, PTL

-----------------------------------------------------------------------------
(***************************************************************************)
(* Refinement: the store implements SessionRegistry when no delete overlaps *)
(* another request for its session or its address.  The argument is the     *)
(* invariant StoreInv and one lemma per action, which names the step of the *)
(* registry that the action is, or shows that it is none.                   *)
(***************************************************************************)

\* The refinement mapping of `call'.
Call == [w \in Workers |-> [stage |-> Stage(w), request |-> req[w]]]

\* The call of the registry that stands for a worker.
LEMMA CallAt ==
    ASSUME NEW w \in Workers
    PROVE  Registry!Stage(w) = Stage(w) /\ Registry!Request(w) = req[w]
BY DEF Registry!Stage, Registry!Request

\* A step of w that keeps its request moves w's stage and nothing else.
LEMMA CallMoves ==
    ASSUME NEW w \in Workers, TypeOK, TypeOK', Moves(w, phase'[w]), req' = req
    PROVE  Call' = [Call EXCEPT ![w].stage = Stage(w)']
<1>1. \A v \in Workers \ {w} : Stage(v)' = Stage(v)
    BY DEF Moves, Stage
<1> QED BY <1>1 DEF Call

\* Any step of w at most replaces w's own call.
LEMMA CallReplaced ==
    ASSUME NEW w \in Workers, TypeOK, TypeOK', Moves(w, phase'[w])
    PROVE  Call' = [Call EXCEPT ![w] = [stage |-> Stage(w)', request |-> req'[w]]]
<1>1. \A v \in Workers \ {w} : Stage(v)' = Stage(v) /\ req'[v] = req[v]
    BY DEF Moves, Stage
<1> QED BY <1>1 DEF Call

\* What a row says of the map, in words of the registry: its id or address is
\* taken, or a create that has not come to the map yet asks for it.
LEMMA RowMeansContested ==
    ASSUME StoreInv, NEW w \in Workers, NEW r \in Request, Duplicate(r),
           phase[w] # "publish"
    PROVE  Registry!Contested(w, r)
<1>1. PICK row \in rows : row.id = r.id \/ row.ip = r.ip
    BY DEF Duplicate, RowWithId, RowWithIp
<1>2. row.ip \in Ips
    BY DEF StoreInv, TypeOK, Row
<1>3. CASE EntryMatches(row.ip, row)
    BY <1>1, <1>2, <1>3 DEF EntryMatches, HasSession, Registry!Contested, Registry!Free,
                            Registry!Known, Registry!Present
<1>4. ASSUME NEW v \in Workers, phase[v] = "publish", req[v].id = row.id, req[v].ip = row.ip
      PROVE  Registry!Contested(w, r)
  <2>1. v \in Workers \ {w} /\ Registry!Stage(v) = "asked" /\ Registry!Request(v) = req[v]
      BY <1>4, CallAt DEF Stage
  <2> QED BY <1>1, <1>4, <2>1 DEF Registry!Contested
<1> QED BY <1>3, <1>4 DEF StoreInv, Agreement

\* The registry holds no entry for a create that has its row but not its entry.
LEMMA PublishIsFree ==
    ASSUME StoreInv, NEW w \in Workers, phase[w] = "publish"
    PROVE  Registry!Free(req[w])
<1>1. RowOf(w) \in rows /\ ~ HasSession(req[w].ip)
    BY DEF StoreInv, CreateProgress, Stored
<1>2. ASSUME NEW ip \in Ips, HasSession(ip), sessions[ip].id = req[w].id PROVE FALSE
  <2>1. CASE \E row \in rows : EntryMatches(ip, row)
      BY <1>1, <1>2, <2>1 DEF EntryMatches, StoreInv, UniqueRows, RowOf
  <2>2. ASSUME NEW v \in Workers, phase[v] = "delentry", req[v].ip = ip PROVE FALSE
    <3>1. req[v].id = req[w].id
        BY <1>2, <2>2 DEF StoreInv, DeleteProgress, Deleting
    <3> QED BY <2>2, <3>1 DEF StoreInv, KeptApart, Deleting, Apart
  <2> QED BY <1>2, <2>1, <2>2 DEF StoreInv, Agreement
<1> QED BY <1>1, <1>2 DEF Registry!Free, Registry!Known, Registry!Present, HasSession
-----------------------------------------------------------------------------
(* One lemma per action *)

\* A rejected body is a refusal.
LEMMA RefineRejectBody ==
    ASSUME StoreInv, TypeOK', NEW w \in Workers, RejectBody(w)
    PROVE  Registry!Refuse(w)
<1>1. Call' = Call /\ Registry!Idle(w)
    BY CallAt DEF RejectBody, Answer, Call, Stage, Registry!Idle, StoreInv, TypeOK
<1>2. reply' = [reply EXCEPT ![w] = "bad_request"] /\ UNCHANGED <<sessions, now>>
    BY DEF RejectBody, Answer
<1>3. PICK r \in Requests : TRUE
    BY RequestsAssumption
<1> QED BY <1>1, <1>2, <1>3 DEF Registry!Refuse, Call

\* The duplicate check either refuses or accepts the create as asked for.
LEMMA RefineBeginCreate ==
    ASSUME Isolated, StoreInv, TypeOK', NEW w \in Workers, NEW r \in Requests,
           BeginCreate(w, r)
    PROVE  Registry!Refuse(w) \/ Registry!AskCreate(w)
<1>1. /\ phase[w] = "idle" /\ req'[w] = r /\ Moves(w, phase'[w]) /\ r \in Request
      /\ UNCHANGED <<sessions, now>>
    BY RequestsAssumption DEF BeginCreate, Answer, Moves, StoreInv, TypeOK
<1>2. Registry!Idle(w)
    BY <1>1, CallAt DEF Registry!Idle, Stage
<1>3. Call' = [Call EXCEPT ![w] = [stage |-> Stage(w)', request |-> r]]
    BY <1>1, CallReplaced DEF StoreInv
<1>4. CASE phase'[w] = "idle"
  <2>1. Call' = [Call EXCEPT ![w].request = r]
      BY <1>1, <1>3, <1>4 DEF Call, Stage
  <2>2. PICK status \in {"unprocessable", "conflict"} :
          reply' = [reply EXCEPT ![w] = status] /\ (status = "conflict" => Duplicate(r))
      BY <1>4 DEF BeginCreate, Answer, StoreInv, TypeOK
  <2>3. status = "conflict" => Registry!Contested(w, r)
      BY <1>1, <2>2, RowMeansContested
  <2> QED BY <1>1, <1>2, <2>1, <2>2, <2>3 DEF Registry!Refuse, Call
<1>5. CASE phase'[w] # "idle"
  <2>1. /\ phase'[w] = "insert" /\ ~ Duplicate(r)
        /\ reply' = [reply EXCEPT ![w] = "none"]
      BY <1>5 DEF BeginCreate, Answer, StoreInv, TypeOK
  <2>2. \A v \in Workers : Deleting(v) => Apart(v, r.id, r.ip)
      BY Isolated DEF BeginCreate, MayCreate
  <2>3. Registry!Free(r)
    <3>1. ASSUME NEW ip \in Ips, HasSession(ip), sessions[ip].id = r.id \/ ip = r.ip
          PROVE  FALSE
      <4>1. CASE \E row \in rows : EntryMatches(ip, row)
          BY <2>1, <3>1, <4>1 DEF EntryMatches, Duplicate, RowWithId, RowWithIp
      <4>2. ASSUME NEW v \in Workers, phase[v] = "delentry", req[v].ip = ip PROVE FALSE
          BY <2>2, <3>1, <4>2 DEF Deleting, Apart, StoreInv, DeleteProgress
      <4> QED BY <3>1, <4>1, <4>2 DEF StoreInv, Agreement
    <3>2. r.ip \in Ips
        BY <1>1 DEF Request
    <3> QED BY <3>1, <3>2 DEF Registry!Free, Registry!Known, Registry!Present, HasSession
  <2>4. Stage(w)' = "asked"
      BY <2>1 DEF Stage
  <2> QED BY <1>1, <1>2, <1>3, <2>1, <2>3, <2>4 DEF Registry!AskCreate, Registry!Waiting, Call
<1> QED BY <1>4, <1>5

\* The scan of delete dooms the entry it finds, or refuses.
LEMMA RefineBeginDelete ==
    ASSUME StoreInv, TypeOK', NEW w \in Workers, NEW id \in Ids, BeginDelete(w, id)
    PROVE  Registry!AskDelete(w) \/ Registry!Look(w)
<1>1. /\ phase[w] = "idle" /\ UNCHANGED <<sessions, now>>
    BY DEF BeginDelete
<1>2. Registry!Idle(w)
    BY <1>1, CallAt DEF Registry!Idle, Stage
<1>3. ASSUME NEW ip \in Holding(id),
             req' = [req EXCEPT ![w] = [id |-> id, ip |-> ip, refs |-> {}, expires |-> NoExpiry]],
             phase' = [phase EXCEPT ![w] = "delrow"], reply' = [reply EXCEPT ![w] = "none"]
      PROVE  Registry!AskDelete(w)
  <2>1. Moves(w, phase'[w]) /\ Stage(w)' = "doomed" /\ req'[w] = Registry!Naming(ip)
      BY <1>3 DEF Moves, Stage, StoreInv, TypeOK, Holding, Registry!Naming
  <2>2. Call' = [Call EXCEPT ![w] = [stage |-> "doomed", request |-> Registry!Naming(ip)]]
      BY <2>1, CallReplaced DEF StoreInv
  <2>3. ip \in Ips /\ Registry!Present(ip)
      BY DEF Holding, HasSession, Registry!Present
  <2> QED BY <1>1, <1>2, <1>3, <2>2, <2>3 DEF Registry!AskDelete, Registry!Waiting, Call
<1>4. CASE Holding(id) = {} /\ Answer(w, "not_found") /\ UNCHANGED req
  <2>1. Call' = Call
      BY <1>1, <1>4 DEF Answer, Call, Stage, StoreInv, TypeOK
  <2>2. ~ Registry!Known(id)
      BY <1>4 DEF Holding, HasSession, Registry!Known, Registry!Present
  <2> QED BY <1>1, <1>2, <1>4, <2>1, <2>2 DEF Answer, Registry!Look, Call
<1> QED BY <1>3, <1>4 DEF BeginDelete

\* GET answers from the map, as the registry does from its entries.
LEMMA RefineGetSession ==
    ASSUME StoreInv, TypeOK', NEW w \in Workers, NEW id \in Ids, GetSession(w, id)
    PROVE  Registry!Look(w)
<1>1. Call' = Call /\ Registry!Idle(w) /\ UNCHANGED <<sessions, now>>
    BY CallAt DEF GetSession, Answer, Call, Stage, Registry!Idle, StoreInv, TypeOK
<1>2. Holding(id) = {} <=> ~ Registry!Known(id)
    BY DEF Holding, HasSession, Registry!Known, Registry!Present
<1> QED BY <1>1, <1>2 DEF GetSession, Answer, Registry!Look, Call

\* The INSERT is invisible when it succeeds; it fails in a lost race, or by itself.
LEMMA RefineInsertRow ==
    ASSUME StoreInv, TypeOK', NEW w \in Workers, InsertRow(w)
    PROVE  Registry!Lose(w) \/ UNCHANGED Registry!vars
<1>1. /\ phase[w] = "insert" /\ Moves(w, phase'[w]) /\ req' = req
      /\ UNCHANGED <<sessions, now>> /\ req[w] \in Request
    BY DEF InsertRow, Answer, Continue, Moves, StoreInv, TypeOK
<1>2. Stage(w) = "asked" /\ Call' = [Call EXCEPT ![w].stage = Stage(w)']
    BY <1>1, CallMoves DEF Stage, StoreInv
<1>3. CASE (Duplicate(req[w]) \/ SqlErrors) /\ Answer(w, "internal_error")
  <2>1. Registry!Contested(w, req[w]) \/ SqlErrors
      BY <1>1, <1>3, RowMeansContested
  <2>2. Stage(w)' = "idle" /\ reply' = [reply EXCEPT ![w] = "internal_error"]
      BY <1>3 DEF InsertRow, Answer, Stage, StoreInv, TypeOK
  <2> QED BY <1>1, <1>2, <2>1, <2>2, CallAt DEF Registry!Lose, Registry!Answered, Call
<1>4. CASE Continue(w, "publish")
  <2>1. Stage(w)' = "asked" /\ reply' = reply
      BY <1>4 DEF InsertRow, Continue, Stage, StoreInv, TypeOK
  <2>2. Call' = Call
      BY <1>2, <2>1 DEF Call
  <2> QED BY <1>1, <2>1, <2>2 DEF Registry!vars, Call
<1> QED BY <1>3, <1>4 DEF InsertRow

\* The insertion into the map is the moment of registration.
LEMMA RefinePublishEntry ==
    ASSUME StoreInv, TypeOK', NEW w \in Workers, PublishEntry(w)
    PROVE  Registry!Register(w)
<1>1. /\ phase[w] = "publish" /\ Moves(w, phase'[w]) /\ req' = req
      /\ Stage(w) = "asked" /\ Stage(w)' = "registered" /\ UNCHANGED <<reply, now>>
      /\ sessions' = [sessions EXCEPT ![req[w].ip] =
            [id |-> req[w].id, keys |-> {}, expires |-> req[w].expires]]
    BY DEF PublishEntry, Continue, Moves, StoreInv, TypeOK, Stage
<1>2. Call' = [Call EXCEPT ![w].stage = "registered"]
    BY <1>1, CallMoves DEF StoreInv
<1> QED BY <1>1, <1>2, PublishIsFree, CallAt DEF Registry!Register, Registry!Fresh, Call

\* set_key_map is what equips the session with its keys.
LEMMA RefineSetKeyMap ==
    ASSUME StoreInv, TypeOK', NEW w \in Workers, SetKeyMap(w)
    PROVE  Registry!Equip(w)
<1>1. /\ phase[w] = "setkeys" /\ Moves(w, phase'[w]) /\ req' = req
      /\ Stage(w) = "registered" /\ Stage(w)' = "registered" /\ UNCHANGED <<reply, now>>
    BY DEF SetKeyMap, Continue, Moves, StoreInv, TypeOK, Stage
<1>2. Call' = Call
    BY <1>1, CallMoves DEF StoreInv, Call
<1>3. sessions[req[w].ip] = [id |-> req[w].id, keys |-> {}, expires |-> req[w].expires]
    BY <1>1 DEF StoreInv, CreateProgress
<1>4. Holding(req[w].id) = {req[w].ip}
    BY <1>1, KeysFindTheirSession
<1>5. sessions' = [sessions EXCEPT ![req[w].ip].keys = req[w].refs]
    BY <1>4 DEF SetKeyMap
<1> QED BY <1>1, <1>2, <1>3, <1>5, CallAt DEF Registry!Equip, Registry!Fresh, Call

\* get().unwrap() finds the entry, so that the create is confirmed.
LEMMA RefineReadBack ==
    ASSUME StoreInv, TypeOK', NEW w \in Workers, ReadBack(w)
    PROVE  Registry!Confirm(w)
<1> DEFINE entry == [id |-> req[w].id, keys |-> req[w].refs, expires |-> req[w].expires]
<1>1. /\ phase[w] = "readback" /\ Moves(w, phase'[w]) /\ req' = req /\ req[w] \in Request
      /\ Stage(w) = "registered" /\ Stage(w)' = "idle" /\ UNCHANGED <<sessions, now>>
    BY DEF ReadBack, Answer, Moves, StoreInv, TypeOK, Stage
<1>2. sessions[req[w].ip] = entry
    BY <1>1 DEF StoreInv, CreateProgress
<1>3. req[w].ip \in Holding(req[w].id)
    BY <1>1, <1>2, NoSessionAssumption DEF Holding, HasSession, Request, Entry
<1>4. reply' = [reply EXCEPT ![w] = "created"]
    BY <1>3 DEF ReadBack, Answer
<1>5. Call' = [Call EXCEPT ![w].stage = "idle"]
    BY <1>1, CallMoves DEF StoreInv
<1>6. entry = [Registry!Fresh(req[w]) EXCEPT !.keys = req[w].refs]
    BY DEF Registry!Fresh
<1> QED BY <1>1, <1>2, <1>4, <1>5, <1>6, CallAt DEF Registry!Confirm, Registry!Answered, Call

\* The DELETE of the row is invisible; when it fails the session is spared.
LEMMA RefineDeleteRow ==
    ASSUME StoreInv, TypeOK', NEW w \in Workers, DeleteRow(w)
    PROVE  Registry!Spare(w) \/ UNCHANGED Registry!vars
<1>1. /\ Moves(w, phase'[w]) /\ req' = req /\ Stage(w) = "doomed"
      /\ UNCHANGED <<sessions, now>>
    BY DEF DeleteRow, Answer, Continue, Moves, StoreInv, TypeOK, Stage
<1>2. CASE Continue(w, "delentry")
  <2>1. Stage(w)' = "doomed" /\ reply' = reply
      BY <1>2 DEF Continue, Stage, StoreInv, TypeOK
  <2>2. Call' = Call
      BY <1>1, <2>1, CallMoves DEF StoreInv, Call
  <2> QED BY <1>1, <2>1, <2>2 DEF Registry!vars, Call
<1>3. CASE SqlErrors /\ Answer(w, "internal_error")
  <2>1. Stage(w)' = "idle" /\ reply' = [reply EXCEPT ![w] = "internal_error"]
      BY <1>3 DEF Answer, Stage, StoreInv, TypeOK
  <2>2. Call' = [Call EXCEPT ![w].stage = "idle"]
      BY <1>1, <2>1, CallMoves DEF StoreInv
  <2> QED BY <1>1, <1>3, <2>1, <2>2, CallAt DEF Registry!Spare, Registry!Answered, Call
<1> QED BY <1>2, <1>3 DEF DeleteRow

\* map.remove is the moment of removal.
LEMMA RefineDeleteEntry ==
    ASSUME StoreInv, TypeOK', NEW w \in Workers, DeleteEntry(w)
    PROVE  Registry!Remove(w)
<1>1. /\ phase[w] = "delentry" /\ Moves(w, phase'[w]) /\ req' = req
      /\ Stage(w) = "doomed" /\ Stage(w)' = "idle" /\ now' = now
      /\ sessions' = [sessions EXCEPT ![req[w].ip] = NoSession]
      /\ reply' = [reply EXCEPT ![w] = "no_content"]
    BY DEF DeleteEntry, Answer, Moves, StoreInv, TypeOK, Stage
<1>2. Call' = [Call EXCEPT ![w].stage = "idle"]
    BY <1>1, CallMoves DEF StoreInv
<1>3. HasSession(req[w].ip) /\ sessions[req[w].ip].id = req[w].id
    BY <1>1 DEF StoreInv, DeleteProgress, Deleting
<1> QED BY <1>1, <1>2, <1>3, CallAt DEF Registry!Remove, Registry!Answered, Registry!Present,
                                     HasSession, Call

\* A restart: the rows that open keeps are those of the sessions that endure
\* and of creates that had come as far as their INSERT.
LEMMA RefineRestart ==
    ASSUME StoreInv, TypeOK', UniqueRows', Restart
    PROVE  Registry!Restart
<1> DEFINE entry(row) == [id |-> row.id, keys |-> {}, expires |-> row.expires]
<1>1. /\ rows' \subseteq rows /\ rows \subseteq Row /\ sessions' = Loaded(rows') /\ now' = now
      /\ \A row \in rows' : Durable /\ Unexpired(row)
      /\ \A row \in rows : Durable /\ Unexpired(row) => row \in rows'
    BY DEF Restart, StoreInv, TypeOK
<1>2. ASSUME NEW row \in rows'
      PROVE  row.ip \in Ips /\ sessions'[row.ip] = entry(row)
  <2>1. row.ip \in Ips
      BY <1>1 DEF Row
  <2>2. (CHOOSE r \in rows' : r.ip = row.ip) = row
      BY DEF UniqueRows
  <2> QED BY <1>1, <2>1, <2>2 DEF Loaded
<1>3. ASSUME NEW ip \in Ips, sessions'[ip] # NoSession
      PROVE  \E row \in rows' : row.ip = ip /\ sessions'[ip] = entry(row)
  <2>1. PICK row \in rows' : row.ip = ip
      BY <1>1, <1>3 DEF Loaded
  <2> QED BY <1>2, <2>1
<1>4. ASSUME NEW ip \in Ips PROVE sessions'[ip] \in Registry!Remains(ip)
  <2>1. CASE sessions'[ip] = NoSession
      BY <2>1 DEF Registry!Remains
  <2>2. ASSUME NEW row \in rows', row.ip = ip, sessions'[ip] = entry(row)
        PROVE  sessions'[ip] \in Registry!Remains(ip)
    <3>1. CASE EntryMatches(row.ip, row)
      <4>1. sessions[ip] \in Entry /\ Registry!Present(ip)
          BY <2>2, <3>1 DEF EntryMatches, HasSession, StoreInv, TypeOK, Registry!Present
      <4>2. [sessions[ip] EXCEPT !.keys = {}] = entry(row)
          BY <2>2, <3>1, <4>1 DEF EntryMatches, Entry
      <4> QED BY <2>2, <4>1, <4>2 DEF Registry!Remains
    <3>2. ASSUME NEW v \in Workers, phase[v] = "publish", req[v].id = row.id, req[v].ip = row.ip
          PROVE  sessions'[ip] \in Registry!Remains(ip)
      <4>1. RowOf(v) = row
          BY <1>1, <3>2 DEF StoreInv, CreateProgress, Stored, UniqueRows, RowOf
      <4>2. Registry!Fresh(req[v]) = entry(row)
          BY <4>1 DEF Registry!Fresh, RowOf
      <4>3. Registry!Stage(v) = "asked" /\ Registry!Request(v) = req[v]
          BY <3>2, CallAt DEF Stage
      <4> QED BY <2>2, <3>2, <4>2, <4>3 DEF Registry!Remains
    <3>3. \/ EntryMatches(row.ip, row)
          \/ \E v \in Workers :
                phase[v] = "publish" /\ req[v].id = row.id /\ req[v].ip = row.ip
      <4>1. row \in rows
          BY <1>1
      <4> QED BY <4>1 DEF StoreInv, Agreement
    <3> QED BY <3>1, <3>2, <3>3
  <2> QED BY <1>3, <2>1, <2>2
<1>5. ASSUME NEW ip \in Ips, Registry!Endures(ip)
      PROVE  sessions'[ip] = [sessions[ip] EXCEPT !.keys = {}]
  <2>1. /\ Durable /\ HasSession(ip) /\ Unexpired(sessions[ip]) /\ sessions[ip] \in Entry
        /\ \A w \in Workers : Deleting(w) => req[w].ip # ip
    <3>1. \A w \in Workers : Deleting(w) => Registry!Stage(w) = "doomed"
        BY CallAt DEF Deleting, Stage
    <3> QED BY <1>5, <3>1, CallAt DEF Registry!Endures, Registry!Present, Registry!Lives,
                              HasSession, Unexpired, StoreInv, TypeOK
  <2>2. PICK row \in rows : EntryMatches(ip, row)
      BY <2>1 DEF StoreInv, Agreement, Deleting
  <2>3. row \in rows' /\ row.ip = ip
      BY <1>1, <2>1, <2>2 DEF EntryMatches, Unexpired
  <2>4. sessions[ip] \in Entry
      BY <2>1
  <2>5. sessions[ip].id = row.id /\ sessions[ip].expires = row.expires
      BY <2>2 DEF EntryMatches
  <2>6. [sessions[ip] EXCEPT !.keys = {}] = entry(row)
      BY <2>4, <2>5 DEF Entry
  <2> QED BY <1>2, <2>3, <2>6
<1>6. ASSUME NEW ip \in Ips, sessions'[ip] # NoSession
      PROVE  Durable /\ Registry!Lives(sessions'[ip].expires)
  <2>1. PICK row \in rows' : row.ip = ip /\ sessions'[ip] = entry(row)
      BY <1>3, <1>6
  <2>2. Unexpired(row) /\ sessions'[ip].expires = row.expires
      BY <1>1, <2>1
  <2> QED BY <1>1, <2>1, <2>2 DEF Unexpired, Registry!Lives
<1>7. ASSUME NEW ip1 \in Ips, NEW ip2 \in Ips, sessions'[ip1] # NoSession,
             sessions'[ip2] # NoSession, sessions'[ip1].id = sessions'[ip2].id
      PROVE  ip1 = ip2
  <2>1. PICK row1 \in rows' : row1.ip = ip1 /\ sessions'[ip1] = entry(row1)
      BY <1>3, <1>7
  <2>2. PICK row2 \in rows' : row2.ip = ip2 /\ sessions'[ip2] = entry(row2)
      BY <1>3, <1>7
  <2> QED BY <1>7, <2>1, <2>2 DEF UniqueRows
<1>8. sessions' \in [Ips -> UNION {Registry!Remains(ip) : ip \in Ips}]
  <2>1. \A ip \in Ips : sessions'[ip] \in UNION {Registry!Remains(x) : x \in Ips}
      BY <1>4
  <2>2. sessions' = [ip \in Ips |-> sessions'[ip]]
      BY DEF TypeOK
  <2> QED BY <2>1, <2>2
<1>9. Call' = [w \in Workers |-> [Call[w] EXCEPT !.stage = "idle"]]
    BY DEF Restart, Call, Stage, StoreInv, TypeOK
<1>10. reply' = [w \in Workers |-> IF Registry!Idle(w) THEN reply[w] ELSE "dropped"]
  <2>1. \A w \in Workers : Registry!Idle(w) <=> phase[w] = "idle"
      BY CallAt DEF Registry!Idle, Stage, StoreInv, TypeOK, Phases
  <2> QED BY <2>1 DEF Restart
<1> QED BY <1>1, <1>4, <1>5, <1>6, <1>7, <1>8, <1>9, <1>10 DEF Registry!Restart,
           Registry!Present, Call

\* Under clients that keep deletes apart, every request of the session API
\* takes effect at one instant on a registry without duplicates, answers are
\* true of it, and a restart loses nothing but keys, expired sessions and
\* requests in progress: two locks, two stores and no transaction between
\* them are enough for that.
THEOREM StoreImplementsRegistry ==
    ASSUME Isolated
    PROVE  Spec => ImplementsRegistry
<1>1. Init => Registry!Init
    BY CallAt DEF Init, Registry!Init, Registry!Idle, Stage
<1>2. StoreInv /\ StoreInv' /\ [Next]_vars => [Registry!Next]_(Registry!vars)
  <2> SUFFICES ASSUME StoreInv, StoreInv', [Next]_vars
               PROVE  Registry!Next \/ UNCHANGED Registry!vars
      OBVIOUS
  <2> USE DEF Registry!Next
  <2>1. TypeOK' /\ UniqueRows'
      BY DEF StoreInv
  <2>2. ASSUME NEW w \in Workers, Begin(w) PROVE Registry!Next
      BY <2>1, <2>2, Isolated, RefineRejectBody, RefineBeginCreate, RefineBeginDelete,
         RefineGetSession DEF Begin
  <2>3. ASSUME NEW w \in Workers, Advance(w) PROVE Registry!Next \/ UNCHANGED Registry!vars
      BY <2>1, <2>3, RefineInsertRow, RefinePublishEntry, RefineSetKeyMap, RefineReadBack,
         RefineDeleteRow, RefineDeleteEntry DEF Advance
  <2>4. CASE Tick
      BY <2>4 DEF Tick, Registry!Elapse, Stage
  <2>5. CASE Restart
      BY <2>1, <2>5, RefineRestart
  <2>6. CASE UNCHANGED vars
      BY <2>6 DEF vars, Registry!vars, Stage
  <2> QED BY <2>2, <2>3, <2>4, <2>5, <2>6 DEF Next
<1> QED BY <1>1, <1>2, InvHolds, PTL DEF Spec, ImplementsRegistry, Registry!Spec

=============================================================================
