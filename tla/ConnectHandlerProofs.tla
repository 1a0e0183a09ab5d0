------------------------ MODULE ConnectHandlerProofs ------------------------
(***************************************************************************)
(* Theorems about ConnectHandler, for any number of calls, addresses, ids,  *)
(* VMs and tunnels: types, that a VM has its session while it runs, and     *)
(* that a tunnel works with the keys of its VM's session and no others.     *)
(***************************************************************************)
EXTENDS ConnectHandler, TLAPS

Creates(w) == calls[w].stage \in {"publish", "readback"}
Reads(w)   == calls[w].stage = "readback"
Deletes(w) == calls[w].stage \in {"delrow", "delentry"}
IdAt(w) == calls[w].id
IpAt(w) == calls[w].slot

\* The table has each id and address once, a create past its insert has its row,
\* and to itself, and no VM has its address.
RowsInv ==
    /\ \A r, q \in rows : r.id = q.id \/ r.slot = q.slot => r = q
    /\ \A w \in Workers : Creates(w) =>
          U!Session(IdAt(w), IpAt(w)) \in rows /\ \A v \in vms : v.slot # IpAt(w)
    /\ \A v, w \in Workers :
          Creates(v) /\ Creates(w) /\ (IdAt(v) = IdAt(w) \/ IpAt(v) = IpAt(w)) => v = w

\* At an address that is being registered, or has a VM, there is its own entry with
\* its own keys, or none yet, or no more.
UnsetKeys == \A w \in Workers : unset[w] # {} => Reads(w) /\ unset[w] = asked[IpAt(w)]

OwnEntry(id, ip) ==
    entries[ip] \in {NoId, id} /\ (keys[ip] = {} \/ keys[ip] = asked[ip])

ReadKeys == \A w \in Workers : Reads(w) => OwnEntry(IdAt(w), IpAt(w))
VmKeys == \A v \in vms : OwnEntry(v.id, v.slot) /\ (entries[v.slot] # NoId => v \in rows)
KeysInv == UnsetKeys /\ ReadKeys /\ VmKeys

\* The entry is there, and what may be about to remove it has the row to delete first.
Safe(id, ip) ==
    /\ entries[ip] = id
    /\ \A w \in Workers : Deletes(w) /\ IpAt(w) = ip =>
          calls[w].stage = "delrow" /\ IdAt(w) = id

\* Where nothing was left over, the entry is the only one of its id while its keys
\* are to be set, and is safe from then on.
UnspoiledInv ==
    /\ \A w \in Workers : Reads(w) /\ IpAt(w) \notin spoiled =>
          /\ Safe(IdAt(w), IpAt(w))
          /\ \A ip \in Ips \ {IpAt(w)} : entries[ip] # IdAt(w)
          /\ unset[w] = {} => keys[IpAt(w)] = asked[IpAt(w)]
    /\ \A v \in vms : v.slot \notin spoiled =>
          Safe(v.id, v.slot) /\ keys[v.slot] = asked[v.slot]

\* What a tunnel has in hand: the keys of its VM, or none of a spoiled session.
TunnelKeys ==
    \A t \in Tunnels :
        /\ (tunnel[t].keys = {} \/ tunnel[t].keys = tunnel[t].owed)
        /\ tunnel[t].stage \in Open \union {"refused"} /\ ~ tunnel[t].late =>
              tunnel[t].keys = tunnel[t].owed
        /\ tunnel[t].stage = "refused" => tunnel[t].named \notin tunnel[t].keys

SessionInv == RowsInv /\ KeysInv /\ UnspoiledInv
ConnectInv == TypeOK /\ SessionInv /\ TunnelKeys

-----------------------------------------------------------------------------
(* Types *)

CallStates == [stage : U!Stages, id : Ids \union {NoId}, slot : Ips \union {NoIp}]

TunnelStates == [stage : Stages, owed : SUBSET Refs, keys : SUBSET Refs,
                 named : Refs \union {NoRef}, late : BOOLEAN]

LEMMA TypeInit == Init => TypeOK
BY DEF Init, TypeOK, U!Init, U!NoCall, U!CallAt, U!Stages, Without, Stages

\* A call moves to one of its stages.
LEMMA AdvanceType ==
    ASSUME TypeOK, NEW w \in Workers, NEW from, NEW c \in CallStates, U!Advance(w, from, c)
    PROVE  calls' \in [Workers -> CallStates]
BY DEF TypeOK, CallStates, U!Advance

LEMMA TypeCreate ==
    ASSUME TypeOK, NEW w \in Workers, NEW id \in Ids, NEW ip \in Ips, Create(w, id, ip)
    PROVE  TypeOK'
<1>1. calls' \in [Workers -> CallStates]
  <2>1. \A stage \in U!Stages : U!CallAt(stage, id, ip) \in CallStates
      BY DEF U!CallAt, CallStates
  <2>2. U!NoCall \in CallStates
      BY DEF U!NoCall, U!CallAt, CallStates, U!Stages
  <2>3. CASE InsertRow(w, id, ip)
      BY <2>1, <2>3, AdvanceType DEF InsertRow, Plain, U!Insert, U!Stages
  <2>4. CASE Publish(w, id, ip)
      BY <2>1, <2>4, AdvanceType DEF Publish, Publish_, U!Publish, U!Stages
  <2>5. CASE Confirm(w, id, ip)
      BY <2>2, <2>5, AdvanceType DEF Confirm, Plain, U!Confirm
  <2> QED BY <2>3, <2>4, <2>5 DEF Create
<1>2. CASE InsertRow(w, id, ip)
    BY <1>1, <1>2 DEF InsertRow, Plain, U!Insert, U!Session, Sessions, TypeOK, CallStates
<1>3. CASE Publish(w, id, ip)
  <2>1. PICK refs \in Wanted[id] :
            asked' = [asked EXCEPT ![ip] = refs] /\ unset' = [unset EXCEPT ![w] = refs]
      BY <1>3 DEF Publish, Publish_
  <2>2. refs \in SUBSET Refs
      BY WantedAssumption
  <2>3. /\ entries' = [entries EXCEPT ![ip] = id]
        /\ keys' = [keys EXCEPT ![ip] = {}]
        /\ UNCHANGED <<rows, vms, tunnel>>
      BY <1>3 DEF Publish, Publish_, U!Publish
  <2>4. spoiled' \subseteq Ips
      BY <1>3 DEF Publish, Publish_, TypeOK
  <2>5. \A x \in Ips : entries'[x] = NoId => keys'[x] = {}
      BY <2>3 DEF TypeOK
  <2> QED BY <1>1, <2>1, <2>2, <2>3, <2>4, <2>5 DEF TypeOK, CallStates
<1>4. CASE Confirm(w, id, ip)
    BY <1>1, <1>4 DEF Confirm, Plain, U!Confirm, U!Session, Sessions, TypeOK, CallStates
<1> QED BY <1>2, <1>3, <1>4 DEF Create

LEMMA TypeDelete ==
    ASSUME TypeOK, NEW w \in Workers, NEW id \in Ids, NEW ip \in Ips, Delete(w, id, ip)
    PROVE  TypeOK'
<1>1. calls' \in [Workers -> CallStates]
  <2>1. \A stage \in U!Stages : U!CallAt(stage, id, ip) \in CallStates
      BY DEF U!CallAt, CallStates
  <2>2. U!NoCall \in CallStates
      BY DEF U!NoCall, U!CallAt, CallStates, U!Stages
  <2>3. CASE FindEntry(w, id, ip)
      BY <2>1, <2>3, AdvanceType DEF FindEntry, Plain, U!Find, U!Stages
  <2>4. CASE DeleteRow(w, id, ip)
      BY <2>1, <2>4, AdvanceType DEF DeleteRow, Plain, U!DeleteRow, U!Stages
  <2>5. CASE DeleteEntry(w, id, ip)
      BY <2>2, <2>5, AdvanceType DEF DeleteEntry, U!DeleteEntry
  <2> QED BY <2>3, <2>4, <2>5 DEF Delete
<1>2. CASE FindEntry(w, id, ip) \/ DeleteRow(w, id, ip)
    BY <1>1, <1>2 DEF FindEntry, DeleteRow, Plain, U!Find, U!DeleteRow, TypeOK, CallStates
<1>3. CASE DeleteEntry(w, id, ip)
    BY <1>1, <1>3 DEF DeleteEntry, U!DeleteEntry, TypeOK, CallStates
<1> QED BY <1>2, <1>3 DEF Delete

\* A tunnel goes on to one of its stages, with what it has in hand, or without.
LEMMA TypeTunnel ==
    ASSUME TypeOK, NEW t \in Tunnels, Proceed(t) \/ Drop(t) \/ Swap(t) \/ Upgrade(t)
    PROVE  TypeOK'
<1>1. tunnel \in [Tunnels -> TunnelStates]
    BY DEF TypeOK, TunnelStates
<1>2. tunnel' \in [Tunnels -> TunnelStates]
  <2>1. CASE Proceed(t)
    <3>1. After[tunnel[t].stage] \in Stages
        BY <2>1 DEF Proceed, After, Stages, Open
    <3> QED BY <1>1, <2>1, <3>1 DEF Proceed, TunnelStates
  <2>2. CASE Drop(t)
      BY <1>1, <2>2 DEF Drop, Without, TunnelStates, Stages
  <2>3. CASE Swap(t)
    <3>1. PICK ref \in Refs \union {NoRef}, stage \in {"copy", "refused"} :
              tunnel' = [tunnel EXCEPT ![t].named = ref, ![t].stage = stage]
        BY <2>3 DEF Swap
    <3>2. tunnel[t] \in TunnelStates /\ stage \in Stages
        BY <1>1 DEF Stages, Open
    <3>3. [tunnel[t] EXCEPT !.named = ref, !.stage = stage] \in TunnelStates
        BY <3>2 DEF TunnelStates
    <3> QED BY <1>1, <3>1, <3>3
  <2>4. CASE Upgrade(t)
      BY <1>1, <2>4 DEF Upgrade, TunnelStates, Stages, Open
  <2> QED BY <2>1, <2>2, <2>3, <2>4
<1>3. UNCHANGED api
    BY DEF Proceed, Drop, Swap, Upgrade
<1> QED BY <1>2, <1>3 DEF TypeOK, TunnelStates, api, use

LEMMA TypeStep == TypeOK /\ RowsInv /\ KeysInv /\ [Next]_vars => TypeOK'
<1> SUFFICES ASSUME TypeOK, RowsInv, KeysInv, [Next]_vars PROVE TypeOK'
    OBVIOUS
<1>1. ASSUME NEW w \in Workers, NEW id \in Ids, Call(w, id) PROVE TypeOK'
  <2>1. \A s \in Ips \union {NoIp}, stage \in U!Stages : U!CallAt(stage, id, s) \in CallStates
      BY DEF U!CallAt, CallStates
  <2>2. calls' \in [Workers -> CallStates]
      BY <1>1, <2>1, AdvanceType DEF Call, Plain, U!Begin, U!Stages
  <2> QED BY <1>1, <2>2 DEF Call, Plain, U!Begin, U!SomeStop, TypeOK, CallStates
<1>2. ASSUME NEW w \in Workers, End(w) PROVE TypeOK'
  <2>1. U!NoCall \in CallStates
      BY DEF U!NoCall, U!CallAt, CallStates, U!Stages
  <2>2. calls' \in [Workers -> CallStates]
      BY <1>2, <2>1, AdvanceType DEF End, Plain, U!End
  <2> QED BY <1>2, <2>2 DEF End, Plain, U!End, U!SomeStop, TypeOK, CallStates
<1>3. ASSUME NEW w \in Workers, NEW id \in Ids, NEW ip \in Ips, Create(w, id, ip) PROVE TypeOK'
    BY <1>3, TypeCreate
<1>4. ASSUME NEW w \in Workers, NEW id \in Ids, NEW ip \in Ips, Delete(w, id, ip) PROVE TypeOK'
    BY <1>4, TypeDelete
<1>5. ASSUME NEW w \in Workers, SetKeys(w) PROVE TypeOK'
  <2>1. unset' = [unset EXCEPT ![w] = {}] /\ UNCHANGED <<use, asked, spoiled, tunnel>>
      BY <1>5 DEF SetKeys
  <2>2. \/ keys' = keys
        \/ \E ip \in Ips : entries[ip] = calls[w].id /\ keys' = [keys EXCEPT ![ip] = unset[w]]
      BY <1>5 DEF SetKeys
  <2>3. calls[w].id # NoId
    <3>1. Creates(w)
        BY <1>5 DEF SetKeys, KeysInv, UnsetKeys, Reads, Creates
    <3>2. U!Session(IdAt(w), IpAt(w)) \in Sessions
        BY <3>1 DEF RowsInv, TypeOK
    <3> QED BY <3>2, NoIdAssumption DEF U!Session, Sessions, IdAt
  <2> QED BY <1>5, <2>1, <2>2, <2>3 DEF TypeOK, use
<1>6. CASE VmsEnd
    BY <1>6 DEF VmsEnd, Plain, U!Stop, U!SomeStop, TypeOK
<1>7. ASSUME NEW t \in Tunnels, Connect(t) PROVE TypeOK'
  <2>1. PICK v \in vms, domain \in Domains :
            Forbid(t, v.slot, domain) \/ Admit(t, v.slot, domain)
      BY <1>7 DEF Connect
  <2>2. v.slot \in Ips
      BY DEF TypeOK, Sessions
  <2>3. tunnel' \in [Tunnels -> TunnelStates]
    <3>1. CASE Forbid(t, v.slot, domain)
        BY <3>1 DEF Forbid, Without, TypeOK, TunnelStates, Stages
    <3>2. CASE Admit(t, v.slot, domain)
        BY <2>2, <3>2 DEF Admit, TypeOK, TunnelStates, Stages, Open, After
    <3> QED BY <2>1, <3>1, <3>2
  <2> QED BY <1>7, <2>3 DEF Connect, api, use, TypeOK, TunnelStates
<1>8. ASSUME NEW t \in Tunnels, Proceed(t) \/ Drop(t) \/ Swap(t) \/ Upgrade(t) PROVE TypeOK'
    BY <1>8, TypeTunnel
<1>9. CASE ProxyRestarts
  <2>1. tunnel' \in [Tunnels -> TunnelStates]
      BY <1>9 DEF ProxyRestarts, Without, TypeOK, TunnelStates, Stages
  <2>2. calls' \in [Workers -> CallStates]
      BY <1>9 DEF ProxyRestarts, U!Lose, U!NoCall, U!CallAt, CallStates, U!Stages
  <2> QED BY <1>9, <2>1, <2>2 DEF ProxyRestarts, U!Lose, TypeOK, TunnelStates, CallStates
<1>10. CASE UNCHANGED vars
    BY <1>10 DEF vars, api, use, TypeOK
<1> QED BY <1>1, <1>2, <1>3, <1>4, <1>5, <1>6, <1>7, <1>8, <1>9, <1>10
        DEF Next, Manager, Tunnel

-----------------------------------------------------------------------------
(* Sessions and VMs *)

LEMMA ConnectInit == Init => ConnectInv
BY TypeInit DEF Init, U!Init, U!NoCall, U!CallAt, ConnectInv, SessionInv, RowsInv, KeysInv,
   UnsetKeys, ReadKeys, VmKeys, OwnEntry,
   UnspoiledInv, Creates, Reads, Deletes, TunnelKeys, Without, Open, After

\* A call that creates has an id and an address of its own kind.
LEMMA CreateTypes ==
    ASSUME TypeOK, RowsInv, NEW w \in Workers, Creates(w)
    PROVE  IdAt(w) \in Ids /\ IpAt(w) \in Ips
BY DEF TypeOK, RowsInv, Sessions, U!Session

\* A call that is made, or ends, or is past its insert, disturbs no session: the
\* VMs that are left keep theirs.
LEMMA SessionsQuiet ==
    ASSUME SessionInv, vms' \subseteq vms,
           UNCHANGED <<rows, entries, keys, unset, asked, spoiled>>,
           \A w \in Workers :
               \/ calls'[w] = calls[w]
               \/ ~ Creates(w)' /\ ~ Deletes(w)' /\ unset[w] = {}
    PROVE  SessionInv'
<1> USE DEF SessionInv, Creates, Reads, Deletes, IdAt, IpAt
<1>1. RowsInv'
    BY DEF RowsInv
<1>2. KeysInv'
    BY DEF KeysInv, UnsetKeys, ReadKeys, VmKeys, OwnEntry
<1>3. UnspoiledInv'
    BY DEF UnspoiledInv, Safe
<1> QED BY <1>1, <1>2, <1>3

LEMMA SessionsInsert ==
    ASSUME TypeOK, SessionInv, NEW w \in Workers, NEW id \in Ids, NEW ip \in Ips,
           InsertRow(w, id, ip)
    PROVE  SessionInv'
<1> USE DEF SessionInv, Creates, Reads, Deletes, IdAt, IpAt
<1>1. /\ calls' = [calls EXCEPT ![w] = U!CallAt("publish", id, ip)]
      /\ calls[w].stage = "insert"
      /\ U!Free(id, ip) /\ ~ U!Held(ip)
      /\ rows' = rows \union {U!Session(id, ip)}
      /\ UNCHANGED <<entries, vms, keys, unset, asked, spoiled>>
    BY DEF InsertRow, Plain, U!Insert, U!Advance, U!CallAt
<1>2. /\ calls'[w] = U!CallAt("publish", id, ip)
      /\ \A v \in Workers \ {w} : calls'[v] = calls[v]
    BY <1>1 DEF TypeOK
<1>3. RowsInv'
  <2>1. \A v \in Workers : Creates(v) => IdAt(v) # id /\ IpAt(v) # ip
      BY <1>1 DEF RowsInv, U!Free, U!Session
  <2>2. \A r, q \in rows' : r.id = q.id \/ r.slot = q.slot => r = q
      BY <1>1 DEF RowsInv, U!Free, U!Session
  <2>3. \A v \in Workers : Creates(v)' =>
            U!Session(IdAt(v)', IpAt(v)') \in rows' /\ \A x \in vms' : x.slot # IpAt(v)'
    <3>1. CASE TRUE
      <4> TAKE v \in Workers
      <4>1. CASE v = w
          BY <1>1, <1>2, <4>1 DEF U!CallAt, U!Session, U!Held
      <4>2. CASE v # w
          BY <1>1, <1>2, <4>2 DEF RowsInv
      <4> QED BY <4>1, <4>2
    <3> QED BY <3>1
  <2>4. \A u, v \in Workers :
            Creates(u)' /\ Creates(v)' /\ (IdAt(u)' = IdAt(v)' \/ IpAt(u)' = IpAt(v)') => u = v
      BY <1>2, <2>1 DEF RowsInv, U!CallAt
  <2> QED BY <2>2, <2>3, <2>4 DEF RowsInv
<1>4. KeysInv'
    BY <1>1, <1>2 DEF KeysInv, UnsetKeys, ReadKeys, VmKeys, OwnEntry, U!CallAt
<1>5. UnspoiledInv'
    BY <1>1, <1>2 DEF UnspoiledInv, Safe, U!CallAt
<1> QED BY <1>3, <1>4, <1>5

LEMMA SessionsPublish ==
    ASSUME TypeOK, SessionInv, NEW w \in Workers, NEW id \in Ids, NEW ip \in Ips,
           Publish(w, id, ip)
    PROVE  SessionInv'
<1> USE DEF Creates, Reads, Deletes, IdAt, IpAt
<1>1. /\ calls[w] = U!CallAt("publish", id, ip)
      /\ calls' = [calls EXCEPT ![w] = U!CallAt("readback", id, ip)]
      /\ entries' = [entries EXCEPT ![ip] = id]
      /\ keys' = [keys EXCEPT ![ip] = {}]
      /\ spoiled' = IF Leftovers(id, ip) THEN spoiled \union {ip} ELSE spoiled \ {ip}
      /\ UNCHANGED <<rows, vms>>
    BY DEF Publish, Publish_, U!Publish, U!Advance
<1>2. PICK refs :
          asked' = [asked EXCEPT ![ip] = refs] /\ unset' = [unset EXCEPT ![w] = refs]
    BY DEF Publish, Publish_
<1>3. /\ calls'[w] = U!CallAt("readback", id, ip)
      /\ \A v \in Workers \ {w} : calls'[v] = calls[v] /\ unset'[v] = unset[v]
      /\ unset'[w] = refs
      /\ entries'[ip] = id /\ keys'[ip] = {} /\ asked'[ip] = refs
      /\ \A x \in Ips \ {ip} :
            entries'[x] = entries[x] /\ keys'[x] = keys[x] /\ asked'[x] = asked[x]
    BY <1>1, <1>2 DEF TypeOK
<1>4. /\ \A v \in Workers \ {w} : Creates(v) => IpAt(v) \in Ips \ {ip} /\ IdAt(v) # id
      /\ \A v \in vms : v.slot \in Ips \ {ip}
  <2>1. Creates(w) /\ IdAt(w) = id /\ IpAt(w) = ip
      BY <1>1 DEF U!CallAt
  <2>2. \A v \in Workers : Creates(v) => IpAt(v) \in Ips
      BY CreateTypes DEF SessionInv
  <2>3. \A v \in vms : v.slot \in Ips
      BY DEF TypeOK, Sessions
  <2> QED BY <2>1, <2>2, <2>3 DEF SessionInv, RowsInv
<1>5. RowsInv'
  <2>1. \A v \in Workers : Creates(v)' = Creates(v) /\ IdAt(v)' = IdAt(v) /\ IpAt(v)' = IpAt(v)
      BY <1>1, <1>3 DEF U!CallAt
  <2> QED BY <1>1, <2>1 DEF SessionInv, RowsInv
<1>6. KeysInv'
  <2>1. ASSUME NEW v \in Workers, Reads(v)' PROVE OwnEntry(IdAt(v), IpAt(v))'
    <3>1. CASE v = w
        BY <1>3, <3>1 DEF OwnEntry, U!CallAt
    <3>2. CASE v # w
        BY <1>3, <1>4, <2>1, <3>2 DEF SessionInv, KeysInv, ReadKeys, OwnEntry
    <3> QED BY <3>1, <3>2
  <2>2. ASSUME NEW v \in Workers, unset'[v] # {}
        PROVE  Reads(v)' /\ unset'[v] = asked'[IpAt(v)']
    <3>1. CASE v = w
        BY <1>3, <3>1 DEF U!CallAt
    <3>2. CASE v # w
      <4>1. Reads(v) /\ unset[v] = asked[IpAt(v)]
          BY <1>3, <2>2, <3>2 DEF SessionInv, KeysInv, UnsetKeys
      <4> QED BY <1>3, <1>4, <3>2, <4>1
    <3> QED BY <3>1, <3>2
  <2>3. VmKeys'
      BY <1>1, <1>3, <1>4 DEF SessionInv, KeysInv, VmKeys, OwnEntry
  <2> QED BY <2>1, <2>2, <2>3 DEF KeysInv, UnsetKeys, ReadKeys
<1>7. UnspoiledInv'
  <2>1. ip \notin spoiled' => ~ Leftovers(id, ip)
      BY <1>1
  <2>2. \A x \in Ips \ {ip} : x \in spoiled' <=> x \in spoiled
      BY <1>1
  <2>3. \A x, i : x \in Ips \ {ip} /\ Safe(i, x) => Safe(i, x)'
      BY <1>1, <1>3 DEF Safe, U!CallAt
  <2>4. ASSUME NEW v \in Workers, Reads(v)', IpAt(v)' \notin spoiled'
        PROVE  /\ Safe(IdAt(v), IpAt(v))'
               /\ \A x \in Ips \ {IpAt(v)'} : entries'[x] # IdAt(v)'
               /\ unset'[v] = {} => keys'[IpAt(v)'] = asked'[IpAt(v)']
    <3>1. CASE v = w
      <4>1. calls'[v].id = id /\ calls'[v].slot = ip /\ ~ Leftovers(id, ip)
          BY <1>3, <2>1, <2>4, <3>1 DEF U!CallAt
      <4>2. \A x \in Workers : Deletes(x)' => x # w /\ IpAt(x)' # ip
          BY <1>3, <4>1 DEF Leftovers, U!CallAt
      <4>3. Safe(IdAt(v), IpAt(v))'
          BY <1>3, <4>1, <4>2 DEF Safe
      <4>4. \A x \in Ips \ {ip} : entries'[x] # id
          BY <1>3, <4>1 DEF Leftovers
      <4> QED BY <1>3, <3>1, <4>1, <4>3, <4>4
    <3>2. CASE v # w
        BY <1>1, <1>3, <1>4, <2>2, <2>3, <2>4, <3>2 DEF SessionInv, UnspoiledInv
    <3> QED BY <3>1, <3>2
  <2>5. \A v \in vms' : v.slot \notin spoiled' =>
            Safe(v.id, v.slot)' /\ keys'[v.slot] = asked'[v.slot]
      BY <1>1, <1>3, <1>4, <2>2, <2>3 DEF SessionInv, UnspoiledInv
  <2> QED BY <2>4, <2>5 DEF UnspoiledInv
<1> QED BY <1>5, <1>6, <1>7 DEF SessionInv

LEMMA SessionsSetKeys ==
    ASSUME TypeOK, SessionInv, NEW w \in Workers, SetKeys(w)
    PROVE  SessionInv'
<1> USE DEF Creates, Reads, Deletes, IdAt, IpAt
<1>1. /\ unset[w] # {} /\ unset' = [unset EXCEPT ![w] = {}]
      /\ UNCHANGED <<rows, entries, vms, calls, asked, spoiled>>
      /\ \/ keys' = keys /\ \A ip \in Ips : entries[ip] # IdAt(w)
         \/ \E ip \in Ips : entries[ip] = IdAt(w) /\ keys' = [keys EXCEPT ![ip] = unset[w]]
    BY DEF SetKeys, use
<1>2. /\ Reads(w) /\ unset[w] = asked[IpAt(w)]
      /\ IdAt(w) \in Ids /\ IpAt(w) \in Ips
    BY <1>1, CreateTypes DEF SessionInv, KeysInv, UnsetKeys
<1>3. unset'[w] = {} /\ \A v \in Workers \ {w} : unset'[v] = unset[v]
    BY <1>1 DEF TypeOK
\* Whoever else's entry it may be, it is one that nobody looks to.
<1>4. /\ \A v \in Workers \ {w} : Reads(v) => IpAt(v) # IpAt(w) /\ entries[IpAt(v)] # IdAt(w)
      /\ \A v \in vms : v.slot # IpAt(w) /\ entries[v.slot] # IdAt(w)
  <2>1. IdAt(w) # NoId
      BY <1>2, NoIdAssumption
  <2>2. \A v \in Workers \ {w} : Reads(v) => IpAt(v) # IpAt(w) /\ IdAt(v) # IdAt(w)
      BY <1>2 DEF SessionInv, RowsInv
  <2>3. ASSUME NEW v \in vms PROVE v.slot # IpAt(w) /\ entries[v.slot] # IdAt(w)
    <3>1. v.slot # IpAt(w) /\ U!Session(IdAt(w), IpAt(w)) \in rows
        BY <1>2 DEF SessionInv, RowsInv
    <3>2. v \in rows => v.id # IdAt(w)
        BY <3>1 DEF SessionInv, RowsInv, U!Session
    <3> QED BY <2>1, <3>1, <3>2 DEF SessionInv, KeysInv, VmKeys, OwnEntry
  <2> QED BY <2>1, <2>2, <2>3 DEF SessionInv, KeysInv, ReadKeys, OwnEntry
<1>5. \A v \in Workers \ {w} : Reads(v) => keys'[IpAt(v)] = keys[IpAt(v)]
  <2>1. \A v \in Workers : Reads(v) => IpAt(v) \in Ips
      BY CreateTypes DEF SessionInv
  <2> QED BY <1>1, <1>4, <2>1 DEF TypeOK
<1>6. \A v \in vms : keys'[v.slot] = keys[v.slot]
    BY <1>1, <1>4 DEF TypeOK, Sessions
<1>7. keys'[IpAt(w)] \in {keys[IpAt(w)], asked[IpAt(w)]}
    BY <1>1, <1>2 DEF TypeOK
<1>8. IpAt(w) \notin spoiled => keys'[IpAt(w)] = asked[IpAt(w)]
  <2> SUFFICES ASSUME IpAt(w) \notin spoiled PROVE keys'[IpAt(w)] = asked[IpAt(w)]
      OBVIOUS
  <2>1. entries[IpAt(w)] = IdAt(w) /\ \A ip \in Ips \ {IpAt(w)} : entries[ip] # IdAt(w)
      BY <1>2 DEF SessionInv, UnspoiledInv, Safe
  <2> QED BY <1>1, <1>2, <2>1 DEF TypeOK
<1>9. RowsInv'
    BY <1>1 DEF SessionInv, RowsInv
<1>10. KeysInv'
    BY <1>1, <1>3, <1>5, <1>6, <1>7
       DEF SessionInv, KeysInv, UnsetKeys, ReadKeys, VmKeys, OwnEntry
<1>11. UnspoiledInv'
    BY <1>1, <1>3, <1>5, <1>6, <1>8 DEF SessionInv, UnspoiledInv, Safe
<1> QED BY <1>9, <1>10, <1>11 DEF SessionInv

LEMMA SessionsConfirm ==
    ASSUME TypeOK, SessionInv, NEW w \in Workers, NEW id \in Ids, NEW ip \in Ips,
           Confirm(w, id, ip)
    PROVE  SessionInv'
<1> USE DEF Creates, Reads, Deletes, IdAt, IpAt
<1>1. /\ calls[w] = U!CallAt("readback", id, ip) /\ unset[w] = {}
      /\ calls' = [calls EXCEPT ![w] = U!NoCall]
      /\ vms' \in {vms, vms \union {U!Session(id, ip)}}
      /\ UNCHANGED <<rows, entries, keys, unset, asked, spoiled>>
    BY DEF Confirm, Plain, U!Confirm, U!Advance
<1>2. /\ ~ Creates(w)' /\ ~ Deletes(w)'
      /\ \A v \in Workers \ {w} : calls'[v] = calls[v]
    BY <1>1 DEF TypeOK, U!NoCall, U!CallAt
<1>3. Creates(w) /\ Reads(w) /\ IdAt(w) = id /\ IpAt(w) = ip
    BY <1>1 DEF U!CallAt
<1>4. \A v \in vms' : v \in vms \/ (v = U!Session(id, ip) /\ v.id = id /\ v.slot = ip)
    BY <1>1 DEF U!Session
<1>5. RowsInv'
  <2>1. \A v \in Workers : Creates(v)' => v # w /\ Creates(v) /\ IpAt(v) # ip
      BY <1>2, <1>3 DEF SessionInv, RowsInv
  <2> QED BY <1>1, <1>2, <1>4, <2>1 DEF SessionInv, RowsInv
<1>6. KeysInv'
  <2>1. \A v \in vms' : OwnEntry(v.id, v.slot) /\ (entries[v.slot] # NoId => v \in rows)
      BY <1>3, <1>4 DEF SessionInv, RowsInv, KeysInv, ReadKeys, VmKeys
  <2>2. \A v \in Workers : unset[v] # {} => v # w
      BY <1>1
  <2>3. \A v \in Workers : Reads(v)' => v # w
      BY <1>2
  <2>4. VmKeys'
      BY <1>1, <2>1 DEF VmKeys, OwnEntry
  <2>5. UnsetKeys' /\ ReadKeys'
      BY <1>1, <1>2, <2>2, <2>3 DEF SessionInv, KeysInv, UnsetKeys, ReadKeys, OwnEntry
  <2> QED BY <2>4, <2>5 DEF KeysInv
<1>7. UnspoiledInv'
  <2>1. \A x, i : Safe(i, x) => Safe(i, x)'
      BY <1>1, <1>2 DEF Safe
  <2>2. \A v \in vms' : v.slot \notin spoiled =>
            Safe(v.id, v.slot) /\ keys[v.slot] = asked[v.slot]
      BY <1>1, <1>3, <1>4 DEF SessionInv, UnspoiledInv
  <2> QED BY <1>1, <1>2, <2>1, <2>2 DEF SessionInv, UnspoiledInv
<1> QED BY <1>5, <1>6, <1>7 DEF SessionInv

LEMMA SessionsFind ==
    ASSUME TypeOK, SessionInv, NEW w \in Workers, NEW id \in Ids, NEW ip \in Ips,
           FindEntry(w, id, ip)
    PROVE  SessionInv'
<1> USE DEF Creates, Reads, Deletes, IdAt, IpAt
<1>1. /\ calls[w].stage = "find"
      /\ calls' = [calls EXCEPT ![w] = U!CallAt("delrow", id, ip)]
      /\ entries[ip] = id
      /\ UNCHANGED <<rows, entries, vms, keys, unset, asked, spoiled>>
    BY DEF FindEntry, Plain, U!Find, U!Advance, U!CallAt
<1>2. /\ calls'[w] = U!CallAt("delrow", id, ip)
      /\ \A v \in Workers \ {w} : calls'[v] = calls[v]
    BY <1>1 DEF TypeOK
<1>3. /\ ~ Creates(w) /\ ~ Creates(w)'
      /\ \A v \in Workers : Creates(v)' => v # w /\ Creates(v)
    BY <1>1, <1>2 DEF U!CallAt
<1>4. RowsInv'
    BY <1>1, <1>2, <1>3 DEF SessionInv, RowsInv
<1>5. KeysInv'
    BY <1>1, <1>2, <1>3 DEF SessionInv, KeysInv, UnsetKeys, ReadKeys, VmKeys, OwnEntry
<1>6. UnspoiledInv'
  <2>1. \A i, x : Safe(i, x) => Safe(i, x)'
      BY <1>1, <1>2 DEF Safe, U!CallAt
  <2> QED BY <1>1, <1>2, <1>3, <2>1 DEF SessionInv, UnspoiledInv
<1> QED BY <1>4, <1>5, <1>6 DEF SessionInv

LEMMA SessionsDeleteRow ==
    ASSUME TypeOK, SessionInv, NEW w \in Workers, NEW id \in Ids, NEW ip \in Ips,
           DeleteRow(w, id, ip)
    PROVE  SessionInv'
<1> USE DEF Creates, Reads, Deletes, IdAt, IpAt
<1>1. /\ calls[w] = U!CallAt("delrow", id, ip)
      /\ calls' = [calls EXCEPT ![w] = U!CallAt("delentry", id, ip)]
      /\ \A v \in Workers : Creates(v) => IdAt(v) # id
      /\ \A r \in rows : r.id = id => ~ U!Held(r.slot)
      /\ rows' = {r \in rows : r.id # id}
      /\ UNCHANGED <<entries, vms, keys, unset, asked, spoiled>>
    BY DEF DeleteRow, Plain, U!DeleteRow, U!Creating, U!Advance
<1>2. /\ calls'[w] = U!CallAt("delentry", id, ip)
      /\ \A v \in Workers \ {w} : calls'[v] = calls[v]
    BY <1>1 DEF TypeOK
<1>3. \A v \in vms : v \in rows => v.id # id
    BY <1>1 DEF U!Held
<1>4. \A v \in Workers : Creates(v)' => v # w /\ Creates(v)
    BY <1>1, <1>2 DEF U!CallAt
<1>5. RowsInv'
    BY <1>1, <1>2, <1>4 DEF SessionInv, RowsInv, U!Session
<1>6. KeysInv'
  <2>1. \A v \in vms : entries[v.slot] # NoId => v \in rows'
      BY <1>1, <1>3 DEF SessionInv, KeysInv, VmKeys
  <2>2. \A v \in Workers : unset[v] # {} => v # w
      BY <1>1 DEF SessionInv, KeysInv, UnsetKeys, U!CallAt
  <2>3. \A v \in Workers : Reads(v)' => v # w
      BY <1>2 DEF U!CallAt
  <2> QED BY <1>1, <1>2, <2>1, <2>2, <2>3
          DEF SessionInv, KeysInv, UnsetKeys, ReadKeys, VmKeys, OwnEntry
<1>7. UnspoiledInv'
  <2>1. \A i, x : Safe(i, x) /\ i # id => Safe(i, x)'
      BY <1>1, <1>2 DEF Safe, U!CallAt
  <2>2. \A v \in vms : v.slot \notin spoiled => v.id # id
    <3>1. \A v \in vms : v.slot \notin spoiled => entries[v.slot] = v.id
        BY DEF SessionInv, UnspoiledInv, Safe
    <3>2. \A v \in vms : v.id # NoId
        BY NoIdAssumption DEF TypeOK, Sessions
    <3> QED BY <1>3, <3>1, <3>2 DEF SessionInv, KeysInv, VmKeys
  <2> QED BY <1>1, <1>2, <1>4, <2>1, <2>2 DEF SessionInv, UnspoiledInv
<1> QED BY <1>5, <1>6, <1>7 DEF SessionInv

\* What is removed belongs to nobody, or to a session that is spoiled.
LEMMA SessionsDeleteEntry ==
    ASSUME TypeOK, SessionInv, NEW w \in Workers, NEW id \in Ids, NEW ip \in Ips,
           DeleteEntry(w, id, ip)
    PROVE  SessionInv'
<1> USE DEF Creates, Reads, Deletes, IdAt, IpAt
<1>1. /\ calls[w] = U!CallAt("delentry", id, ip)
      /\ calls' = [calls EXCEPT ![w] = U!NoCall]
      /\ entries' = [entries EXCEPT ![ip] = NoId]
      /\ keys' = [keys EXCEPT ![ip] = {}]
      /\ UNCHANGED <<rows, vms, unset, asked, spoiled>>
    BY DEF DeleteEntry, U!DeleteEntry, U!Advance
<1>2. /\ calls'[w] = U!NoCall
      /\ \A v \in Workers \ {w} : calls'[v] = calls[v]
      /\ entries'[ip] = NoId /\ keys'[ip] = {}
      /\ \A x \in Ips \ {ip} : entries'[x] = entries[x] /\ keys'[x] = keys[x]
    BY <1>1 DEF TypeOK
<1>3. \A v \in Workers : Creates(v)' \/ Deletes(v)' => v # w
    BY <1>2 DEF U!NoCall, U!CallAt
<1>4. /\ \A v \in Workers : Reads(v) => IpAt(v) \in Ips
      /\ \A v \in vms : v.slot \in Ips
    BY CreateTypes DEF SessionInv, TypeOK, Sessions
<1>5. ~ \E i : Safe(i, ip)
    BY <1>1 DEF Safe, U!CallAt
<1>6. RowsInv'
    BY <1>1, <1>2, <1>3 DEF SessionInv, RowsInv
<1>7. KeysInv'
  <2>1. \A v \in Workers : unset[v] # {} => v # w
      BY <1>1 DEF SessionInv, KeysInv, UnsetKeys, U!CallAt
  <2>2. \A i, x : x \in Ips /\ OwnEntry(i, x) => OwnEntry(i, x)'
      BY <1>1, <1>2 DEF OwnEntry
  <2>3. VmKeys'
      BY <1>1, <1>2, <1>4, <2>2 DEF SessionInv, KeysInv, VmKeys
  <2>4. ReadKeys'
      BY <1>2, <1>3, <1>4, <2>2 DEF SessionInv, KeysInv, ReadKeys
  <2>5. UnsetKeys'
      BY <1>1, <1>2, <2>1 DEF SessionInv, KeysInv, UnsetKeys
  <2> QED BY <2>3, <2>4, <2>5 DEF KeysInv
<1>8. UnspoiledInv'
  <2>1. \A i : \A x \in Ips : Safe(i, x) => x # ip /\ Safe(i, x)'
      BY <1>1, <1>2, <1>3, <1>5 DEF Safe
  <2>2. \A i \in Ids, x \in Ips : entries[x] # i => entries'[x] # i
      BY <1>2, NoIdAssumption
  <2>3. \A v \in Workers : Reads(v) => IdAt(v) \in Ids
      BY CreateTypes DEF SessionInv
  <2> QED BY <1>1, <1>2, <1>3, <1>4, <2>1, <2>2, <2>3 DEF SessionInv, UnspoiledInv
<1> QED BY <1>6, <1>7, <1>8 DEF SessionInv

LEMMA SessionsStep == TypeOK /\ SessionInv /\ [Next]_vars => SessionInv'
<1> SUFFICES ASSUME TypeOK, SessionInv, [Next]_vars PROVE SessionInv'
    OBVIOUS
<1>1. ASSUME NEW w \in Workers, NEW id \in Ids, Call(w, id) PROVE SessionInv'
  <2>1. PICK c : U!Advance(w, "none", c) /\ c.stage \in {"insert", "find"}
    <3>1. \A s : U!CallAt("insert", id, s).stage = "insert"
        BY DEF U!CallAt
    <3>2. U!CallAt("find", id, NoIp).stage = "find"
        BY DEF U!CallAt
    <3> QED BY <1>1, <3>1, <3>2 DEF Call, Plain, U!Begin
  <2>2. unset[w] = {}
      BY <2>1 DEF U!Advance, SessionInv, KeysInv, UnsetKeys, Reads
  <2>3. \A v \in Workers :
            \/ calls'[v] = calls[v]
            \/ ~ Creates(v)' /\ ~ Deletes(v)' /\ unset[v] = {}
      BY <2>1, <2>2 DEF U!Advance, TypeOK, Creates, Deletes
  <2> QED BY <1>1, <2>3, SessionsQuiet DEF Call, Plain, U!Begin, U!SomeStop
<1>2. ASSUME NEW w \in Workers, End(w) PROVE SessionInv'
  <2>1. \A v \in Workers :
            \/ calls'[v] = calls[v]
            \/ ~ Creates(v)' /\ ~ Deletes(v)' /\ unset[v] = {}
      BY <1>2 DEF End, Plain, U!End, U!Advance, U!NoCall, U!CallAt, TypeOK, Creates, Deletes
  <2> QED BY <1>2, <2>1, SessionsQuiet DEF End, Plain, U!End, U!SomeStop
<1>3. ASSUME NEW w \in Workers, NEW id \in Ids, NEW ip \in Ips,
             Create(w, id, ip) \/ Delete(w, id, ip)
      PROVE  SessionInv'
    BY <1>3, SessionsInsert, SessionsPublish, SessionsConfirm, SessionsFind, SessionsDeleteRow,
       SessionsDeleteEntry DEF Create, Delete
<1>4. ASSUME NEW w \in Workers, SetKeys(w) PROVE SessionInv'
    BY <1>4, SessionsSetKeys
<1>5. CASE VmsEnd
    BY <1>5, SessionsQuiet DEF VmsEnd, Plain, U!Stop, U!SomeStop
<1>6. CASE Tunnel
  <2>1. UNCHANGED api
      BY <1>6 DEF Tunnel, Connect, Proceed, Drop, Swap, Upgrade
  <2> QED BY <2>1, SessionsQuiet DEF api, use
<1>7. CASE ProxyRestarts
  <2>1. /\ rows' = {} /\ vms' = vms
        /\ \A w \in Workers : ~ Creates(w)' /\ ~ Deletes(w)' /\ ~ Reads(w)' /\ unset'[w] = {}
        /\ \A ip \in Ips : entries'[ip] = NoId /\ keys'[ip] = {}
      BY <1>7 DEF ProxyRestarts, U!Lose, U!NoCall, U!CallAt, Creates, Deletes, Reads
  <2>2. \A v \in vms : v.slot \in Ips /\ v.slot \in spoiled'
      BY <1>7 DEF ProxyRestarts, U!Held, TypeOK, Sessions
  <2> QED BY <2>1, <2>2
          DEF SessionInv, RowsInv, KeysInv, UnsetKeys, ReadKeys, VmKeys, OwnEntry,
              UnspoiledInv
<1>8. CASE UNCHANGED vars
    BY <1>8, SessionsQuiet DEF vars, api, use
<1> QED BY <1>1, <1>2, <1>3, <1>4, <1>5, <1>6, <1>7, <1>8 DEF Next, Manager

-----------------------------------------------------------------------------
(* Tunnels *)

\* The copy is taken from the session of the VM that asks.
LEMMA TunnelsStep == ConnectInv /\ [Next]_vars => TunnelKeys'
<1> SUFFICES ASSUME ConnectInv, [Next]_vars PROVE TunnelKeys'
    OBVIOUS
<1> USE DEF ConnectInv
<1>0. \A stage \in {"forbidden", "closed"} : stage \notin Open \union {"refused"}
    BY DEF Open, After
<1>1. CASE UNCHANGED tunnel
    BY <1>1 DEF TunnelKeys
<1>2. ASSUME NEW t \in Tunnels, Connect(t) PROVE TunnelKeys'
  <2>1. PICK v \in vms, domain \in Domains :
            Forbid(t, v.slot, domain) \/ Admit(t, v.slot, domain)
      BY <1>2 DEF Connect
  <2>2. CASE Forbid(t, v.slot, domain)
      BY <1>0, <2>2 DEF Forbid, Without, TunnelKeys, TypeOK
  <2>3. CASE Admit(t, v.slot, domain)
    <3>1. (keys[v.slot] = {} \/ keys[v.slot] = asked[v.slot])
        BY DEF SessionInv, KeysInv, VmKeys, OwnEntry
    <3>2. v.slot \notin spoiled => keys[v.slot] = asked[v.slot]
        BY DEF SessionInv, UnspoiledInv
    <3>3. tunnel'[t] = [stage |-> "upgrade", owed |-> asked[v.slot], keys |-> keys[v.slot],
                        named |-> NoRef, late |-> v.slot \in spoiled]
        BY <2>3 DEF Admit, TypeOK
    <3>4. \A x \in Tunnels \ {t} : tunnel'[x] = tunnel[x]
        BY <2>3 DEF Admit, TypeOK
    <3>5. /\ (tunnel'[t].keys = {} \/ tunnel'[t].keys = tunnel'[t].owed)
          /\ ~ tunnel'[t].late => tunnel'[t].keys = tunnel'[t].owed
          /\ tunnel'[t].stage # "refused"
        BY <2>3, <3>1, <3>2 DEF Admit, TypeOK
    <3> QED BY <3>4, <3>5 DEF TunnelKeys
  <2> QED BY <2>1, <2>2, <2>3
<1>3. ASSUME NEW t \in Tunnels, Proceed(t) \/ Drop(t) \/ Swap(t) \/ Upgrade(t)
      PROVE  TunnelKeys'
  <2>1. tunnel[t].stage \in Open
      BY <1>3 DEF Proceed, Drop, Swap, Upgrade, Open
  <2>2. CASE Swap(t)
      BY <2>1, <2>2 DEF Swap, TunnelKeys, TypeOK
  <2>3. CASE Proceed(t) \/ Upgrade(t)
    <3>1. /\ tunnel' = [tunnel EXCEPT ![t].stage = tunnel'[t].stage]
          /\ tunnel'[t].stage # "refused"
        BY <2>1, <2>3 DEF Proceed, Upgrade, TypeOK, Open, After
    <3> QED BY <2>1, <3>1 DEF TunnelKeys, TypeOK
  <2>4. CASE Drop(t)
      BY <1>0, <2>4 DEF Drop, Without, TunnelKeys, TypeOK
  <2> QED BY <1>3, <2>2, <2>3, <2>4
<1>4. CASE ProxyRestarts
  <2>1. \A t \in Tunnels : tunnel'[t] \in {Without("closed"), tunnel[t]}
      BY <1>4 DEF ProxyRestarts
  <2> QED BY <1>0, <2>1 DEF TunnelKeys, Without
<1>5. \/ UNCHANGED tunnel
      \/ \E t \in Tunnels : Connect(t)
      \/ \E t \in Tunnels : Proceed(t) \/ Drop(t) \/ Swap(t) \/ Upgrade(t)
      \/ ProxyRestarts
    BY DEF Next, Manager, Tunnel, Create, Delete, Call, End, SetKeys, VmsEnd, InsertRow,
           Publish, Publish_, Confirm, FindEntry, DeleteRow, DeleteEntry, Plain, vars
<1> QED BY <1>1, <1>2, <1>3, <1>4, <1>5

-----------------------------------------------------------------------------
LEMMA ConnectInvariant == Spec => []ConnectInv
<1>1. ConnectInv /\ [Next]_vars => ConnectInv'
    BY TypeStep, SessionsStep, TunnelsStep DEF ConnectInv, SessionInv
<1> QED BY ConnectInit, <1>1, PTL DEF Spec

\* Every value of the state is one that the handler and the store have, and keys
\* belong to an entry (set_key_map adds none).
THEOREM TypeCorrect == Spec => []TypeOK
<1>1. ConnectInv => TypeOK
    BY DEF ConnectInv
<1> QED BY ConnectInvariant, <1>1, PTL

\* A VM has its session complete from the 201 to its end, whatever calls follow and
\* meet each other, unless it was published amid the leftovers of another session
\* or the proxy restarts (handle_create_session, SessionStore::create and delete).
THEOREM VmsHaveTheirSessions == Spec => []VmHasItsSession
<1>1. ConnectInv => VmHasItsSession
    BY DEF ConnectInv, SessionInv, UnspoiledInv, Safe, VmHasItsSession
<1> QED BY ConnectInvariant, <1>1, PTL

\* No tunnel of such a VM is refused a placeholder of its session (the copy of
\* dummy_to_real that handle_connect takes is complete).
THEOREM OwnPlaceholdersAlwaysWork == Spec => []OwnPlaceholdersWork
<1>1. ConnectInv => OwnPlaceholdersWork
    BY DEF ConnectInv, TunnelKeys, OwnPlaceholdersWork
<1> QED BY ConnectInvariant, <1>1, PTL

\* No tunnel has a key of another session in its copy, after restarts and amid
\* leftovers neither.
THEOREM TunnelsHoldOwnKeys == Spec => []OnlyOwnKeys
<1>1. ConnectInv => OnlyOwnKeys
    BY DEF ConnectInv, TunnelKeys, OnlyOwnKeys
<1> QED BY ConnectInvariant, <1>1, PTL

=============================================================================
