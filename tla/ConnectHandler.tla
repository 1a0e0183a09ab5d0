--------------------------- MODULE ConnectHandler ---------------------------
(***************************************************************************)
(* The CONNECT handler of the proxy (crates/proxy/src/proxy.rs), its clients *)
(* the VMs, and the calls of the session API that register and delete their *)
(* sessions meanwhile.  The handler looks at the session of the peer's      *)
(* address once, takes a copy of its key map, and serves the tunnel with    *)
(* that copy for as long as it lasts.                                       *)
(*                                                                         *)
(* Manager and store are those of SessionUse: the guards that speak of VMs  *)
(* are what VmManager was shown to keep to, as long as the proxy does not   *)
(* restart; where it does, with ids of their own and one manager.  To these *)
(* steps the key maps are added, which SessionUse knows nothing of.         *)
(***************************************************************************)

CONSTANTS
    Workers, Ids, Ips, NoId, NoIp,  \* as in SessionUse
    Refs,      \* credential references, and the placeholders that stand for them
    NoRef,     \* no placeholder
    Wanted,    \* id -> the sets of references its session may be created with
    Domains,   \* targets of CONNECT
    Allowed,   \* id -> domains of the allowlist that its session is created with
    Tunnels    \* the CONNECT requests

ASSUME WantedAssumption == Wanted \in [Ids -> SUBSET SUBSET Refs]
ASSUME AllowedAssumption == Allowed \in [Ids -> SUBSET Domains]
ASSUME NoIdAssumption == NoId \notin Ids

VARIABLES
    rows, entries, vms, calls,  \* of SessionUse
    keys,     \* address -> dummy_to_real of its entry
    unset,    \* worker -> dummy_to_real that its create has yet to store, or {}
    asked,    \* address -> the references asked for the session last published there
    spoiled,  \* addresses whose session met leftovers of another, or a restart:
              \* a history variable, as is asked
    tunnel    \* CONNECT -> how far it has come, and what it keeps in hand

use == <<rows, entries, vms, calls>>
api == <<use, keys, unset, asked, spoiled>>
vars == <<api, tunnel>>

U == INSTANCE SessionUse WITH Callers <- Workers, Slots <- Ips, NoSlot <- NoIp

\* The awaits of the task that handle_connect spawns, in their order.
After == [upgrade |-> "accept", accept |-> "connect", connect |-> "handshake",
          handshake |-> "read"]
Open == DOMAIN After \union {"read", "copy"}
Stages == Open \union {"none", "forbidden", "refused", "closed"}

Sessions == [id : Ids, slot : Ips]

TypeOK ==
    /\ rows \subseteq Sessions /\ vms \subseteq Sessions
    /\ entries \in [Ips -> Ids \union {NoId}]
    /\ calls \in [Workers -> [stage : U!Stages, id : Ids \union {NoId},
                              slot : Ips \union {NoIp}]]
    /\ keys \in [Ips -> SUBSET Refs]
    /\ \A ip \in Ips : entries[ip] = NoId => keys[ip] = {}
    /\ unset \in [Workers -> SUBSET Refs]
    /\ asked \in [Ips -> SUBSET Refs]
    /\ spoiled \subseteq Ips
    /\ tunnel \in [Tunnels -> [stage : Stages, owed : SUBSET Refs, keys : SUBSET Refs,
                               named : Refs \union {NoRef}, late : BOOLEAN]]

-----------------------------------------------------------------------------
\* A tunnel that has nothing in hand.
Without(stage) ==
    [stage |-> stage, owed |-> {}, keys |-> {}, named |-> NoRef, late |-> FALSE]

Init ==
    /\ U!Init
    /\ keys = [ip \in Ips |-> {}]
    /\ unset = [w \in Workers |-> {}]
    /\ asked = [ip \in Ips |-> {}]
    /\ spoiled = {}
    /\ tunnel = [t \in Tunnels |-> Without("none")]

(* The session API, as the manager uses it *)

\* What SessionUse says of a step is all there is to it.
Plain(step) == step /\ UNCHANGED <<keys, unset, asked, spoiled, tunnel>>

Call(w, id) == Plain(U!Begin(w, id))
End(w) == unset[w] = {} /\ Plain(U!End(w))
InsertRow(w, id, ip) == Plain(U!Insert(w, id, ip))

\* Leftovers of the id or the address: a delete is about to remove the entry, or
\* there is another of the id.
Leftovers(id, ip) ==
    \/ \E w \in Workers : calls[w].stage \in {"delrow", "delentry"} /\ calls[w].slot = ip
    \/ \E other \in Ips \ {ip} : entries[other] = id

Publish_(w, id, ip) ==
    /\ U!Publish(w, id, ip)
    /\ \E refs \in Wanted[id] :
         asked' = [asked EXCEPT ![ip] = refs] /\ unset' = [unset EXCEPT ![w] = refs]
    /\ spoiled' = IF Leftovers(id, ip) THEN spoiled \union {ip} ELSE spoiled \ {ip}
    /\ UNCHANGED tunnel

\* As a bug would have it (and so the other definitions with a second name).
Publish_KeepsKeys(w, id, ip) ==         \* an entry that is there is overwritten in part
    Publish_(w, id, ip) /\ UNCHANGED keys

\* The entry goes into the map without keys.
Publish(w, id, ip) ==
    Publish_(w, id, ip) /\ keys' = [keys EXCEPT ![ip] = {}]

SetKeys_AtAddress(w) ==                 \* whether there is an entry or not
    /\ unset[w] # {}
    /\ keys' = [keys EXCEPT ![calls[w].slot] = unset[w]]
    /\ unset' = [unset EXCEPT ![w] = {}]
    /\ UNCHANGED <<use, asked, spoiled, tunnel>>

\* set_key_map: of an entry that has the id; nobody asks whether there was one.
SetKeys(w) ==
    /\ unset[w] # {}
    /\ \/ \E ip \in Ips :
            entries[ip] = calls[w].id /\ keys' = [keys EXCEPT ![ip] = unset[w]]
       \/ (\A ip \in Ips : entries[ip] # calls[w].id) /\ UNCHANGED keys
    /\ unset' = [unset EXCEPT ![w] = {}]
    /\ UNCHANGED <<use, asked, spoiled, tunnel>>

Confirm_Early(w, id, ip) ==             \* answered before the keys are set
    /\ U!Confirm(w, id, ip)
    /\ UNCHANGED <<keys, unset, asked, spoiled, tunnel>>

\* 201: the manager goes on to launch the VM.
Confirm(w, id, ip) == unset[w] = {} /\ Plain(U!Confirm(w, id, ip))

FindEntry(w, id, ip) == Plain(U!Find(w, id, ip))

DeleteRow_Early(w, id, ip) ==           \* the session goes before the VM
    /\ calls[w] = U!CallAt("delrow", id, ip)
    /\ U!Advance(w, "delrow", U!CallAt("delentry", id, ip))
    /\ rows' = {r \in rows : r.id # id}
    /\ UNCHANGED <<entries, vms, keys, unset, asked, spoiled, tunnel>>

DeleteRow(w, id, ip) == Plain(U!DeleteRow(w, id, ip))

DeleteEntry(w, id, ip) ==
    /\ U!DeleteEntry(w, id, ip)
    /\ keys' = [keys EXCEPT ![ip] = {}]
    /\ UNCHANGED <<unset, asked, spoiled, tunnel>>

VmsEnd == Plain(U!Stop)

\* The proxy process ends, and its tunnels with it.
ProxyRestarts ==
    /\ U!Lose
    /\ keys' = [ip \in Ips |-> {}]
    /\ unset' = [w \in Workers |-> {}]
    /\ spoiled' = {ip \in Ips : U!Held(ip)}
    /\ tunnel' = [t \in Tunnels |->
            IF tunnel[t].stage \in Open THEN Without("closed") ELSE tunnel[t]]
    /\ UNCHANGED asked

(* handle_connect *)

MayReach(ip, domain) == entries[ip] # NoId /\ domain \in Allowed[entries[ip]]

\* No session for the peer, or one that does not name the host: 403.
Forbid(t, ip, domain) ==
    /\ ~ MayReach(ip, domain)
    /\ tunnel' = [tunnel EXCEPT ![t] = Without("forbidden")]

\* 200, with a copy of the key map.  The mode of the domain is not looked at.
Admit(t, ip, domain) ==
    /\ MayReach(ip, domain)
    /\ tunnel' = [tunnel EXCEPT ![t] =
            [stage |-> "upgrade", owed |-> asked[ip], keys |-> keys[ip], named |-> NoRef,
             late |-> ip \in spoiled]]

Connect(t) ==
    /\ tunnel[t].stage \notin Open
    /\ \E v \in vms, domain \in Domains :
         Forbid(t, v.slot, domain) \/ Admit(t, v.slot, domain)
    /\ UNCHANGED api

\* TLS with the client, TCP and TLS with the upstream.
Proceed(t) ==
    /\ tunnel[t].stage \in DOMAIN After
    /\ tunnel' = [tunnel EXCEPT ![t].stage = After[@]]
    /\ UNCHANGED api

\* Any of it fails, the client does not begin TLS for ten seconds, or the copy loop ends.
Drop(t) ==
    /\ tunnel[t].stage \in Open
    /\ tunnel' = [tunnel EXCEPT ![t] = Without("closed")]
    /\ UNCHANGED api

\* The first request names a placeholder that is looked up in the copy.
Swap(t) ==
    /\ tunnel[t].stage = "read"
    /\ \E ref \in Refs \union {NoRef} :
         tunnel' = [tunnel EXCEPT ![t].named = ref,
                        ![t].stage = IF ref \in tunnel[t].keys THEN "copy" ELSE "refused"]
    /\ UNCHANGED api

\* It opens a websocket and is passed on as it is.
Upgrade(t) ==
    /\ tunnel[t].stage = "read"
    /\ tunnel' = [tunnel EXCEPT ![t].stage = "copy"]
    /\ UNCHANGED api

-----------------------------------------------------------------------------
Create(w, id, ip) == InsertRow(w, id, ip) \/ Publish(w, id, ip) \/ Confirm(w, id, ip)
Delete(w, id, ip) == FindEntry(w, id, ip) \/ DeleteRow(w, id, ip) \/ DeleteEntry(w, id, ip)

Manager ==
    \/ \E w \in Workers : SetKeys(w) \/ End(w)
    \/ \E w \in Workers, id \in Ids :
         Call(w, id) \/ \E ip \in Ips : Create(w, id, ip) \/ Delete(w, id, ip)
    \/ VmsEnd

Tunnel == \E t \in Tunnels : Connect(t) \/ Proceed(t) \/ Drop(t) \/ Swap(t) \/ Upgrade(t)

Next == Manager \/ Tunnel \/ ProxyRestarts

Spec == Init /\ [][Next]_vars

-----------------------------------------------------------------------------
(* Properties *)

\* "The proxy session is registered before the VM starts booting": a VM has the
\* session it was created with, its keys included, from the 201 until it has
\* stopped, whatever else is created and deleted meanwhile, the next session of
\* its id and the last of its address included.  Not so where the proxy restarts,
\* nor where the session was published while a delete was about to remove the entry
\* of its address, or beside an entry of its id that such a delete has left.
VmHasItsSession ==
    \A v \in vms : v.slot \notin spoiled =>
        entries[v.slot] = v.id /\ keys[v.slot] = asked[v.slot]

\* A tunnel works with the copy that it took; it is never turned down for a
\* placeholder of its VM's session, although the keys come into the map only
\* some time after the session; the same two cases apart.
OwnPlaceholdersWork ==
    \A t \in Tunnels :
        tunnel[t].stage = "refused" /\ ~ tunnel[t].late => tunnel[t].named \notin tunnel[t].owed

\* Nor does it hold a key of another session, the one that had the address before
\* or has it now included, in these cases neither: what such a session lacks is
\* never made up for by the keys of another.
OnlyOwnKeys ==
    \A t \in Tunnels : tunnel[t].keys \subseteq tunnel[t].owed

=============================================================================
