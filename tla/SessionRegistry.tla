--------------------------- MODULE SessionRegistry ---------------------------
(***************************************************************************)
(* What the session API of the proxy promises its clients, without table,  *)
(* map or locks: one registry of sessions in which no id and no address    *)
(* occurs twice, and calls that take effect on it at one instant between   *)
(* their request and their answer.  A restart loses keys and expired       *)
(* sessions; it keeps every other session of a durable registry, except    *)
(* that a call in progress may or may not have taken effect.               *)
(***************************************************************************)
EXTENDS Naturals

CONSTANTS Workers, Ids, Ips, Requests, NoExpiry, NoSession, Durable, SqlErrors

VARIABLES
    sessions,  \* address -> [id, keys, expires] or NoSession
    call,      \* worker -> [stage, request]; the stages are below
    reply,     \* worker -> the last answer
    now

vars == <<sessions, call, reply, now>>

\* A create is "asked", then "registered"; a delete is "doomed" until done.
Stage(w)   == call[w].stage
Request(w) == call[w].request
Idle(w)    == Stage(w) = "idle"

Present(ip) == sessions[ip] # NoSession
Known(id)   == \E ip \in Ips : Present(ip) /\ sessions[ip].id = id
Free(r)     == ~ Known(r.id) /\ ~ Present(r.ip)

Fresh(r) == [id |-> r.id, keys |-> {}, expires |-> r.expires]

\* Somebody else has the id or the address, or is about to.
Contested(w, r) ==
    \/ ~ Free(r)
    \/ \E v \in Workers \ {w} :
          /\ Stage(v) = "asked"
          /\ Request(v).id = r.id \/ Request(v).ip = r.ip

Answered(w, status) ==
    /\ reply' = [reply EXCEPT ![w] = status]
    /\ call' = [call EXCEPT ![w].stage = "idle"]

Waiting(w) == reply' = [reply EXCEPT ![w] = "none"]

Init ==
    /\ sessions = [ip \in Ips |-> NoSession]
    /\ \A w \in Workers : Idle(w)
    /\ reply = [w \in Workers |-> "none"]
    /\ now = 0

-----------------------------------------------------------------------------
\* A create that asks for what cannot be given.
Refuse(w) ==
    /\ Idle(w)
    /\ \E r \in Requests, status \in {"bad_request", "unprocessable", "conflict"} :
         /\ status = "conflict" => Contested(w, r)
         /\ reply' = [reply EXCEPT ![w] = status]
         /\ call' \in {call, [call EXCEPT ![w].request = r]}
    /\ UNCHANGED <<sessions, now>>

AskCreate(w) ==
    /\ Idle(w)
    /\ \E r \in Requests :
         /\ Free(r)
         /\ call' = [call EXCEPT ![w] = [stage |-> "asked", request |-> r]]
    /\ Waiting(w)
    /\ UNCHANGED <<sessions, now>>

\* One of two creates that ask for the same id or address at once loses; without
\* another, only a registry that fails refuses what it was asked.
Lose(w) ==
    /\ Stage(w) = "asked" /\ (Contested(w, Request(w)) \/ SqlErrors)
    /\ Answered(w, "internal_error")
    /\ UNCHANGED <<sessions, now>>

Register(w) ==
    /\ Stage(w) = "asked" /\ Free(Request(w))
    /\ sessions' = [sessions EXCEPT ![Request(w).ip] = Fresh(Request(w))]
    /\ call' = [call EXCEPT ![w].stage = "registered"]
    /\ UNCHANGED <<reply, now>>

\* The session just registered, and no other, gets the keys it asked for.
Equip(w) ==
    /\ Stage(w) = "registered"
    /\ sessions[Request(w).ip] = Fresh(Request(w))
    /\ sessions' = [sessions EXCEPT ![Request(w).ip].keys = Request(w).refs]
    /\ UNCHANGED <<call, reply, now>>

\* "created" is only ever said of a session that is there, with its keys.
Confirm(w) ==
    /\ Stage(w) = "registered"
    /\ sessions[Request(w).ip] = [Fresh(Request(w)) EXCEPT !.keys = Request(w).refs]
    /\ Answered(w, "created")
    /\ UNCHANGED <<sessions, now>>

\* A delete names a session that is there; no keys and no expiry with it.
Naming(ip) == [id |-> sessions[ip].id, ip |-> ip, refs |-> {}, expires |-> NoExpiry]

AskDelete(w) ==
    /\ Idle(w)
    /\ \E ip \in Ips :
         /\ Present(ip)
         /\ call' = [call EXCEPT ![w] = [stage |-> "doomed", request |-> Naming(ip)]]
    /\ Waiting(w)
    /\ UNCHANGED <<sessions, now>>

\* The session that goes is the one the client named.
Remove(w) ==
    /\ Stage(w) = "doomed"
    /\ Present(Request(w).ip) /\ sessions[Request(w).ip].id = Request(w).id
    /\ sessions' = [sessions EXCEPT ![Request(w).ip] = NoSession]
    /\ Answered(w, "no_content")
    /\ UNCHANGED now

\* A delete that fails has changed nothing.
Spare(w) ==
    /\ SqlErrors /\ Stage(w) = "doomed"
    /\ Answered(w, "internal_error")
    /\ UNCHANGED <<sessions, now>>

\* Lookups of an id, and deletes of one that is not there.
Look(w) ==
    /\ Idle(w)
    /\ \E id \in Ids :
         \/ Known(id) /\ reply' = [reply EXCEPT ![w] = "ok"]
         \/ ~ Known(id) /\ reply' = [reply EXCEPT ![w] = "not_found"]
    /\ UNCHANGED <<sessions, call, now>>

Elapse == now' = now + 1 /\ UNCHANGED <<sessions, call, reply>>

-----------------------------------------------------------------------------
Lives(expires) == IF expires = NoExpiry THEN TRUE ELSE expires >= now

\* What may stand at an address after a restart: nothing, the session that
\* stood there without its keys, or one whose registration was under way.
Remains(ip) ==
    {NoSession}
    \union (IF Present(ip) THEN {[sessions[ip] EXCEPT !.keys = {}]} ELSE {})
    \union {Fresh(Request(w)) : w \in {v \in Workers : Stage(v) = "asked" /\ Request(v).ip = ip}}

\* A session that nobody is deleting outlives the restart until it expires.
Endures(ip) ==
    /\ Durable /\ Present(ip) /\ Lives(sessions[ip].expires)
    /\ \A w \in Workers : Stage(w) = "doomed" => Request(w).ip # ip

Restart ==
    /\ sessions' \in [Ips -> UNION {Remains(ip) : ip \in Ips}]
    /\ \A ip \in Ips :
         /\ sessions'[ip] \in Remains(ip)
         /\ Endures(ip) => sessions'[ip] = [sessions[ip] EXCEPT !.keys = {}]
         /\ sessions'[ip] # NoSession => Durable /\ Lives(sessions'[ip].expires)
    /\ \A ip1, ip2 \in {ip \in Ips : Present(ip)'} :
         sessions'[ip1].id = sessions'[ip2].id => ip1 = ip2
    /\ call' = [w \in Workers |-> [call[w] EXCEPT !.stage = "idle"]]
    /\ reply' = [w \in Workers |-> IF Idle(w) THEN reply[w] ELSE "dropped"]
    /\ UNCHANGED now

Next ==
    \/ \E w \in Workers :
         \/ Refuse(w) \/ AskCreate(w) \/ Lose(w) \/ Register(w) \/ Equip(w)
         \/ Confirm(w) \/ AskDelete(w) \/ Remove(w) \/ Spare(w) \/ Look(w)
    \/ Elapse
    \/ Restart

Spec == Init /\ [][Next]_vars

=============================================================================
