----------------------------- MODULE SessionUse -----------------------------
(***************************************************************************)
(* What the VM manager owes the proxy, without handlers, tasks, locks or a *)
(* host: how the steps of its calls of the session API and the lives of    *)
(* its VMs lie in time.  ConnectHandler takes this for granted of the      *)
(* manager it serves.                                                      *)
(*                                                                         *)
(* A VM is there from the 201 of its session, with which the manager goes  *)
(* on to boot it, until it has stopped, failed to start or been given up.  *)
(* A call has the critical sections of the store's create and delete.      *)
(***************************************************************************)

CONSTANTS Callers, Ids, Slots, NoId, NoSlot

VARIABLES
    rows,     \* the table of sessions: a set of [id, slot]
    entries,  \* the map, address -> id of the session, or NoId
    vms,      \* the VMs that are there: a set of [id, slot]
    calls     \* caller -> the call in hand for it: [stage, id, slot]

vars == <<rows, entries, vms, calls>>

Stages == {"none", "insert", "publish", "readback", "find", "delrow", "delentry"}

CallAt(stage, id, s) == [stage |-> stage, id |-> id, slot |-> s]
NoCall == CallAt("none", NoId, NoSlot)

Session(id, s) == [id |-> id, slot |-> s]

\* The table refuses an id and an address that it has.
Free(id, s) == \A r \in rows : r.id # id /\ r.slot # s

\* A VM has the address.
Held(s) == \E v \in vms : v.slot = s

\* A session of the id is being created and has its row.
Creating(id) == \E c \in Callers : calls[c].stage \in {"publish", "readback"} /\ calls[c].id = id

Init ==
    /\ rows = {} /\ entries = [s \in Slots |-> NoId]
    /\ vms = {}
    /\ calls = [c \in Callers |-> NoCall]

Advance(c, from, call) ==
    /\ calls[c].stage = from
    /\ calls' = [calls EXCEPT ![c] = call]

\* VMs stop, fail or are given up; all of them at once when the manager ends.
SomeStop == vms' \in SUBSET vms

\* A call is made: to create a session of the id for the address, or to delete
\* the one of the id.
Begin(c, id) ==
    /\ \/ \E s \in Slots : Advance(c, "none", CallAt("insert", id, s))
       \/ Advance(c, "none", CallAt("find", id, NoSlot))
    /\ SomeStop /\ UNCHANGED <<rows, entries>>

\* A call ends with an error, is lost, or finds nothing to delete.
End(c) ==
    /\ calls[c].stage \in {"insert", "readback", "find", "delrow"}
    /\ Advance(c, calls[c].stage, NoCall)
    /\ SomeStop /\ UNCHANGED <<rows, entries>>

\* An address is registered only while no VM has it.
Insert(c, id, s) ==
    /\ calls[c] = CallAt("insert", id, s) /\ Advance(c, "insert", CallAt("publish", id, s))
    /\ Free(id, s) /\ ~ Held(s)
    /\ rows' = rows \union {Session(id, s)}
    /\ UNCHANGED <<entries, vms>>

Publish(c, id, s) ==
    /\ calls[c] = CallAt("publish", id, s) /\ Advance(c, "publish", CallAt("readback", id, s))
    /\ ~ Held(s)
    /\ entries' = [entries EXCEPT ![s] = id]
    /\ UNCHANGED <<rows, vms>>

\* A VM comes into being only with its session, which the map had a moment ago;
\* there is none if the answer does not arrive.
Confirm(c, id, s) ==
    /\ calls[c] = CallAt("readback", id, s) /\ Advance(c, "readback", NoCall)
    /\ \E t \in Slots : entries[t] = id
    /\ ~ Held(s)
    /\ vms' \in {vms, vms \union {Session(id, s)}}
    /\ UNCHANGED <<rows, entries>>

Find(c, id, s) ==
    /\ calls[c] = CallAt("find", id, NoSlot) /\ Advance(c, "find", CallAt("delrow", id, s))
    /\ entries[s] = id
    /\ UNCHANGED <<rows, entries, vms>>

\* The session of a VM, or of one to be, is not deleted.
DeleteRow(c, id, s) ==
    /\ calls[c] = CallAt("delrow", id, s) /\ Advance(c, "delrow", CallAt("delentry", id, s))
    /\ ~ Creating(id) /\ \A r \in rows : r.id = id => ~ Held(r.slot)
    /\ rows' = {r \in rows : r.id # id}
    /\ UNCHANGED <<entries, vms>>

\* But the address may have been registered anew by now, and have a VM.
DeleteEntry(c, id, s) ==
    /\ calls[c] = CallAt("delentry", id, s) /\ Advance(c, "delentry", NoCall)
    /\ entries' = [entries EXCEPT ![s] = NoId]
    /\ UNCHANGED <<rows, vms>>

Stop == SomeStop /\ UNCHANGED <<rows, entries, calls>>

\* The proxy restarts: its sessions and the calls in hand are gone, the VMs are not.
Lose ==
    /\ rows' = {} /\ entries' = [s \in Slots |-> NoId]
    /\ calls' = [c \in Callers |-> NoCall]
    /\ UNCHANGED vms

Next ==
    \/ \E c \in Callers, id \in Ids :
         \/ Begin(c, id)
         \/ \E s \in Slots :
              \/ Insert(c, id, s) \/ Publish(c, id, s) \/ Confirm(c, id, s)
              \/ Find(c, id, s) \/ DeleteRow(c, id, s) \/ DeleteEntry(c, id, s)
    \/ \E c \in Callers : End(c)
    \/ Stop
    \/ Lose

Spec == Init /\ [][Next]_vars

=============================================================================
