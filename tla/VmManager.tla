------------------------------ MODULE VmManager ------------------------------
(***************************************************************************)
(* Environments of the VM manager (crates/vm-manager): the handlers of     *)
(* POST and DELETE /v1/environments (api.rs), the background task that     *)
(* launches a VM, waits for its shutdown signal and tears it down (vm.rs), *)
(* the shared tables (state.rs), and what they leave outside: the TAP      *)
(* interface and its DNAT rules on the host (network.rs), and the session  *)
(* in the proxy (proxy_client.rs; session.rs on its side).                 *)
(*                                                                         *)
(* A job is one POST and, once it has spawned it, one lifecycle task; both *)
(* run concurrently with those of other jobs.  An action is one await: the *)
(* acquisition of a lock with the code under it, or a group of commands    *)
(* run on the host.  A call of the proxy takes as many steps as the store  *)
(* has critical sections, and runs on when its caller has gone.            *)
(*                                                                         *)
(* Abstracted: an address is the number of its /30 (10.0.1.2 is 0, .6 is   *)
(* 1, ...), which also stands for the gateway address one below it; of the *)
(* two chains only prerouting is kept; serial output is left out.          *)
(* The TAP of an id is named "tap-" and its first twelve characters: with  *)
(* twelve or more the kernel refuses the name (the fault "tap"), so that   *)
(* no two ids ever share an interface, and id stands for TAP below.        *)
(***************************************************************************)
EXTENDS Naturals, Sequences

CONSTANTS
    Jobs,      \* POST requests, each with its lifecycle task
    Ids,       \* session ids
    IdOf,      \* job -> the session id it asks for
    NumSlots,  \* addresses in the pool (64 in the code)
    Deleters,  \* tasks that serve DELETE requests
    NoJob, NoId,
    Faults     \* the failures of the outside world that may happen

FaultKinds == {
    "register",       \* the proxy cannot be reached, or fails before it has stored anything
    "register_lost",  \* it registers the session, but no answer arrives
    "unregister",     \* a DELETE of a session does not reach it, or its statement fails
    "proxy_restart",  \* it loses its sessions and the calls it was serving
    "tap",            \* `ip tuntap add' fails
    "tap_partial",    \* a later command of setup_tap_interface fails
    "clean_tap",      \* `ip tuntap del' fails
    "dnat",           \* the DNAT rule cannot be added
    "dnat_partial",   \* the DNAT rule is added, a forward rule is not
    "clean_dnat",     \* the chain cannot be listed, or some rule not deleted
    "launch",         \* the VM does not start
    "stray",          \* the VM does not start, but its process stays
    "stop",           \* the VM cannot be shut down
    "disconnect",     \* a client closes its connection before the answer
    "vm_exit",        \* the guest powers off on its own
    "manager_end" }   \* the manager is stopped or dies, and is started again

ASSUME IdOfAssumption == IdOf \in [Jobs -> Ids]
ASSUME NumSlotsAssumption == NumSlots \in Nat
ASSUME FaultsAssumption == Faults \subseteq FaultKinds
ASSUME NoJobAssumption == NoJob \notin Jobs
ASSUME NoIdAssumption == NoId \notin Ids

Slots  == 0 .. NumSlots - 1
NoSlot == NumSlots

\* The await that a handler stands before.
Steps == {"check", "allocate", "register", "setup_tap", "add_dnat", "arm", "record",
          "refused", "tap_failed", "dnat_failed", "dnat_failed_tap", "unregister", "done"}

\* The await that a lifecycle task stands before.
Phases == {"none", "launch", "mark_failed", "running", "unregister", "remove_dnat",
           "clean_tap", "release", "mark_exited", "disarm", "gone"}

Statuses == {"none", "running", "shutting_down", "exited", "failed"}

Answers == {"none", "created", "conflict", "refused", "failed", "dropped"}

\* What became of a job's VM.  Of "half_started" and "not_stopped" a process may
\* be left that the manager has lost hold of.
Lives == {"no", "up", "failed", "half_started", "over", "not_stopped"}

\* What the proxy is about to do for a call: insert the row, publish the entry
\* in the map, set the key map and read the session back; or look the address
\* up in the map, delete the row, remove the entry.  "broken": it died instead.
Works == {"none", "insert", "publish", "readback", "find", "delrow", "delentry", "broken"}

VARIABLES
    environments,  \* session id -> status of its record ("none": no record)
    shutdown_txs,  \* session id -> job whose task listens to the sender, NoJob
    pool,          \* allocated_ips
    rows,          \* the proxy's table of sessions: a set of [id, slot]
    entries,       \* its map, address -> id of the session, or NoId
    call,          \* job -> what is left of the call of the proxy it has made
    target,        \* job -> the address its DELETE has found, or NoSlot
    claim,         \* job -> "sole", or its entry was published while a delete was
                   \* about to remove that of its address: "raced"; "forgotten" when
                   \* the proxy has lost its session.  A history variable
    taps,          \* id -> address its TAP was given, or NoSlot: no interface
    dnat,          \* id -> targets of the DNAT rules of its TAP, in rule order
    step,          \* job -> where its handler is
    phase,         \* job -> where its lifecycle task is
    slot,          \* job -> the address its handler was given
    launched,      \* job -> what became of its VM
    answer,        \* job -> the answer to its POST
    deleting       \* deleter -> the id it is about to signal, or NoId

handlerVars == <<step, slot, answer>>
storeVars   == <<rows, entries>>
proxyVars   == <<rows, entries, call, target, claim>>
hostVars    == <<taps, dnat>>
vars == <<environments, shutdown_txs, pool, proxyVars, hostVars, handlerVars, phase,
          launched, deleting>>

SessionRecord == [id : Ids, slot : Slots]

TypeOK ==
    /\ environments \in [Ids -> Statuses]
    /\ shutdown_txs \in [Ids -> Jobs \union {NoJob}]
    /\ pool \subseteq Slots
    /\ rows \subseteq SessionRecord
    /\ entries \in [Slots -> Ids \union {NoId}]
    /\ call \in [Jobs -> Works]
    /\ target \in [Jobs -> Slots \union {NoSlot}]
    /\ claim \in [Jobs -> {"sole", "raced", "forgotten"}]
    /\ taps \in [Ids -> Slots \union {NoSlot}]
    /\ dnat \in [Ids -> Seq(Slots)]
    /\ step \in [Jobs -> Steps]
    /\ phase \in [Jobs -> Phases]
    /\ slot \in [Jobs -> Slots \union {NoSlot}]
    /\ launched \in [Jobs -> Lives]
    /\ answer \in [Jobs -> Answers]
    /\ deleting \in [Deleters -> Ids \union {NoId}]

May(fault) == fault \in Faults

\* The server drops the future of a handler whose client has disconnected.
Dropped(j) == answer[j] = "dropped"

HandlerAt(j, here, next) ==
    /\ step[j] = here /\ ~ Dropped(j)
    /\ step' = [step EXCEPT ![j] = next]

TaskAt(j, here, next) ==
    /\ phase[j] = here
    /\ phase' = [phase EXCEPT ![j] = next]

Say(j, what) == answer' = [answer EXCEPT ![j] = what]

-----------------------------------------------------------------------------
(* Calls that handler and task share *)

\* release_ip: takes the address out of the pool's list.
Release(j) == pool' = pool \ {slot[j]}

\* A call of the proxy: register_proxy_session ("insert"), delete_proxy_session
\* ("find").
Calls(j, work) == call' = [call EXCEPT ![j] = work] /\ UNCHANGED <<storeVars, target, claim>>

Registering(j)   == step[j] = "register" /\ ~ Dropped(j)
Unregistering(j) == (step[j] = "unregister" /\ ~ Dropped(j)) \/ phase[j] = "unregister"

\* What may be left of some rules when each is deleted on its own.
Remainders(rules) ==
    LET Choices == UNION {[1 .. n -> DOMAIN rules] : n \in 0 .. Len(rules)}
        Rising  == {c \in Choices : \A m, n \in DOMAIN c : m < n => c[m] < c[n]}
    IN  {[n \in DOMAIN c |-> rules[c[n]]] : c \in Rising}

\* remove_dnat_rule: every rule that names the TAP; failures are only logged.
RemoveDnat(j) ==
    \/ dnat' = [dnat EXCEPT ![IdOf[j]] = <<>>]
    \/ /\ May("clean_dnat")
       /\ \E rest \in Remainders(dnat[IdOf[j]]) : dnat' = [dnat EXCEPT ![IdOf[j]] = rest]

\* cleanup_tap_interface
CleanTap(j) ==
    \/ taps' = [taps EXCEPT ![IdOf[j]] = NoSlot]
    \/ May("clean_tap") /\ UNCHANGED taps

-----------------------------------------------------------------------------
Init ==
    /\ environments = [id \in Ids |-> "none"]
    /\ shutdown_txs = [id \in Ids |-> NoJob]
    /\ pool = {}
    /\ rows = {}
    /\ entries = [s \in Slots |-> NoId]
    /\ call = [j \in Jobs |-> "none"]
    /\ target = [j \in Jobs |-> NoSlot]
    /\ claim = [j \in Jobs |-> "sole"]
    /\ taps = [id \in Ids |-> NoSlot]
    /\ dnat = [id \in Ids |-> <<>>]
    /\ step = [j \in Jobs |-> "check"]
    /\ phase = [j \in Jobs |-> "none"]
    /\ slot = [j \in Jobs |-> NoSlot]
    /\ launched = [j \in Jobs |-> "no"]
    /\ answer = [j \in Jobs |-> "none"]
    /\ deleting = [d \in Deleters |-> NoId]

(* POST /v1/environments *)

\* The body is rejected, or the id has a record, or the image is missing: of
\* these only the record depends on the state.
CheckDuplicate(j) ==
    /\ step[j] = "check"
    /\ \/ environments[IdOf[j]] # "none" /\ HandlerAt(j, "check", "done") /\ Say(j, "conflict")
       \/ HandlerAt(j, "check", "done") /\ Say(j, "refused")
       \/ /\ environments[IdOf[j]] = "none"
          /\ HandlerAt(j, "check", "allocate") /\ UNCHANGED answer
    /\ UNCHANGED <<environments, shutdown_txs, pool, proxyVars, hostVars, slot, phase,
                   launched, deleting>>

\* As a bug would have it: the end of the pool is missed by one.
AllocateIp_PastEnd(j) ==
    /\ \E s \in (0 .. NumSlots) \ pool :
         /\ \A t \in (0 .. NumSlots) \ pool : s <= t
         /\ pool' = pool \union {s}
         /\ slot' = [slot EXCEPT ![j] = s]
         /\ HandlerAt(j, "allocate", "register") /\ UNCHANGED answer
         /\ Calls(j, "insert")
    /\ UNCHANGED <<environments, shutdown_txs, hostVars, phase, launched, deleting>>

\* As a bug would have it: the address is not put into the list.
AllocateIp_NotListed(j) ==
    /\ \E s \in Slots \ pool :
         /\ \A t \in Slots \ pool : s <= t
         /\ slot' = [slot EXCEPT ![j] = s]
         /\ HandlerAt(j, "allocate", "register") /\ UNCHANGED answer
         /\ Calls(j, "insert")
    /\ UNCHANGED <<environments, shutdown_txs, pool, hostVars, phase, launched, deleting>>

\* allocate_ip: the lowest address that is not in the list.
AllocateIp(j) ==
    /\ \/ /\ pool = Slots
          /\ HandlerAt(j, "allocate", "done") /\ Say(j, "failed")
          /\ UNCHANGED <<pool, slot, proxyVars>>
       \/ \E s \in Slots \ pool :
            /\ \A t \in Slots \ pool : s <= t
            /\ pool' = pool \union {s}
            /\ slot' = [slot EXCEPT ![j] = s]
            /\ HandlerAt(j, "allocate", "register") /\ UNCHANGED answer
            /\ Calls(j, "insert")
    /\ UNCHANGED <<environments, shutdown_txs, hostVars, phase, launched, deleting>>

\* Every failure that the handler answers itself gives the address back first;
\* the session, if there is one, is deleted after that.
GiveBack(j) ==
    /\ \/ HandlerAt(j, "refused", "done") /\ UNCHANGED proxyVars
       \/ HandlerAt(j, "tap_failed", "unregister") /\ Calls(j, "find")
       \/ HandlerAt(j, "dnat_failed", "dnat_failed_tap") /\ UNCHANGED proxyVars
    /\ Release(j)
    /\ UNCHANGED <<environments, shutdown_txs, hostVars, slot, answer, phase, launched,
                   deleting>>

GivenTap(j)  == [taps EXCEPT ![IdOf[j]] = slot[j]]
GivenRule(j) == [dnat EXCEPT ![IdOf[j]] = Append(@, slot[j])]

\* As a bug would have it: an interface that is there already is taken over.
SetupTap_TakesOver(j) ==
    /\ taps' = GivenTap(j)
    /\ HandlerAt(j, "setup_tap", "add_dnat") /\ UNCHANGED answer
    /\ UNCHANGED <<environments, shutdown_txs, pool, proxyVars, dnat, slot, phase,
                   launched, deleting>>

\* setup_tap_interface: `ip tuntap add' refuses a name that is taken; when a
\* later command fails the interface stays.
SetupTap(j) ==
    LET taken == taps[IdOf[j]] # NoSlot
        up    == taps' = GivenTap(j)
    IN  /\ \/ /\ ~ taken /\ up
              /\ HandlerAt(j, "setup_tap", "add_dnat") /\ UNCHANGED answer
           \/ /\ \/ (taken \/ May("tap")) /\ UNCHANGED taps
                 \/ ~ taken /\ May("tap_partial") /\ up
              /\ HandlerAt(j, "setup_tap", "tap_failed") /\ Say(j, "failed")
        /\ UNCHANGED <<environments, shutdown_txs, pool, proxyVars, dnat, slot, phase,
                       launched, deleting>>

\* add_dnat_rule: appends to prerouting, then twice to forward.
AddDnat(j) ==
    LET added == dnat' = GivenRule(j)
    IN  /\ \/ added /\ HandlerAt(j, "add_dnat", "arm") /\ UNCHANGED answer
           \/ /\ \/ May("dnat") /\ UNCHANGED dnat
                 \/ May("dnat_partial") /\ added
              /\ HandlerAt(j, "add_dnat", "dnat_failed") /\ Say(j, "failed")
        /\ UNCHANGED <<environments, shutdown_txs, pool, proxyVars, taps, slot, phase,
                       launched, deleting>>

\* As a bug would have it: the interface is forgotten.
HandlerCleansTap_Skipped(j) ==
    /\ HandlerAt(j, "dnat_failed_tap", "unregister")
    /\ Calls(j, "find")
    /\ UNCHANGED <<environments, shutdown_txs, pool, hostVars, slot, answer, phase,
                   launched, deleting>>

\* As a bug would have it: the address is given back once more.
HandlerCleansTap_ReleasesAgain(j) ==
    /\ HandlerAt(j, "dnat_failed_tap", "unregister")
    /\ CleanTap(j) /\ Release(j) /\ Calls(j, "find")
    /\ UNCHANGED <<environments, shutdown_txs, dnat, slot, answer, phase, launched,
                   deleting>>

HandlerCleansTap(j) ==
    /\ HandlerAt(j, "dnat_failed_tap", "unregister")
    /\ CleanTap(j) /\ Calls(j, "find")
    /\ UNCHANGED <<environments, shutdown_txs, pool, dnat, slot, answer, phase, launched,
                   deleting>>

\* The sender goes into the table, replacing and so dropping another one under
\* the same id, and the lifecycle task is spawned with no await in between.
ArmAndSpawn(j) ==
    /\ HandlerAt(j, "arm", "record")
    /\ shutdown_txs' = [shutdown_txs EXCEPT ![IdOf[j]] = j]
    /\ phase' = [phase EXCEPT ![j] = "launch"]
    /\ UNCHANGED <<environments, pool, proxyVars, hostVars, slot, answer, launched, deleting>>

StoreRecord(j) ==
    /\ HandlerAt(j, "record", "done")
    /\ environments' = [environments EXCEPT ![IdOf[j]] = "running"]
    /\ Say(j, "created")
    /\ UNCHANGED <<shutdown_txs, pool, proxyVars, hostVars, slot, phase, launched, deleting>>

\* The client closes its connection: the handler runs no further, at whatever
\* await it was, but a command or a call in progress may still have its effect.
HandlerDropped(j) ==
    /\ May("disconnect")
    /\ step[j] \notin {"check", "done"} /\ ~ Dropped(j)
    /\ Say(j, "dropped")
    /\ \/ UNCHANGED hostVars
       \/ /\ step[j] = "setup_tap" /\ taps[IdOf[j]] = NoSlot
          /\ taps' = GivenTap(j) /\ UNCHANGED dnat
       \/ step[j] = "add_dnat" /\ dnat' = GivenRule(j) /\ UNCHANGED taps
       \/ step[j] = "dnat_failed_tap" /\ CleanTap(j) /\ UNCHANGED dnat
    /\ UNCHANGED <<environments, shutdown_txs, pool, proxyVars, step, slot, phase,
                   launched, deleting>>

(* run_vm_lifecycle *)

\* vm.start fails before it has spawned Firecracker, or after that.
Launch(j) ==
    /\ \/ TaskAt(j, "launch", "running") /\ launched' = [launched EXCEPT ![j] = "up"]
       \/ /\ TaskAt(j, "launch", "mark_failed")
          /\ \/ May("launch") /\ launched' = [launched EXCEPT ![j] = "failed"]
             \/ May("stray") /\ launched' = [launched EXCEPT ![j] = "half_started"]
    /\ UNCHANGED <<environments, shutdown_txs, pool, proxyVars, hostVars, handlerVars,
                   deleting>>

\* The status is changed only if there is a record.
Mark(j, status) ==
    environments' = [environments EXCEPT ![IdOf[j]] = IF @ = "none" THEN @ ELSE status]

MarkFailed(j) ==
    /\ TaskAt(j, "mark_failed", "unregister")
    /\ Mark(j, "failed") /\ Calls(j, "find")
    /\ UNCHANGED <<shutdown_txs, pool, hostVars, handlerVars, launched, deleting>>

\* The receiver completes when the sender has been used, and also when it has
\* been dropped: in both cases it is in the table no more.
Signalled(j) == shutdown_txs[IdOf[j]] # j

\* As a bug would have it: what the VM uses is torn down before it is stopped.
StopVm_TornDownFirst(j) ==
    /\ Signalled(j)
    /\ TaskAt(j, "running", "unregister") /\ Calls(j, "find")
    /\ UNCHANGED <<environments, shutdown_txs, pool, hostVars, handlerVars, launched,
                   deleting>>

\* An error of vm.shutdown is logged, and the teardown goes on.
StopVm(j) ==
    /\ Signalled(j)
    /\ TaskAt(j, "running", "unregister") /\ Calls(j, "find")
    /\ \/ launched' = [launched EXCEPT ![j] = "over"]
       \/ /\ May("stop") /\ launched[j] = "up"
          /\ launched' = [launched EXCEPT ![j] = "not_stopped"]
    /\ UNCHANGED <<environments, shutdown_txs, pool, hostVars, handlerVars, deleting>>

TaskRemovesDnat(j) ==
    /\ TaskAt(j, "remove_dnat", "clean_tap")
    /\ RemoveDnat(j)
    /\ UNCHANGED <<environments, shutdown_txs, pool, proxyVars, taps, handlerVars, launched,
                   deleting>>

TaskCleansTap(j) ==
    /\ TaskAt(j, "clean_tap", "release")
    /\ CleanTap(j)
    /\ UNCHANGED <<environments, shutdown_txs, pool, proxyVars, dnat, handlerVars, launched,
                   deleting>>

TaskReleases(j) ==
    /\ TaskAt(j, "release",
              IF launched[j] \in {"failed", "half_started"} THEN "disarm" ELSE "mark_exited")
    /\ Release(j)
    /\ UNCHANGED <<environments, shutdown_txs, proxyVars, hostVars, handlerVars, launched,
                   deleting>>

MarkExited(j) ==
    /\ TaskAt(j, "mark_exited", "disarm")
    /\ Mark(j, "exited")
    /\ UNCHANGED <<shutdown_txs, pool, proxyVars, hostVars, handlerVars, launched, deleting>>

\* As a bug would have it: the whole table of senders is cleared.
Disarm_All(j) ==
    /\ TaskAt(j, "disarm", "gone")
    /\ shutdown_txs' = [id \in Ids |-> NoJob]
    /\ UNCHANGED <<environments, pool, proxyVars, hostVars, handlerVars, launched, deleting>>

\* shutdown_txs.remove(&session_id), whosever sender that is by now.
Disarm(j) ==
    /\ TaskAt(j, "disarm", "gone")
    /\ shutdown_txs' = [shutdown_txs EXCEPT ![IdOf[j]] = NoJob]
    /\ UNCHANGED <<environments, pool, proxyVars, hostVars, handlerVars, launched, deleting>>

(* DELETE /v1/environments/{session_id} *)

\* Whatever the status was.
MarkShuttingDown(d, id) ==
    /\ deleting[d] = NoId
    /\ environments[id] # "none"
    /\ environments' = [environments EXCEPT ![id] = "shutting_down"]
    /\ deleting' = [deleting EXCEPT ![d] = id]
    /\ UNCHANGED <<shutdown_txs, pool, proxyVars, hostVars, handlerVars, phase, launched>>

\* As a bug would have it: a VM that is still being launched is not signalled.
SendShutdown_IfRunning(d) ==
    /\ deleting[d] # NoId
    /\ shutdown_txs' =
         IF \E j \in Jobs : IdOf[j] = deleting[d] /\ phase[j] = "running"
           THEN [shutdown_txs EXCEPT ![deleting[d]] = NoJob] ELSE shutdown_txs
    /\ deleting' = [deleting EXCEPT ![d] = NoId]
    /\ UNCHANGED <<environments, pool, proxyVars, hostVars, handlerVars, phase, launched>>

SendShutdown(d) ==
    /\ deleting[d] # NoId
    /\ shutdown_txs' = [shutdown_txs EXCEPT ![deleting[d]] = NoJob]
    /\ deleting' = [deleting EXCEPT ![d] = NoId]
    /\ UNCHANGED <<environments, pool, proxyVars, hostVars, handlerVars, phase, launched>>

DeleterDropped(d) ==
    /\ May("disconnect")
    /\ deleting[d] # NoId
    /\ deleting' = [deleting EXCEPT ![d] = NoId]
    /\ UNCHANGED <<environments, shutdown_txs, pool, proxyVars, hostVars, handlerVars, phase,
                   launched>>

(* The proxy: SessionStore::create, set_key_map and get for a POST of a session, *)
(* SessionStore::delete for a DELETE                                             *)

\* Without a caller the answer goes nowhere.
CreateReturns(j, next, what) ==
    /\ call' = [call EXCEPT ![j] = "none"]
    /\ IF Registering(j)
         THEN /\ step' = [step EXCEPT ![j] = next]
              /\ answer' = [answer EXCEPT ![j] = what]
         ELSE UNCHANGED <<step, answer>>

DeleteReturns(j) ==
    /\ call' = [call EXCEPT ![j] = "none"]
    /\ target' = [target EXCEPT ![j] = NoSlot]
    /\ step' = IF step[j] = "unregister" /\ ~ Dropped(j)
                 THEN [step EXCEPT ![j] = "done"] ELSE step
    /\ phase' = IF phase[j] = "unregister"
                  THEN [phase EXCEPT ![j] = "remove_dnat"] ELSE phase

Row(j) == [id |-> IdOf[j], slot |-> slot[j]]

\* The table has an id and an address at most once.
Registrable(j) == \A r \in rows : r.id # IdOf[j] /\ r.slot # slot[j]

\* As a bug would have it: the row is not looked for, and replaced.
InsertRow_Replaces(j) ==
    /\ call[j] = "insert"
    /\ rows' = {r \in rows : r.id # IdOf[j] /\ r.slot # slot[j]} \union {Row(j)}
    /\ call' = [call EXCEPT ![j] = "publish"]
    /\ UNCHANGED <<environments, shutdown_txs, pool, entries, target, claim, hostVars,
                   handlerVars, phase, launched, deleting>>

\* The rows are searched, then one is inserted: a row that came in between is a
\* violated constraint, any other answer than 409.
InsertRow(j) ==
    /\ call[j] = "insert"
    /\ \/ /\ Registrable(j)
          /\ rows' = rows \union {Row(j)}
          /\ call' = [call EXCEPT ![j] = "publish"] /\ UNCHANGED <<step, answer>>
       \/ /\ ~ Registrable(j)
          /\ \E what \in {"conflict", "refused"} : CreateReturns(j, "refused", what)
          /\ UNCHANGED rows
    /\ UNCHANGED <<environments, shutdown_txs, pool, entries, target, claim, hostVars, slot,
                   phase, launched, deleting>>

\* The entry of the address, whatever was there.
PublishEntry(j) ==
    /\ call[j] = "publish"
    /\ entries' = [entries EXCEPT ![slot[j]] = IdOf[j]]
    /\ claim' = [claim EXCEPT ![j] = IF \E k \in Jobs : target[k] = slot[j] THEN "raced" ELSE @]
    /\ call' = [call EXCEPT ![j] = "readback"]
    /\ UNCHANGED <<environments, shutdown_txs, pool, rows, target, hostVars, handlerVars,
                   phase, launched, deleting>>

\* A session that is not found is unwrapped: the handler of the proxy panics.
ReadBack(j) ==
    /\ call[j] = "readback"
    /\ \/ /\ \E s \in Slots : entries[s] = IdOf[j]
          /\ CreateReturns(j, "setup_tap", answer[j])
       \/ /\ May("register_lost") \/ \A s \in Slots : entries[s] # IdOf[j]
          /\ CreateReturns(j, "refused", "refused")
    /\ UNCHANGED <<environments, shutdown_txs, pool, storeVars, target, claim, hostVars, slot,
                   phase, launched, deleting>>

\* Nothing is deleted, no row either, when the map does not have the id.
FindEntry(j) ==
    /\ call[j] = "find"
    /\ \/ \E s \in Slots :
            /\ entries[s] = IdOf[j]
            /\ target' = [target EXCEPT ![j] = s]
            /\ call' = [call EXCEPT ![j] = "delrow"] /\ UNCHANGED <<step, phase>>
       \/ (\A s \in Slots : entries[s] # IdOf[j]) /\ DeleteReturns(j)
    /\ UNCHANGED <<environments, shutdown_txs, pool, storeVars, claim, hostVars, slot, answer,
                   launched, deleting>>

\* The row of the id.
DeleteRow(j) ==
    /\ call[j] = "delrow"
    /\ rows' = {r \in rows : r.id # IdOf[j]}
    /\ call' = [call EXCEPT ![j] = "delentry"]
    /\ UNCHANGED <<environments, shutdown_txs, pool, entries, target, claim, hostVars,
                   handlerVars, phase, launched, deleting>>

\* map.remove(&source_ip): the entry of the address, whosever it is by now.
DeleteEntry(j) ==
    /\ call[j] = "delentry"
    /\ entries' = [entries EXCEPT ![target[j]] = NoId]
    /\ DeleteReturns(j)
    /\ UNCHANGED <<environments, shutdown_txs, pool, rows, claim, hostVars, slot, answer,
                   launched, deleting>>

\* A call does not reach the proxy, or ends there with an error that has changed
\* nothing more; one that nobody awaits may never have been sent.
CallLost(j) ==
    /\ \/ /\ \/ call[j] = "broken" /\ ~ Unregistering(j)
             \/ call[j] = "insert" /\ (May("register") \/ ~ Registering(j))
          /\ CreateReturns(j, "refused", "refused")
          /\ UNCHANGED <<target, phase>>
       \/ /\ \/ call[j] = "broken" /\ Unregistering(j)
             \/ call[j] = "find" /\ (May("unregister") \/ ~ Unregistering(j))
             \/ call[j] = "delrow" /\ May("unregister")
          /\ DeleteReturns(j) /\ UNCHANGED answer
    /\ UNCHANGED <<environments, shutdown_txs, pool, storeVars, claim, hostVars, slot,
                   launched, deleting>>

(* The outside world *)

\* The guest powers off.  Nothing waits for it.
VmExits(j) ==
    /\ May("vm_exit")
    /\ phase[j] = "running" /\ launched[j] = "up"
    /\ launched' = [launched EXCEPT ![j] = "over"]
    /\ UNCHANGED <<environments, shutdown_txs, pool, proxyVars, hostVars, handlerVars, phase,
                   deleting>>

\* The shipped proxy keeps its sessions in memory.
ProxyRestarts ==
    /\ May("proxy_restart")
    /\ rows' = {} /\ entries' = [s \in Slots |-> NoId]
    /\ call' = [j \in Jobs |-> IF call[j] = "none" THEN "none" ELSE "broken"]
    /\ claim' = [j \in Jobs |-> IF Row(j) \in rows THEN "forgotten" ELSE claim[j]]
    /\ target' = [j \in Jobs |-> NoSlot]
    /\ UNCHANGED <<environments, shutdown_txs, pool, hostVars, handlerVars, phase, launched,
                   deleting>>

\* Ctrl+C, or the end of the process in any other way, and a new start: the
\* tables, the handlers and the tasks are gone.  Interfaces stay, and sessions
\* with the calls in progress; so do the rules, unless main has come to delete
\* their table, and the VMs: of those being launched, the ones whose process had
\* been started.
ManagerRestarts ==
    /\ May("manager_end")
    /\ environments' = [id \in Ids |-> "none"]
    /\ shutdown_txs' = [id \in Ids |-> NoJob]
    /\ pool' = {}
    /\ step' = [j \in Jobs |-> IF step[j] = "check" THEN "check" ELSE "done"]
    /\ answer' = [j \in Jobs |->
                    IF step[j] \in {"check", "done"} THEN answer[j] ELSE "dropped"]
    /\ phase' = [j \in Jobs |-> IF phase[j] = "none" THEN "none" ELSE "gone"]
    /\ deleting' = [d \in Deleters |-> NoId]
    /\ dnat' \in {dnat, [id \in Ids |-> <<>>]}
    /\ \E started \in SUBSET {j \in Jobs : phase[j] = "launch"} :
         launched' = [j \in Jobs |-> IF j \in started THEN "up" ELSE launched[j]]
    /\ UNCHANGED <<proxyVars, taps, slot>>

-----------------------------------------------------------------------------
\* A handler that has been called.
Handler(j) ==
    \/ AllocateIp(j) \/ GiveBack(j) \/ SetupTap(j) \/ AddDnat(j) \/ HandlerCleansTap(j)
    \/ ArmAndSpawn(j) \/ StoreRecord(j)

Task(j) ==
    \/ Launch(j) \/ MarkFailed(j) \/ StopVm(j) \/ TaskRemovesDnat(j) \/ TaskCleansTap(j)
    \/ TaskReleases(j) \/ MarkExited(j) \/ Disarm(j)

\* The proxy at work on the call of a job.
Proxy(j) ==
    \/ InsertRow(j) \/ PublishEntry(j) \/ ReadBack(j)
    \/ FindEntry(j) \/ DeleteRow(j) \/ DeleteEntry(j)
    \/ CallLost(j)

Clients ==
    \/ \E j \in Jobs : CheckDuplicate(j) \/ HandlerDropped(j)
    \/ \E d \in Deleters : DeleterDropped(d) \/ \E id \in Ids : MarkShuttingDown(d, id)

World ==
    \/ \E j \in Jobs : VmExits(j)
    \/ ProxyRestarts
    \/ ManagerRestarts

Next ==
    \/ \E j \in Jobs : Handler(j) \/ Task(j) \/ Proxy(j)
    \/ \E d \in Deleters : SendShutdown(d)
    \/ Clients
    \/ World

Spec == Init /\ [][Next]_vars

\* Handlers and tasks run on: every await ends (commands end, locks are handed
\* on in turn, the VM is killed after eight seconds).  So does every call of the
\* proxy, whose handlers of these two calls await nothing once they have the
\* request.  Clients need not call.
FairSpec ==
    /\ Spec
    /\ \A j \in Jobs : WF_vars(Handler(j)) /\ WF_vars(Task(j)) /\ WF_vars(Proxy(j))
    /\ \A d \in Deleters : WF_vars(SendShutdown(d))

-----------------------------------------------------------------------------
(* Properties *)

\* From allocate_ip to release_ip the address belongs to the job, handler or
\* task; a handler that was dropped before the release keeps it for good.
Holds(j) ==
    \/ step[j] \in {"register", "setup_tap", "add_dnat", "arm", "refused", "tap_failed",
                    "dnat_failed"}
    \/ phase[j] \in {"launch", "mark_failed", "running", "unregister", "remove_dnat",
                     "clean_tap", "release"}

\* allocated_ips is exactly the addresses that some job holds, and no address
\* is held by two: it is given back once, and only by its holder.
AddressesExclusive ==
    /\ pool = {slot[j] : j \in {k \in Jobs : Holds(k)}}
    /\ \A j, k \in Jobs : Holds(j) /\ Holds(k) /\ slot[j] = slot[k] => j = k

\* From its launch on, a VM uses files named by its session id: the image with
\* its files and the mount point it is filled through, the jail and the API
\* socket.  A VM that was up when the manager ended still does, and so may one
\* that did not start or stop as it should.
UsesFiles(j) ==
    phase[j] \in {"launch", "running"} \/ launched[j] \in {"up", "half_started", "not_stopped"}

\* No two VMs, started by one manager or by two in turn, ever use the files of
\* one id at once, although handlers of one id may all pass the duplicate check
\* and a new manager knows nothing of the VMs of the last.  Not so once a process
\* stays that the manager takes for stopped ("stray", "stop").
FilesApart ==
    \A j, k \in Jobs : UsesFiles(j) /\ UsesFiles(k) /\ IdOf[j] = IdOf[k] => j = k

\* While a VM runs and nobody has stopped it, its TAP is up with its own gateway,
\* and the first DNAT rule for the TAP, the one that counts, leads to that gateway:
\* whatever handlers and tasks of other jobs do, also under the same id.
RunningIsConnected ==
    \A j \in Jobs : phase[j] = "running" =>
        taps[IdOf[j]] = slot[j] /\ dnat[IdOf[j]] = <<slot[j]>>

\* A job has a VM from the 201 of its session until the VM has stopped, failed to
\* start or been given up; a VM that was up when the manager ended is still there.
HasVm(j) ==
    \/ step[j] \in {"setup_tap", "add_dnat", "arm"} /\ ~ Dropped(j)
    \/ phase[j] = "launch" \/ launched[j] = "up"

\* A VM keeps its session, in the table and in the map, until the proxy restarts:
\* no DELETE takes it away, by its own job or by another of the same id.  One case
\* apart: failures give the address back and then delete its session, so another
\* job can publish an entry for it between the scan of that delete and its removal
\* by address, and loses it; its row stays.
VmKeepsSession ==
    \A j \in Jobs : HasVm(j) =>
        /\ claim[j] # "forgotten" => Row(j) \in rows
        /\ claim[j] = "sole" => entries[slot[j]] = IdOf[j]

\* A job is over when neither handler nor task has anything left to do, nor the
\* proxy for it.
Over(j) == step[j] = "done" /\ phase[j] \in {"none", "gone"} /\ call[j] = "none"

\* Once no job is left, whichever way each one ended, nothing of them is left
\* either: no address, no interface, no rule, no sender, and no session, but for
\* the row of one whose entry another's delete may have removed with its address.
NothingLeft ==
    (\A j \in Jobs : Over(j)) =>
        /\ pool = {}
        /\ \A s \in Slots : entries[s] = NoId
        /\ \A r \in rows : \E j \in Jobs : r = Row(j) /\ claim[j] = "raced"
        /\ \A id \in Ids : taps[id] = NoSlot /\ dnat[id] = <<>> /\ shutdown_txs[id] = NoJob

Vms == {Row(j) : j \in {k \in Jobs : HasVm(k)}}

\* What the proxy has in hand for a job.
InHand(j) ==
    CASE call[j] \in {"insert", "publish", "readback"} ->
           [stage |-> call[j], id |-> IdOf[j], slot |-> slot[j]]
      [] call[j] \in {"find", "delrow", "delentry"} ->
           [stage |-> call[j], id |-> IdOf[j], slot |-> target[j]]
      [] OTHER -> [stage |-> "none", id |-> NoId, slot |-> NoSlot]

Use == INSTANCE SessionUse WITH
           Callers <- Jobs, vms <- Vms, calls <- [j \in Jobs |-> InHand(j)]

\* Whatever fails, the sessions are used as the CONNECT handler relies on: no
\* address is registered that a VM still has, and no delete looks for or deletes the
\* session of a VM, although failures give the address back before they delete its
\* session; what is removed by address at the end may be another's.
KeepsContract == Use!Spec

\* A VM is stopped only on a DELETE of its id.
StoppedOnRequest ==
    [][\A j \in Jobs : StopVm(j) => environments[IdOf[j]] = "shutting_down"]_vars

\* A DELETE that was accepted reaches the task, also one that still launches its VM:
\* until the task has been signalled, somebody is on the way to signal it.
DeleteIsHeard ==
    \A j \in Jobs :
        environments[IdOf[j]] = "shutting_down" /\ phase[j] \in {"launch", "running"} =>
            Signalled(j) \/ \E d \in Deleters : deleting[d] = IdOf[j]

\* What GET tells of an environment that is no more is so: of one that has exited
\* nothing is left, VM, address, interface, rules and session (but for a row as in
\* NothingLeft); of one that has failed there never was a VM.
StatusIsTrue ==
    \A id \in Ids :
        /\ environments[id] = "exited" =>
              /\ \A j \in Jobs : IdOf[j] = id =>
                    /\ ~ Holds(j) /\ launched[j] = "over"
                    /\ claim[j] # "raced" => \A r \in rows : r.id # id
              /\ \A s \in Slots : entries[s] # id
              /\ taps[id] = NoSlot /\ dnat[id] = <<>>
        /\ environments[id] = "failed" =>
              \A j \in Jobs : IdOf[j] = id => launched[j] = "failed"

\* A DELETE that was accepted leads to the end of every job of its id.
Ended(id) == \A j \in Jobs : IdOf[j] = id => phase[j] \in {"none", "gone"}
DeleteTearsDown ==
    \A id \in Ids : environments[id] = "shutting_down" ~> Ended(id)

=============================================================================
