# A model of the VM manager and the session proxy

TLA+ specifications of the two programs of this repository, the configurations
that check them with TLC, and proofs for the TLA+ proof system:

* **vm-manager** (`src/crates/vm-manager`) creates environments: a Firecracker VM
  each, with its files, an address, a TAP interface, DNAT rules and a session in
  the proxy;
* **proxy** (`src/crates/proxy`) keeps the sessions, tells VMs apart by source
  address, lets their CONNECT requests through according to the session's
  allowlist, and replaces placeholder keys by real ones.

Contents: [Inventory](#inventory) · [Modules](#modules) · [Runs](#runs) ·
[Where code and documents disagree](#where-code-and-documents-disagree) ·
[Proofs](#proofs) · [Not modelled](#not-modelled) · [Plan](#plan)

## Inventory

| Component | Keeps | Does | Right when |
|---|---|---|---|
| Session store, `session.rs` | a SQLite table (id, address unique) and a hash map by address with the key maps, a mutex each | `create`, `get`, `get_by_ip`, `delete`, `set_key_map`, `list`, `open` (loads unexpired rows) | table and map agree; ids and addresses unique; keys belong to the session |
| Session REST handlers, `proxy.rs:396-567` | nothing | POST: body, secret store, `create`, `set_key_map`, `get`; DELETE; GET | every answer is true of the store; each call takes effect at once |
| CONNECT handler, `proxy.rs:96-319` | a copy of the key map of the session it looked up | looks a peer up by address, then intercepts TLS until the tunnel closes | traffic is treated by the rules of the session of its VM |
| Request reading and rewriting, `proxy.rs:636-882` | buffers | reads a request in pieces, replaces the authorization header | a request arrives whole and once, with the real key |
| Copy loop, `stream.rs` | two buffers | copies both ways until the upstream ends | every byte arrives, nobody waits for ever |
| Secret store client, `vault.rs` | key pairs read at the start | resolves references | only named keys |
| Certificates, `certs.rs` | a CA | issues leaf certificates | – |
| Proxy process, `proxy/main.rs` | – | opens the store in memory, accepts | sessions survive as long as their VMs |
| Environment API, `api.rs` | – | POST: check, address, session, TAP, DNAT, sender, spawn, record; DELETE: mark, signal; GET | a failed create leaves nothing; a DELETE ends its environment and no other |
| VM lifecycle task, `vm.rs` | the VM | launches, waits, stops, tears down | an environment that ended leaves nothing, its status says so |
| Environment state, `state.rs` | `environments`, `shutdown_txs`, the pool of 64 addresses, a lock each | `allocate_ip`, `release_ip` | an address has one holder, and is given back once |
| Host network, `network.rs` | (in the kernel) TAPs, nftables rules | set up and remove, by running `ip` and `nft` | a VM's traffic goes to its own gateway |
| Proxy client, `proxy_client.rs` | – | registers and deletes sessions over a socket | the proxy knows exactly the running VMs |
| File injection, `file_injection.rs` | a staging directory, an image and a mount point named by the id | stages the entries, makes, mounts and fills the image | a VM gets its own files and nobody else's; nothing stays mounted |
| Manager process, `vm-manager/main.rs` | – | start-up, Ctrl+C | what it leaves does no harm to the VMs of the next one |

**Interaction.** A POST to the manager registers a session with the proxy, then
sets up the host; the lifecycle task it spawns undoes both. Handler and task
share the manager's tables and the host's names: the session id, the TAP name
(`tap-` and the id) and the address. The VM
reaches the proxy through the DNAT rule for its TAP, and the proxy finds its
session by the address. The CONNECT handler then serves the tunnel by what it
found, in a task of its own.

**What is hard.** Every request has a task of its own on a multi-threaded
runtime, and every lock is held for one access only, so that each handler is a
sequence of critical sections between which everybody else may run. A handler
fails in the middle, with or without having had its effect; its client may go
away, which cancels it at whatever await it has reached, while a call that it has
made runs on in the proxy. A failed create gives its address back first and cleans up
after that, when the address may be another's already. A DELETE comes before
the launch, twice, or while another create of the same id is under way. The
proxy restarts, and so does the manager, whose VMs, interfaces and sessions
survive it. Tunnels outlive the lookup they were opened with. A request comes in
pieces that have nothing to do with its parts, and its client may wait for an
answer in the middle of it. One loop serves both directions of a tunnel, and
waits for a peer that does not read. `PROJECT.json` lists each of these hazards
at its line with the properties that watch it.

## Modules

| Module | Models | |
|---|---|---|
| `SessionRegistry` | the promise of the session API | one registry; every call takes effect at one instant |
| `SessionStore` | `session.rs` and the POST, DELETE and GET handlers of `proxy.rs` | one action per critical section |
| `SessionStoreProofs` | – | types, uniqueness, own keys, agreement of table and map; the store implements the registry |
| `VmManager` | POST and DELETE of `api.rs`, the task of `vm.rs`, `state.rs`, the end of the manager, and what `network.rs` and `proxy_client.rs` do to the host and the proxy | one action per await |
| `VmManagerProofs` | – | types, exclusive addresses |
| `SessionUse` | what the manager owes the proxy | one action per critical section of a call |
| `VmManagerConnected` | – | running VMs stay connected, their files apart; VMs keep their sessions; the manager keeps to `SessionUse` |
| `VmManagerEnds` | – | nothing is left, no VM stops without a DELETE, every DELETE is heard, and records tell the truth |
| `ConnectHandler` | `handle_connect` and the task of a tunnel, over the steps of `SessionUse` and the key maps | one action per await |
| `ConnectHandlerProofs` | – | types, and the session and the keys of a tunnel |
| `InnerRequest` | `read_http_request`, `rewrite_request` | one action per read |
| `InnerRequestProofs` | – | types, what was read is passed on, the first request is keyed, one whole request is read |
| `StreamCopy` | `copy_bidirectional` | one action per read and per partial write |
| `StreamCopyProofs` | – | types, no byte lost, whole answers, nobody waits in vain, every step counts |
| `FileInjection` | `prepare` and `stage_file` | one action per entry and per command |
| `FileInjectionProofs` | – | types, mounts, a VM's own image |
| `MC...` | – | instances of the five detailed modules and of `SessionStore` for TLC |

The modules meet where the components do. `SessionStore` implements
`SessionRegistry` for clients that keep its contract. The manager does not keep it,
so that `VmManager` has the critical sections of the store's `create` and `delete` as
steps of its own (without the key maps), in any order with everybody else's. How these
steps lie around the lives of the VMs is said by `SessionUse`, which `VmManager`
implements and on which `ConnectHandler` is built: of handlers, tasks and hosts it
knows nothing. In a tunnel's task the stage `read` is
`InnerRequest`, and the stage `copy` is `StreamCopy`. `FileInjection` is a part
of `VmManager`'s `Launch`; that the jobs of one id come one after the other
there is `FilesApart` of `VmManager`.

An operator that comes in two forms, `X` and `X_Something`, shows by the second
what the code would do with a plausible bug in it. No next-state relation uses
it.

### SessionStore

`rows` is the table, `sessions` the map (address to entry), `phase` and `req` are
the program counter and the locals of the request that a worker serves, `reply`
is its last answer, `now` the wall clock.

| Action | Code |
|---|---|
| `RejectBody`, `BeginCreate` | `handle_create_session` up to and including the duplicate check of `create`, under the first table lock |
| `InsertRow` | the INSERT, under a second table lock; a violated constraint is the 500, as is any other error (`SqlErrors`) |
| `PublishEntry` | the insertion into the map with an empty key map |
| `SetKeyMap` | `set_key_map`, only if references were resolved; by id, its result ignored |
| `ReadBack` | `store.get(id).unwrap()`: a panic, and a closed connection, if the session has gone |
| `BeginDelete`, `DeleteRow`, `DeleteEntry` | `delete`: the scan for the address, the row by id (an error is the 500, and row and entry stay), the entry by address |
| `GetSession` | `handle_get_session` |
| `Restart` | the process ends anywhere; `open` removes expired rows and loads the rest without keys (`Durable`), or `in_memory` starts empty |

A key map is the set of references it holds pairs for, an allowlist the set of
references it names; times are small naturals. The two SELECTs of `create` count an
error as absence (`unwrap_or(false)`); that error is left out. `Isolated` is a contract
of the clients: a delete and another request for its id or address do not overlap. The
manager keeps it for an environment that comes to life, since its task deletes the
session, and only then gives the address back, after its handler's POST was answered.
Its failure paths give the address back *before* they delete the session
(`api.rs:316-317`, `327-331`), so that another create may get it in between, and two
requests of one id may overlap anyhow. What happens to the store then is
`store_thread_safe`, and what it does to environments is told under VmManager.

### SessionRegistry

The abstract specification. `sessions` maps addresses to sessions; a call is
asked for, takes effect, and is answered. It says: no id or address twice; 409
and 500 only if another session, or another call, is in the way, or the statement
fails, which has then changed nothing; 201 only about
a session that is there with its keys; 204 only when the session that the client
named has gone; a restart may lose keys, expired sessions and calls in progress,
and of a durable registry nothing else. `SessionStore!ImplementsRegistry` maps
the map of the store to the registry's sessions, and the phases of a request to
the stages of a call. Uniqueness of ids in the map and the fact that `ReadBack`
finds its session follow from it.

### VmManager

A *job* is one POST and, once spawned, its lifecycle task. `environments`,
`shutdown_txs` and `pool` are the tables of `state.rs`; `rows` and `entries` are the
table and the map of the proxy, `call` is what the proxy has yet to do for a job's call
and `target` the address that a DELETE has found; `taps` and `dnat` are the host's
interfaces and prerouting rules. `step` is the await that the handler of a job stands
before, `phase` the one of its task, `slot` its address, `launched` its VM, `answer` its
answer; `deleting` is the id that a DELETE has marked and is about to signal. `claim` is
a history variable, see below.

| Action | Code |
|---|---|
| `CheckDuplicate` | body, id, image; 409 if there is a record of any status |
| `AllocateIp` | `allocate_ip`: the lowest free address, or 500 |
| `SetupTap`, `AddDnat` | `setup_tap_interface`, `add_dnat_rule`, each done, failed, or failed in part |
| `GiveBack`, `HandlerCleansTap` | the failure paths, in the order of the code: address first; the delete of the session last |
| `ArmAndSpawn`, `StoreRecord` | the sender, the spawn, and the record under the next lock; 201 |
| `HandlerDropped` | hyper drops the handler of a client that has gone; a command it was waiting for may still have its effect, and a call runs on |
| `Launch`, `MarkFailed` | `launch_vm` and the failure branch; a launch that fails may leave a process (`vm.rs:328`) |
| `StopVm` | the receiver completes, because the sender was used or because it was dropped; an error of `vm.shutdown` is logged only |
| `TaskRemovesDnat`, `TaskCleansTap`, `TaskReleases`, `MarkExited`, `Disarm` | the teardown |
| `MarkShuttingDown`, `SendShutdown`, `DeleterDropped` | `handle_delete_environment`, its two locks |
| `InsertRow`, `PublishEntry`, `ReadBack` | the proxy at work on a POST of a session: `create`, then `get().unwrap()` |
| `FindEntry`, `DeleteRow`, `DeleteEntry` | on a DELETE: `delete` by its three critical sections; without an entry of the id it touches nothing, the row neither |
| `CallLost` | a call that does not reach the proxy, or ends there with an error, or whose proxy has died |
| `VmExits`, `ProxyRestarts` | the outside world |
| `ManagerRestarts` | Ctrl+C, or any other end, and a new start: tables, handlers and tasks are gone; sessions, interfaces and VMs stay, and so do the rules unless `main` has come to delete their table |

A sender is in `shutdown_txs` as the job whose task listens to it. The receiver
of a job completes exactly when that sender has left the table: `remove` followed
by `send` (DELETE), `remove` at the end of *any* task of that id, and an insert
under the same id all take it out. This is why `Signalled` is defined by the
table. An address is the number of its /30; NumSlots is the size of the pool.

`remove_dnat_rule` deletes the rules of a TAP one by one and ignores each failure:
with `clean_dnat` any of them may stay (`Remainders`). The TAP of an id is named
"tap-" and its first twelve characters, which is cut from ids of more than twelve; but
sixteen characters are one more than the kernel takes for the name of an interface, so
that an id of twelve or more is refused by `ip tuntap add` (the fault `tap`), and ids
that get an interface never share one. This is why the interface goes by the id.

The proxy serves each of the two calls without an await once it has read the request,
so that a caller that goes away, or whose manager ends, does not stop it: a call that
nobody awaits any more goes through all its steps, or never reached the proxy.

**The race of a failed create.** The model has it as the code does. A create that fails
at TAP or DNAT gives its address back; its DELETE scans for the address and deletes the
row; another create is given the address, finds no row of it, inserts its own, publishes
its entry and is answered 201; then the DELETE removes "its" entry by address. The VM of
the other create runs without a session, each CONNECT of it is forbidden, and its own
DELETE later finds no entry and leaves its row, which refuses id and address from then
on. Two environments of their own ids and one fault are enough; TLC finds it in a second
when the exception is taken out of `VmKeepsSession`. `claim` marks the sessions that
this can happen to, at the moment they are published: "raced", when a delete has found
the address and not yet removed its entry; and "forgotten" the ones that a restart of the
proxy has lost. The properties name these exceptions and claim everything else.

Of the VMs that were being launched when the manager ended, `ManagerRestarts` lets
any come up: their processes do not end with the manager's.

`Faults` names the failures that may happen in an instance; a property that
holds only without some of them is checked without them, and that is said below.

### SessionUse

The other side of `ConnectHandler`: how the steps of the calls of the session API and
the lives of the VMs lie in time. `rows` and `entries` are table and map, `vms` the VMs
that are there, from the 201 of their session until they have stopped, failed or been
given up, and `calls` the call in hand for each caller, by its next critical section. It
says: an address is registered only while no VM has it (`Insert`, `Publish`), a VM comes
into being only with its session (`Confirm`), and a row is deleted only while no VM has
its session and no create of its id is past its INSERT (`DeleteRow`). Of the last step of
a delete, the removal by address, it says nothing (`DeleteEntry`): by then the address
may have been registered again and have a VM, as told above. The proxy may forget its
sessions at any time (`Lose`). `VmManager!KeepsContract` maps `vms` to the jobs that have
a VM (`HasVm`), also one that outlived its manager, and `calls` to what the proxy has in
hand (`InHand`).

### ConnectHandler

`rows`, `entries`, `vms` and `calls` are those of `SessionUse`, and each of its steps is
a step here; `keys` is the key map of the entry at an address, `unset` the one that a
create has yet to store; `tunnel` is a CONNECT with the copy of the keys that it took.
`asked` (the references that the session at an address was created with) and `spoiled`
are history variables.

| Action | Code |
|---|---|
| `Call`, `End` | the manager makes a call; it fails, or finds nothing |
| `InsertRow`, `Publish`, `SetKeys`, `Confirm` | `handle_create_session`, by its critical sections; the entry comes without keys, and `set_key_map` looks it up by id again |
| `FindEntry`, `DeleteRow`, `DeleteEntry` | `handle_delete_session` |
| `VmsEnd` | VMs stop, fail to start, or are given up |
| `Connect` (`Forbid`, `Admit`) | the lookup by peer address and the allowlist; 403, or 200 with the copy of the key map |
| `Proceed` | TLS with the client, TCP and TLS with the upstream, one after the other |
| `Swap`, `Upgrade` | the first request: its placeholder is looked up in the copy, or it opens a websocket and passes as it is |
| `Drop` | anything fails, the client does not begin TLS in time, or the copy loop ends |
| `ProxyRestarts` | the proxy ends and its tunnels with it |

`spoiled` are the addresses whose session was published while a delete was about to
remove the entry there, or beside an entry of the same id that such a delete has left,
and those whose VM was there when the proxy restarted: nothing in the code gives such a
VM its session and its keys back. The module takes `SessionUse` with its restarts.
`VmManager` was shown to implement it with a proxy that keeps its sessions for any jobs
and any end of the manager; where the proxy restarts, for jobs of their own ids under
one manager. What the module says of restarts is so much the less: with shared ids or a
second manager *and* a restarted proxy, an address may be registered under a VM that is
still up, and such a VM's CONNECT would find the session of another.

### InnerRequest

A stream is a sequence of tokens, each a line of headers or a piece of a body; a
read returns any number of those that have arrived. `buf` is the buffer of
`read_http_request`, `phase` says which of its loops is reading, `out` is what
the upstream was sent.

| Action | Code |
|---|---|
| `ReadHeaders` | the first loop: until `find_header_end`, then httparse, and on to the kind of body |
| `ReadChunked` | `read_chunked_body`: until the byte pattern that ends the last chunk, cutting off what follows it |
| `ReadLength` | until Content-Length bytes are there, by reads that ask for no more |
| `EndOfStream`, `ReadFails` | `Ok(0)`: an error in the headers, the end of the body in the body; and a read that returns an error, anywhere |
| `Decide` | `is_websocket_upgrade` and `rewrite_request`: passed on as it is, rewritten, or refused |
| `Copy` | from then on the copy loop, which rewrites nothing |
| `WriteFails` | the upstream has gone |
| `ClientSends`, `ClientEnds`, `LosesPatience` | a client sends all at once, or request by request, or its body only when told to |

`Rewritten` follows the code in looking at all the lines of the buffer, those of
the body included. `RequestLength` is the reference: where a request ends by HTTP.
A conversation gives the stream and where each of its requests ends. What
`ConversationsAssumption` asks of it is that it begins with a request whose headers
have an end, and that a last chunk is the last of a request; what else a client
sends is left open, as are the key map and the size of a read.

### StreamCopy

Bytes are counted, not named: each connection keeps their order. `inbound` and
`outbound` are what a connection holds in each direction, `held` is the loop's
buffer, `at` where the loop stands. The peers' habits are chosen at the start.

| Action | Code |
|---|---|
| `SelectRead` | a branch of `select!` that found bytes |
| `Write` | `write_all`, some bytes at a time; the loop does nothing else until all are out |
| `UpstreamEnds` | end of the upstream: the loop returns |
| `ClientEnds`, `DrainRead`, `DrainEnds` | end of the client: from here on the upstream alone is read, until its end; it is not told |
| `Fail` | an error of a connection that is used |
| `PeerSends`, `PeerReceives`, `PeerEnds`, `PeerGoes` | the peers; what their habits and their connections let them do is `CanSend`, `CanReceive`, `CanEnd` |

### FileInjection

A tree is a set of files, each a path and its data; an entry of a request is a
guest path and the trees its source may give (a clone may give the wanted ref or
the head of the repository, as the result of `git checkout` is ignored).

| Action | Code |
|---|---|
| `Begin` | `prepare`, which has nothing to do without entries |
| `StageFile`, `AllStaged` | the loop over the entries with `stage_file`, which fails where a file stands in the way of a directory |
| `CreateImage` | `File::create` and `set_len`, which empty an image that is there |
| `MakeFs` | `mkfs.ext4 -F`, which refuses a mounted image if it can find out (`AsRoot`) |
| `MountImage`, `CopyFiles`, `Unmount` | the other three commands, each done or failed; the copy also in part |

`mount`, `cp` and `umount` are run with sudo, `mkfs.ext4` is not. Whether a file is
mounted it learns from the loop devices, which only root may read: `AsRoot` says that
the manager itself runs as root. Without it the step is taken all the same, an image may
be mounted twice, and `ImageIsOwn` fails. Image and mount point are named by the id and
outlive the job: an earlier one that failed may have left them in any state that a later
one then finds.

## Runs

### What holds

| Run | Shows |
|---|---|
| `store_isolated` | `TypeOK`; `Agreement`: table and map differ only about a session that a request is between writing and removing; `ImplementsRegistry`. All with restarts at every point, creates racing creates, and statements that fail |
| `store_concurrent` | without the contract: `UniqueRows`; `OwnKeys`: a session never holds keys that no request for its id named, although `set_key_map` looks it up again later |
| `vm_own_ids` | two environments, `register`, `tap`, `dnat` and `launch` may fail, and the proxy restarts: `VmKeepsSession`, a VM keeps its row and its entry; `NothingLeft` once both are over, whichever way; `KeepsContract`, the sessions are used as `SessionUse` says; `StoppedOnRequest`: no VM stops without a DELETE of its id; `DeleteIsHeard`: a DELETE that has marked the record has signalled the task, or is about to, also while the VM is being launched; `StatusIsTrue`: a record says `exited` only when VM, address, session, rules and interface are gone, and `failed` only when there never was a VM; under `FairSpec`, `DeleteTearsDown`: a DELETE that was accepted leads to the end of every task of its id, also when it comes before the launch or twice |
| `vm_retried` | two requests for one id, two deleters, every fault but `stray` and `stop`: `AddressesExclusive`, the pool is exactly the addresses held, and none is held twice; `FilesApart`, no two VMs use the image, jail and socket of one id at once, also when one of them has outlived its manager |
| `vm_shared_ids` | three requests, two of one id, VMs that do not start or stop as they should (`stray`, `stop`) and ends of the manager that leave VMs and calls behind: `TypeOK`; `RunningIsConnected`: a running VM has its interface and exactly its rule; `VmKeepsSession` and `KeepsContract`, also with one id for two jobs |
| `tunnels` | sessions of the same ids and addresses that come, go and meet, VMs, tunnels and restarts of the proxy: `TypeOK`; `VmHasItsSession`, keys included, from the 201 to its end, unless its address is `spoiled`; `OwnPlaceholdersWork`: no tunnel of such a VM is refused for a placeholder of its own session; `OnlyOwnKeys`: none ever holds a key of another session |
| `request_read` | fourteen conversations cut into reads in every way and ended anywhere: `TypeOK`; `PassedOnWhole`: apart from the rewritten lines, the upstream gets what was read; `FirstRequestKeyed`: with the real key and no other credential; `ReadsOneRequest`: the proxy reads until one whole request, as HTTP frames it, is there, and not for longer; under `FairSpec`, `RequestIsDecided`, also if client and proxy each wait for the other |
| `copy_served` | two peers of every combination of habits: `TypeOK`; `NoByteLost`; `AnswerIsComplete`: the loop ends without an error only with the whole answer passed on; `StandsStillWhenDone`: loop and peers wait for each other only when all is said and done; `EveryStepCounts`: each step leaves less to do; under `FairSpec`, `BothServed`: compatible peers get everything, and `LoopEnds` |
| `files_built` | three jobs, two of one id, each command may fail: `TypeOK`; `MountedIsExplained`: an image stays mounted only if a job of its id failed; `ImageIsOwn`: a VM gets exactly the files of its own request, in an image that is mounted nowhere |

**Bounds.** *The store:* two workers, two ids, two addresses, and four bodies that
collide in an id, in an address and in neither, with no, known and unknown
references, one of them expiring; the clock goes to 1. Two requests are enough
for every race of two critical sections, a restart adds the third party, and ids
and addresses are freed and used again without bound. `Durable` is TRUE in the
runs, which is the richer case: what an in-memory store does on a restart is what
a durable one does with an empty table. The theorems cover both. *The manager:*
two jobs (three in `vm_shared_ids`, where the third must find what the other two left),
two addresses, so that one job can have the address another has given back
and the pool can run out with three jobs; DELETE and restarts are unlimited.
*Tunnels:* two API calls at a time, which is what a race needs, two ids, one of which
asks for a key or for none, two addresses, and one CONNECT that may be made again and
again, since tunnels know nothing of each other; sessions follow each other without
bound. *Requests:* one conversation for each way in which a request can be framed (none,
Content-Length, twice that, chunks, chunks with trailers), keyed and followed by
another; reads of up to four tokens, so that headers and body, or two requests,
may share one. *The copy loop:* six bytes one way and four the other, buffers of
two, and connections that hold two and one, so that each place can be full and
each write partial. *Files:* three jobs and six requests, whose entries overlap as
file over file, file over directory, and directory over file, or have no content.
That the results do not depend on these sizes is what the theorems add.

**Deadlock** is checked for the store and for the tunnels, whose clients never
cease. The other instances are finite: all jobs, conversations or bytes are used
up in the end, and such a state is an end and not an error. That nothing is stuck
before is `DeleteTearsDown`, `RequestIsDecided`, `BothServed` and `LoopEnds`.

**Fairness.** `VmManager!FairSpec` gives each handler, each task, each DELETE that has
begun and the proxy, for each call it has, weak fairness. They are tasks of a runtime
that polls whatever is ready; what they wait for ends: locks are released after one
access, `ip` and `nft` return, the VM is killed if it has not stopped after eight
seconds (`vm.rs`), and the proxy's handlers of these two calls await nothing once they
have the request. The manager sets no limit on a call (`http_over_unix`), so that a
proxy that hangs would hold a task for ever; that is left out. `StreamCopy!FairSpec` and
`InnerRequest!FairSpec` likewise poll the tunnel's task when there is something for it
to read, write or decide. There the peers are part of the question: they do in the end
what their habits allow them to do, and a client does not wait for `100 Continue` for
ever. Nobody is assumed to call, to end a stream of its own accord, or to fail. The
choice between the branches of `select!` is left open: no fairness is given to one
branch.

**Faults left out, and why.** `vm_own_ids` leaves out those kinds of fault after
which something does stay behind and nothing in the code would remove it:
those after which the handler does not know what it did (`register_lost`,
`tap_partial`, `dnat_partial`), undoing that fails (`unregister`, `clean_tap`,
`clean_dnat`, whose errors the code ignores), a VM that is not what the task takes it for
(`stray`, `stop`), a cancelled handler (`disconnect`), and the end of the manager
(`manager_end`). The theorem `NothingStaysLeft` adds `vm_exit`. The run also gives each
job its own id: with one id for two jobs, a delete whose row is gone lets the second in
at another address while the map still has the first's entry; the second's delete may
find that one, and its own entry stays. `StatusIsTrue` and `StoppedOnRequest` fail, too
(`vm_same_id`). `vm_retried` leaves out `stray` and `stop`, after either of which a
process goes on using the files of an id that the next job is given.
`vm_shared_ids` has the faults that leave a VM behind while other jobs go on. Rules that
are changed in part (`dnat_partial`, `clean_dnat`) break `RunningIsConnected`; with all
other faults it is proved (`RunningStaysConnected`), and so is `VmKeepsSession`
(`VmsKeepTheirSessions`), which with one id for two jobs does not outlast a restart of the
proxy (`proxy_restart`): the teardown of the one deletes the session of the other by
their id.

**Conditions in the properties of the tunnel.** They say where the code stops
keeping a promise, and each is needed: TLC finds the property violated without it.

* `Compatible` in `BothServed` and `StandsStillWhenDone`: a peer that writes everything
  before it reads, against one that does so too or that answers as it goes, fills the
  buffers of both directions, and the one loop waits for ever. A peer that waits for the
  end of the other's stream waits for something that the loop does not pass on. And two
  that answer only wait for each other. `WaitsForRequest` excuses the upstream that ends
  before it has the request.
* `PassedOnWhole`: the pattern `0\r\n\r\n` inside the data of a chunk is taken for the
  end (`PatternInBody`), and what follows it in the same read is dropped, as is a
  request that is pipelined behind a chunked one (`FollowedAtOnce`). A body that is not
  UTF-8 is changed by `from_utf8_lossy` while its Content-Length stays.
* After the loop has returned, `StreamCopy` still delivers what its connections hold. In
  the code the sockets are closed then, and one that is closed with bytes of the client
  unread may be reset, and lose what is under way to that client. `BothServed` and
  `AnswerIsComplete` count such bytes as delivered.
* `RequestIsDecided`, `ReadsOneRequest`: a chunked body with trailers does not have the
  pattern, so that the reader waits for the end of the stream; and with the pattern in
  the data (`PatternInBody`) it stops too early.

### Where code and documents disagree

Each of these runs checks one sentence of a document, a comment or a message and
finds a behaviour of the code that does not keep it. `PROJECT.json` quotes the
sentence.

| Run | The behaviour |
|---|---|
| `store_thread_safe` | `delete` has removed the row and not yet the entry; a create takes the address; the delete removes the new entry. The new session is in the table, refuses its id and address to others, and no lookup finds it. The manager reaches this by any create that fails at TAP or DNAT while another begins (VmManager, above) |
| `vm_same_id` | two creates of one id pass the check; a failed launch of one removes the sender of the other (`vm.rs:82`; the end of any task does the same at 176), whose VM stops |
| `request_keys` | a client sends a second request on its connection; it reaches the upstream with its placeholder |

Seen in the code while modelling, without a run, because no interleaving is needed
to see them or because a single path of the code shows them. In the proxy:

* the loser of two creates of one session id is answered 500 instead of 409
  (`InsertRow`; `docs/api-contracts.md:298`);
* sessions recovered by `open` have no keys, and nothing fetches them again
  (`Loaded`; `docs/api-contracts.md:470`), and the shipped `main` opens the store
  in memory, so that a restart recovers nothing (`docs/api-contracts.md:455`);
* `expires_at` is looked at by `open` only (`Unexpired`; `docs/api-contracts.md:276`);
* a tunnel keeps its copy of the keys when the session is deleted (`Admit`;
  `docs/api-contracts.md:336`);
* the mode of a domain is not looked at, and a `tunnel` domain is intercepted like
  any other (`Admit`; `docs/api-contracts.md:392`);
* the 403 for an unknown placeholder is written to the upstream, not to the client
  (`Refuse`), a websocket upgrade passes with its placeholder (`Decide`), and of
  the steps of a tunnel only the TLS accept has a time limit (`Proceed`).

In the manager:

* a launch that fails before the record is stored leaves status `running` for ever
  (`MarkFailed`; `vm.rs:67`);
* a failing create gives its address back before its session is deleted, so that
  the next create can get the address and a 409 for an id that is new (`GiveBack`;
  `docs/api-contracts.md:137`), or a session that the delete then takes from it;
* an id of twelve characters or more cannot be created: its TAP name is too long for
  the kernel (`SetupTap`; `api.rs:201-204`, against `helpers.rs:51`, which takes up to
  64); and the rules of an id that contains "handle" are never deleted, as
  `extract_handle` takes the number from behind the first occurrence of the word
  (`RemoveDnat`; `network.rs:229`);
* a guest that powers off is not noticed, though the comment on the `select!`
  says so (`VmExits`; `vm.rs:123`);
* when `add_dnat_rule` fails after its first rule, that rule stays and comes first
  for the next job with the TAP name (`AddDnat`; `docs/specification.md:147`);
* a client that disconnects between spawn and record leaves a VM that no GET
  lists and no DELETE finds (`HandlerDropped`; `docs/api-contracts.md:215`);
* a create is answered 201 before its launch is tried (`StoreRecord`;
  `docs/api-contracts.md:139`), and `timeout_secs` is acted on by nothing
  (`docs/api-contracts.md:111`);
* a DELETE repeated after the teardown, or of an environment that has failed, sets
  `shutting_down` for good (`MarkShuttingDown`; `docs/api-contracts.md:211`);
* an error of `git checkout` is ignored, so that an environment may get the head of
  a repository instead of the ref it asked for (`StageFile`); the files are in the
  image below a directory with the random name of the staging directory
  (`CopyFiles`), and the images are never removed from `/tmp`.

## Proofs

All theorems hold for every value of the constants that the named assumptions of the
modules admit (`IdOf` is a function, `Faults` names faults, `NoJob` and `NoId` are
neither job nor id, `NumSlots` is a natural; the request bodies have their type,
`NoSession` is no entry; buffers and connections have room for at least one byte; a list
of file entries is a sequence; a client's stream begins with a request; the key map maps
keys to keys). Neither jobs, ids, workers, addresses nor tunnels need be finitely many.

| Theorem | Statement |
|---|---|
| `SessionStoreProofs!TypeCorrect` | `Spec => []TypeOK` |
| `SessionStoreProofs!UniqueRowsHold` | `Spec => []UniqueRows` |
| `SessionStoreProofs!OwnKeysHold` | `Spec => []OwnKeys` |
| `SessionStoreProofs!AgreementHolds` | `Isolated` implies `Spec => []Agreement` |
| `SessionStoreProofs!StoreImplementsRegistry` | `Isolated` implies `Spec => ImplementsRegistry` |
| `VmManagerProofs!TypeCorrect` | `Spec => []TypeOK` |
| `VmManagerProofs!AddressesAreExclusive` | `Spec => []AddressesExclusive`, under every fault |
| `VmManagerConnected!FilesStayApart` | `NoStrays` implies `Spec => []FilesApart`, under every other fault |
| `VmManagerConnected!RunningStaysConnected` | `HostStateIsWhole` (no `dnat_partial`, no `clean_dnat`) implies `Spec => []RunningIsConnected`, under every other fault |
| `VmManagerConnected!VmsKeepTheirSessions` | `SessionsLast` (no `proxy_restart`) or `OwnIdsOnly` implies `Spec => []VmKeepsSession`, under every other fault |
| `VmManagerConnected!SessionsUsedAsAgreed` | `SessionsLast`, or `OwnIdsOnly` and `ManagerStays` (no `manager_end`), implies `Spec => KeepsContract`, under every other fault |
| `VmManagerEnds!NothingStaysLeft` | `OwnIdsOnly` and `FailuresAreTold` imply `Spec => []NothingLeft` |
| `VmManagerEnds!StopsOnlyOnRequest` | `OwnIdsOnly` implies `Spec => StoppedOnRequest`, under every fault |
| `VmManagerEnds!EveryDeleteIsHeard` | `OwnIdsOnly` and `ClientsStay` (no `disconnect`) imply `Spec => []DeleteIsHeard`, under every other fault |
| `VmManagerEnds!StatusTellsTheTruth` | `OwnIdsOnly` and `FailuresAreTold` imply `Spec => []StatusIsTrue` |
| `ConnectHandlerProofs!TypeCorrect` | `Spec => []TypeOK` |
| `ConnectHandlerProofs!VmsHaveTheirSessions` | `Spec => []VmHasItsSession` |
| `ConnectHandlerProofs!OwnPlaceholdersAlwaysWork` | `Spec => []OwnPlaceholdersWork` |
| `ConnectHandlerProofs!TunnelsHoldOwnKeys` | `Spec => []OnlyOwnKeys` |
| `InnerRequestProofs!TypeCorrect` | `Spec => []TypeOK` |
| `InnerRequestProofs!ReadIsPassedOn` | `Spec => []PassedOnWhole`, for any stream and any reads |
| `InnerRequestProofs!FirstRequestIsKeyed` | `Spec => []FirstRequestKeyed`, for any stream and any reads |
| `InnerRequestProofs!OneRequestIsRead` | `Spec => []ReadsOneRequest`, for any stream and any reads |
| `StreamCopyProofs!TypeCorrect` | `Spec => []TypeOK` |
| `StreamCopyProofs!NoByteIsLost` | `Spec => []NoByteLost`, for buffers of any size |
| `StreamCopyProofs!AnswersAreComplete` | `Spec => []AnswerIsComplete` |
| `StreamCopyProofs!NobodyWaitsInVain` | `Spec => []StandsStillWhenDone`, for buffers and messages of any size |
| `StreamCopyProofs!StepsAreCounted` | `Spec => EveryStepCounts` |
| `FileInjectionProofs!TypeCorrect` | `AsRoot` implies `Spec => []TypeOK` |
| `FileInjectionProofs!MountsAreExplained` | `AsRoot` implies `Spec => []MountedIsExplained` |
| `FileInjectionProofs!ImagesAreOwn` | `AsRoot` implies `Spec => ImageIsOwn`, for requests of any length |

**Arguments.**

* *Types of the manager* need `SlotKnown`: a job that holds an address has one.
  Without it `Row` and `GivenRule` could write `NoSlot`.
* *Exclusive addresses.* `AddressesExclusive` becomes inductive with
  `TaskAfterHandler` (a task exists only when its handler is past `arm`), so
  that handler and task of a job never both hold the address and `release_ip` is
  called once. A step takes an address that nobody holds, gives one back
  while holding it, or changes no holder (`OneMoreHolder`, `OneHolderLess`,
  `SameHolders`).
* *Connected.* The property speaks of running VMs and says nothing of what
  leads there. `ConnectedInv` adds ownership: from `setup_tap` to `clean_tap` a job owns
  the TAP of its id; no two jobs own the same, as `ip tuntap add` refuses what is taken,
  and only owners remove. An interface that is not there has no rule, hence the first
  rule is the owner's. `HostStateIsWhole` excludes the two faults that break this.
* *Files apart.* Who uses the files of an id owns its TAP (`UpIsRunning`,
  `TapsOwned`), and a TAP has one owner. A VM that outlived its manager keeps the
  interface, which refuses the next job of the id; one that was given up (`NoStrays`
  excludes it) does not.
* *Sessions kept.* A job owns its session from the INSERT of the row to the DELETE of it
  (`SessionOwner`), and the proxy has the row unless it has lost it
  (`KeepersHaveRows`). While it does, no other job of the id is past its INSERT
  (`KeepersApart`), so that a DELETE of the id is the owner's own, and none of the
  address. An entry that was published when no delete had found its address stays: who
  finds it later goes by the id and is the owner (`EntriesKept`), who deletes its row
  first. An entry that was not is "raced", and nothing is said of it. Where a call can be
  in hand for a job is told by `CallPlace`; every step begins a call, goes on with one,
  restarts the proxy, or does nothing to any session (`StepKinds`).
* *Sessions used as agreed.* By `StepKinds` a step is one of `SessionUse` if addresses are
  vacant when they must be (`Vacant`, `ContractStep`). They are, for one of two reasons.
  If the proxy keeps its sessions, its table has refused the address to whoever inserts a
  row beside a VM's (`VacantIfSessionsLast`): neither ids nor restarts of the manager
  matter. If it may forget them, the pool takes its place: who has a VM holds its address
  (`NoOrphans`, `AddressesExclusive`), and so does who creates a session
  (`CreatesHeld`, `VacantIfManagerStays`). That reason needs a manager that does not
  forget its pool, and jobs of their own ids, as a DELETE is by id. Neither condition can
  be dropped: with both restarts, a new manager gives out the address of a VM that is
  still up; with two jobs of one id, the teardown of the one deletes the session of the
  other, which the forgetful proxy has let it create. TLC finds both within seconds when
  the instances of `vm_own_ids` and `vm_retried` are given these faults.
* *Nothing left.* The reverse of ownership: every row, entry, interface, rule and
  sender that is there has a job that will remove it (`RowsHaveOwners`,
  `EntriesHaveOwners`, `TapsHaveOwners`, `RulesHaveOwners`, `SendersHaveTasks`), and a job
  that is over owns nothing. A row may also be one whose owner is "raced": its entry may
  have gone with another's address, and its DELETE then finds nothing. Of an entry that is
  there the DELETE of its own job finds it, and that one (`HitsOwn`), which needs ids of
  their own. `FailuresAreTold` excludes the faults after which nobody knows.
* *Stopped on request.* With one job for each id, the record is written by the
  last step of the handler (`RecordedLast`), a DELETE marks before it signals
  (`MarkedFirst`), and a sender leaves the table in no other way while its task
  waits (`SenderStays`).
* *Every DELETE is heard.* With the same invariant `DeleteIsHeard` is inductive: the
  sender is in the table before there is a record, so that whoever finds the record
  to mark also finds the sender, and a sender once gone does not come back. Only a
  client that hangs up between the two locks of its DELETE (`DeleterDropped`) leaves
  a record that is marked and a task that nobody signals; `ClientsStay` excludes it.
* *Records tell the truth.* Where a task stands tells what became of its VM
  (`PhaseTells`), and the record what became of the task (`RecordTells`): `exited` is
  written behind the release of the address, `failed` when the launch has failed, and
  nobody but the own task writes either. With the owners of *Nothing left*, a session,
  interface or rule under the id would belong to a job that owns nothing any more.
  Ids must be the job's own: the record of one would tell of the other.
* *Own keys.* The request that a worker serves is one that was posted
  (`PostedRequests`), and `set_key_map` writes by id, hence only to sessions of
  the id that asked.
* *Agreement.* `StoreInv`: the contract as state (`KeptApart`, `StoredApart`), and
  what a create or a delete has done so far (`CreateProgress`, `DeleteProgress`).
* *Refinement.* With `StoreInv`, every critical section is a step of the
  registry or changes nothing of it: the entry of the map is what counts
  (`PublishEntry` is `Register`, `DeleteEntry` is `Remove`, the row is invisible
  except to a restart and to another create, whose loss is `Lose` or `Refuse`).
* *Tunnels.* The table tells creates apart, and no VM has the address of one
  (`RowsInv`). At an address with a VM there is its own entry with its own keys, or one
  whose keys are yet to be set, or none any more (`KeysInv`): so a lookup finds the keys
  of the VM that asks, or none, whatever was left over there (`TunnelKeys`,
  `TunnelsHoldOwnKeys`). Where nothing was left over, the entry is the only one of its id
  while `set_key_map` looks for it, and whoever may be about to remove it has a row to
  delete first, which `SessionUse` forbids while the VM is there (`Safe`, `UnspoiledInv`).
* *First request.* What the proxy has in hand is always a beginning of the stream
  (`BufIsPrefix`), with its headers as soon as it decides (`HeadersAreRead`). Nothing
  of it is cut off unless a later request had begun already, and then the client
  has not waited (`SentInTurn`, `NothingCutOff`, by `TerminatorIsLast`). That
  rewriting keeps all other lines and the copy loop goes on from there follows from
  `OnlyConcat` and `OnlyRenamed`: to take the tokens of some kinds commutes with
  cutting a stream in two and with renaming others. The upstream finds in what it
  got the headers that were rewritten (`BeginsRewritten`, `KeyedOnce`). `Only` is a
  recursive function; `OnlyIs` shows that it exists and `OnlyUnique` what
  it is, both by induction over the sets `NatSets` and `SeqSets`.
* *One request.* Each loop of the reader goes on only while what it looks for is not
  there (`Framed`): no end of the headers, no last chunk, fewer bytes than
  Content-Length says. It looks at the buffer, and the property speaks of the
  stream. The two agree because a beginning of the stream long enough to hold the
  headers has the stream's headers, its kind of body and its Content-Length
  (`ContentLengthOfPrefix`, `WholeStays`), and because what `ReadChunked` cuts off
  lies behind the last chunk (`FramedChunks`).
* *Copy loop.* The buffer is empty whenever the loop is about to read
  (`BufferEmpty`), and it closes on an upstream read to its end (`ReadToTheEnd`).
* *Nobody waits in vain.* `FlowInv` adds what the places of the loop tell: a peer that
  has ended has said all (`SaysAll`), a buffer is written only while it holds
  something (`HoldsWhatItWrites`), the loop drains after it has heard all of the
  client, who has ended (`DrainsAfterClient`), it fails over a peer that is gone
  (`FailsOverGone`), and a peer that answers has heard all before it speaks
  (`HeardFirst`). In a standstill a peer that may send has sent all, and one that
  reads has nothing left to read (`IdlePeers`); a write that is stuck would be for a
  peer that writes first, whose peer has then said nothing yet (`NoFullWrite`). So
  the loop waits in `select` or `drain`, or is over, and in each of these everything
  has arrived (`DoneInSelect`, `DoneInDrain`, `DoneWhenClosed`).
* *Every step counts.* `Left` weighs each byte by the stations it has before it (4
  unsent, 3 unread, 2 in the buffer, 1 written) and adds what each peer and the loop
  can still do once: end, go away, drain, return. A read, a write, a move of the loop
  and a step of a peer each lower it (`ReadCounts`, `WriteCounts`, `MoveCounts`,
  `PeerCounts`), so that no order of steps goes on for ever.
* *Files.* Jobs of an id are at work one at a time (`OneAtATime`); the staging
  directory is what the entries so far amount to (`StagedIsRequested`, by
  `OneMoreEntry`: what a further entry overlays is what it makes be no longer kept); no
  job passes `mkfs.ext4` with an image that another has left mounted
  (`ImageInHand`); and all is staged before the image is made (`AllIsStaged`).

**Only model-checked.** `DeleteTearsDown`, `RequestIsDecided`, `BothServed` and
`LoopEnds` are liveness under fairness, which the prover does not do. Their safety is
proved. For the copy loop that is nearly all: by `StepsAreCounted` a tunnel stands still
after finitely many steps, and by `NobodyWaitsInVain` both properties hold there, as what
they ask for is not undone again. For `DeleteTearsDown` it is `EveryDeleteIsHeard`: the
task is signalled, and from there its steps and those of its call follow one another
without a condition. For `RequestIsDecided` it is `OneRequestIsRead`: a reader that goes
on has not seen a whole request. The runs that find a violation are counterexamples and
need no proof.

## Not modelled

* The statistics of sessions (`record_stats` has no caller outside the tests),
  logging, serial output, times other than expiry, request bodies beyond what decides
  a branch, path and id parsing (`helpers.rs`), GET and list, which change nothing.
* `certs.rs`, the TLS handshakes, and the reading of key pairs from standard input
  by `vault.rs`: calls of libraries, without state of their own.
* Two chains are one: the forward rules are added and removed with the prerouting
  rule. The base table and input filter are set up once, at the start, and their
  errors are logged and ignored.
* What `launch_vm` does beyond its files: it succeeds, fails, or fails and leaves a
  process. `vm.shutdown` stops the VM, by a kill if need be, or fails and may leave it.
  The end of the manager in the middle of a build of an image, which could leave it
  mounted.
* An error of the two SELECTs of `SessionStore::create`, which the code takes for
  absence; a proxy that never answers; commands that a handler has begun and that take
  their effect later than the handler's last step.
* Sizes: the limit of 64 headers, reads of 4 KiB, the size of an image.
* That the shipped proxy listens on TCP, whose service refuses the session API,
  while the manager registers over a unix socket: a matter of deployment.
* The image build and the guest's own files.

## Plan

What is left: the start-up of both processes, with the base table, the input
filter and the secrets.
