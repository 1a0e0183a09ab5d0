---------------------------- MODULE VmManagerEnds ----------------------------
(***************************************************************************)
(* How environments end: nothing of them is left behind, and no VM ends    *)
(* unless a DELETE asked for it.                                           *)
(*                                                                         *)
(* NothingLeft speaks of the end only.  What makes it inductive is the     *)
(* converse of the ownership of VmManagerConnected: not that every owner   *)
(* has its session, interface and rule, but that each of these has an      *)
(* owner, who will remove it.  A fault after which nobody knows that       *)
(* something is there breaks this, and so does the removal of an entry by  *)
(* its address when another job has been given that address.               *)
(***************************************************************************)
EXTENDS VmManagerConnected

USE DEF HandlerAt, TaskAt, Say, Dropped, Calls, handlerVars, hostVars, storeVars, proxyVars

\* The handler is told of each failure, nothing is done in part, and a removal
\* that is asked for takes place.
FailuresAreTold ==
    Faults \subseteq {"register", "tap", "dnat", "launch", "vm_exit", "proxy_restart"}

\* Whoever waits for a DELETE of a session is there until its answer.
NobodyDropped == \A j \in Jobs : ~ Dropped(j)
DeletesHeld   == \A j \in Jobs : call[j] \in {"find", "delrow", "delentry"} => Unregistering(j)

\* Of the id of a job a DELETE finds the entry that the job had made.
HitsOwn == \A j \in Jobs : call[j] \in {"delrow", "delentry"} => target[j] = slot[j]

\* The entry is removed after the row.
EntryOwner(j) == SessionOwner(j) \/ call[j] = "delentry"

RowsHaveOwners ==
    \A r \in rows : \E j \in Jobs :
        r = Row(j) /\ claim[j] # "forgotten" /\ (SessionOwner(j) \/ claim[j] = "raced")

EntriesHaveOwners ==
    \A s \in Slots : entries[s] # NoId =>
        \E j \in Jobs : EntryOwner(j) /\ IdOf[j] = entries[s] /\ slot[j] = s

TapsHaveOwners ==
    \A id \in Ids : taps[id] # NoSlot => \E j \in Jobs : TapOwner(j) /\ IdOf[j] = id

RulesHaveOwners ==
    \A id \in Ids : dnat[id] # <<>> => \E j \in Jobs : RuleOwner(j) /\ IdOf[j] = id

SendersHaveTasks ==
    \A id \in Ids : shutdown_txs[id] # NoJob =>
        \E j \in Jobs : IdOf[j] = id /\ phase[j] \notin {"none", "gone"}

HeldInv       == NoOrphans /\ CreatesHeld /\ NobodyDropped /\ DeletesHeld
RestHasOwners == RowsHaveOwners /\ EntriesHaveOwners /\ HitsOwn
OwnersInv ==
    /\ TapsInv /\ SessionsInv /\ HeldInv
    /\ RestHasOwners /\ TapsHaveOwners /\ RulesHaveOwners /\ SendersHaveTasks

\* The steps that these faults leave out.
LEMMA ToldSteps ==
    ASSUME FailuresAreTold, [Next]_vars
    PROVE  \/ \E j \in Jobs :
                Handler(j) \/ Task(j) \/ Proxy(j) \/ CheckDuplicate(j) \/ VmExits(j)
           \/ /\ UNCHANGED <<shutdown_txs, taps, dnat, step, phase, slot, launched, answer>>
              /\ ProxyRestarts \/ UNCHANGED <<rows, entries, call, target, claim>>
           \/ /\ UNCHANGED <<rows, entries, call, target, claim, taps, dnat, step, phase, slot,
                             launched, answer>>
              /\ \E d \in Deleters : SendShutdown(d)
<1>1. ~ ManagerRestarts
    BY DEF FailuresAreTold, ManagerRestarts, May
<1>2. \A j \in Jobs : ~ HandlerDropped(j)
    BY DEF FailuresAreTold, HandlerDropped, May
<1>3. CASE ProxyRestarts
    BY <1>3 DEF ProxyRestarts
<1>4. CASE (\E d \in Deleters : SendShutdown(d)) \/ UNCHANGED vars
        \/ \E d \in Deleters : DeleterDropped(d) \/ \E id \in Ids : MarkShuttingDown(d, id)
    BY <1>4 DEF SendShutdown, DeleterDropped, MarkShuttingDown, vars
<1> HIDE DEF vars
<1> QED BY <1>1, <1>2, <1>3, <1>4 DEF Next, Clients, World

-----------------------------------------------------------------------------
(* Sessions *)

LEMMA OwnersBasics ==
    ASSUME OwnersInv
    PROVE  /\ PlaceInv /\ SessionInv /\ TypeOK
           /\ step \in [Jobs -> Steps] /\ phase \in [Jobs -> Phases]
           /\ call \in [Jobs -> Works] /\ launched \in [Jobs -> Lives]
           /\ answer \in [Jobs -> Answers]
           /\ slot \in [Jobs -> Slots \union {NoSlot}]
           /\ target \in [Jobs -> Slots \union {NoSlot}]
           /\ claim \in [Jobs -> {"sole", "raced", "forgotten"}]
           /\ entries \in [Slots -> Ids \union {NoId}] /\ NoId \notin Ids
           /\ \A j \in Jobs : IdOf[j] \in Ids
           /\ \A j \in Jobs : phase[j] # "none" => step[j] \in {"record", "done"}
           /\ \A j \in Jobs : launched[j] = "up" => phase[j] = "running"
           /\ \A j \in Jobs : step[j] \in {"check", "allocate"} =>
                call[j] = "none" /\ phase[j] = "none" /\ launched[j] = "no" /\ claim[j] = "sole"
           /\ \A j \in Jobs : call[j] # "none" => slot[j] \in Slots
           /\ CreatesHeld /\ NobodyDropped /\ DeletesHeld
           /\ HitsOwn /\ CallPlace /\ TargetKnown
BY PlaceBasics, NoIdAssumption
   DEF OwnersInv, SessionsInv, HeldInv, RestHasOwners, NoOrphans, PlaceInv

\* Nobody gives up what he owns, and no address changes hands.
GoesOn ==
    /\ UNCHANGED <<rows, entries, target, claim>>
    /\ \A k \in Jobs :
         /\ SessionOwner(k) => SessionOwner(k)' /\ slot'[k] = slot[k]
         /\ call[k] = "delentry" => call'[k] = "delentry" /\ slot'[k] = slot[k]
         /\ claim[k] = "raced" => slot'[k] = slot[k]
         /\ call'[k] \in {"delrow", "delentry"} => call'[k] = call[k] /\ slot'[k] = slot[k]

LEMMA OwnersGoOn ==
    ASSUME FailuresAreTold, OwnersInv, NEW j \in Jobs,
           Handler(j) \/ Task(j) \/ CheckDuplicate(j) \/ VmExits(j)
    PROVE  GoesOn
<1>0. /\ step \in [Jobs -> Steps] /\ phase \in [Jobs -> Phases] /\ call \in [Jobs -> Works]
      /\ launched \in [Jobs -> Lives] /\ slot \in [Jobs -> Slots \union {NoSlot}]
      /\ PlaceInv
      /\ \A k \in Jobs : phase[k] # "none" => step[k] \in {"record", "done"}
      /\ \A k \in Jobs : launched[k] = "up" => phase[k] = "running"
      /\ \A k \in Jobs : step[k] \in {"check", "allocate"} =>
           call[k] = "none" /\ phase[k] = "none" /\ launched[k] = "no" /\ claim[k] = "sole"
    BY OwnersBasics
<1>1. CASE AllocateIp(j)
  <2>1. /\ step[j] = "allocate" /\ UNCHANGED <<rows, entries, target, claim, phase, launched>>
        /\ \A k \in Jobs \ {j} :
             step'[k] = step[k] /\ call'[k] = call[k] /\ slot'[k] = slot[k]
        /\ call'[j] \in {"none", "insert"}
      BY <1>0, <1>1 DEF AllocateIp
  <2>2. ~ SessionOwner(j)
      BY <1>0, <2>1 DEF SessionOwner
  <2>3. \A k \in Jobs \ {j} : SessionOwner(k) => SessionOwner(k)'
      BY <2>1 DEF SessionOwner
  <2> QED BY <1>0, <2>1, <2>2, <2>3 DEF GoesOn
<1>2. CASE GiveBack(j) \/ HandlerCleansTap(j) \/ MarkFailed(j) \/ StopVm(j)
  <2>1. /\ UNCHANGED <<rows, entries, target, claim, slot>>
        /\ call'[j] = call[j] \/ call'[j] = "find"
        /\ \A k \in Jobs \ {j} :
             /\ step'[k] = step[k] /\ call'[k] = call[k] /\ phase'[k] = phase[k]
             /\ launched'[k] = launched[k]
      BY <1>0, <1>2 DEF GiveBack, HandlerCleansTap, MarkFailed, StopVm
  <2>2. call[j] = "none"
      BY <1>2, <1>0, NoCallThere DEF GiveBack, HandlerCleansTap, MarkFailed, StopVm
  <2>3. SessionOwner(j) => SessionOwner(j)'
    <3>1. CASE GiveBack(j)
        BY <1>0, <2>2, <3>1 DEF GiveBack, SessionOwner
    <3>2. CASE HandlerCleansTap(j) \/ MarkFailed(j) \/ StopVm(j)
      <4>1. call'[j] = "find"
          BY <1>0, <3>2 DEF HandlerCleansTap, MarkFailed, StopVm
      <4> QED BY <4>1 DEF SessionOwner
    <3> QED BY <1>2, <3>1, <3>2
  <2>4. \A k \in Jobs \ {j} : SessionOwner(k) => SessionOwner(k)'
      BY <2>1 DEF SessionOwner
  <2> QED BY <2>1, <2>2, <2>3, <2>4 DEF GoesOn
<1>3. CASE \/ CheckDuplicate(j) \/ SetupTap(j) \/ AddDnat(j) \/ ArmAndSpawn(j) \/ StoreRecord(j)
  <2>1. UNCHANGED <<rows, entries, call, target, claim, slot, launched>>
      BY <1>3 DEF CheckDuplicate, SetupTap, AddDnat, ArmAndSpawn, StoreRecord
  <2>2. \A k \in Jobs : SessionOwner(k) => SessionOwner(k)'
      BY <1>0, <1>3, <2>1 DEF CheckDuplicate, SetupTap, AddDnat, ArmAndSpawn, StoreRecord,
         SessionOwner
  <2> QED BY <2>1, <2>2 DEF GoesOn
<1>4. CASE \/ Launch(j) \/ TaskRemovesDnat(j) \/ TaskCleansTap(j) \/ TaskReleases(j)
           \/ MarkExited(j) \/ Disarm(j) \/ VmExits(j)
  <2>1. UNCHANGED <<rows, entries, call, target, claim, slot>>
      BY <1>4 DEF Launch, TaskRemovesDnat, TaskCleansTap, TaskReleases, MarkExited, Disarm,
         VmExits
  <2>2. \A k \in Jobs : SessionOwner(k) => SessionOwner(k)'
      BY <1>0, <1>4, <2>1 DEF Launch, TaskRemovesDnat, TaskCleansTap, TaskReleases, MarkExited,
         Disarm, VmExits, SessionOwner
  <2> QED BY <2>1, <2>2 DEF GoesOn
<1> QED BY <1>1, <1>2, <1>3, <1>4 DEF Handler, Task

\* What has an owner still has one.
LEMMA SessionsKept ==
    ASSUME OwnersInv, GoesOn
    PROVE  RestHasOwners'
<1>1. \A k \in Jobs : SessionOwner(k) \/ claim[k] = "raced" => Row(k)' = Row(k)
    BY DEF GoesOn, Row
<1>2. RowsHaveOwners'
  <2>1. ASSUME NEW r \in rows
        PROVE  \E k \in Jobs : /\ r = Row(k)' /\ claim'[k] # "forgotten"
                               /\ SessionOwner(k)' \/ claim'[k] = "raced"
    <3>1. PICK k \in Jobs : /\ r = Row(k) /\ claim[k] # "forgotten"
                            /\ SessionOwner(k) \/ claim[k] = "raced"
        BY DEF OwnersInv, RestHasOwners, RowsHaveOwners
    <3> QED BY <1>1, <3>1 DEF GoesOn
  <2> QED BY <2>1 DEF GoesOn, RowsHaveOwners
<1>3. EntriesHaveOwners'
  <2>1. \A k \in Jobs : EntryOwner(k) => EntryOwner(k)' /\ slot'[k] = slot[k]
      BY DEF GoesOn, EntryOwner
  <2> QED BY <2>1 DEF OwnersInv, RestHasOwners, GoesOn, EntriesHaveOwners
<1>4. HitsOwn'
    BY DEF OwnersInv, RestHasOwners, GoesOn, HitsOwn
<1> QED BY <1>2, <1>3, <1>4 DEF RestHasOwners

\* A call that ends without having changed the sessions: its owner had none, or lost
\* it in the race.
LEMMA CallEndsOwners ==
    ASSUME OwnersInv, NEW j \in Jobs, Proxy(j), CallGoesOn(j),
           UNCHANGED <<rows, entries, claim>>, call'[j] = "none",
           \/ call[j] \in {"insert", "broken"} \/ SessionOwner(j)'
           \/ /\ call[j] \in {"find", "readback"}
              /\ \A s \in Slots : entries[s] # IdOf[j]
    PROVE  RestHasOwners'
<1>0. /\ PlaceInv /\ SessionInv /\ UNCHANGED slot /\ (\A k \in Jobs : Row(k)' = Row(k))
      /\ call[j] # "none" => slot[j] \in Slots
      /\ \A k \in Jobs \ {j} :
           /\ call'[k] = call[k] /\ target'[k] = target[k]
           /\ SessionOwner(k)' <=> SessionOwner(k)
    BY OwnersBasics DEF CallGoesOn, Row
<1>1. call[j] \in {"insert", "broken"} => ~ EntryOwner(j)
    BY OwnersBasics DEF EntryOwner, SessionOwner, CallPlace
<1>2. SessionOwner(j) => SessionOwner(j)' \/ claim[j] # "sole"
    BY <1>0, <1>1 DEF EntryOwner, SessionInv, EntriesKept, Keeper
<1>3. RowsHaveOwners'
  <2>1. ASSUME NEW r \in rows
        PROVE  \E k \in Jobs : /\ r = Row(k)' /\ claim'[k] # "forgotten"
                               /\ SessionOwner(k)' \/ claim'[k] = "raced"
    <3>1. PICK k \in Jobs : /\ r = Row(k) /\ claim[k] # "forgotten"
                            /\ SessionOwner(k) \/ claim[k] = "raced"
        BY DEF OwnersInv, RestHasOwners, RowsHaveOwners
    <3>2. claim[k] \in {"sole", "raced", "forgotten"}
        BY OwnersBasics
    <3> QED BY <1>0, <1>2, <3>1, <3>2
  <2> QED BY <2>1 DEF RowsHaveOwners
<1>4. EntriesHaveOwners'
  <2>1. ASSUME NEW s \in Slots, entries[s] # NoId
        PROVE  \E k \in Jobs : EntryOwner(k)' /\ IdOf[k] = entries[s] /\ slot'[k] = s
    <3>1. PICK k \in Jobs : EntryOwner(k) /\ IdOf[k] = entries[s] /\ slot[k] = s
        BY <2>1 DEF OwnersInv, RestHasOwners, EntriesHaveOwners
    <3> QED BY <1>0, <1>1, <3>1 DEF EntryOwner
  <2> QED BY <2>1 DEF EntriesHaveOwners
<1>5. HitsOwn'
    BY <1>0 DEF OwnersInv, RestHasOwners, HitsOwn
<1> QED BY <1>3, <1>4, <1>5 DEF RestHasOwners

\* The proxy removes the row and the entry of a session when its job gives it up.
LEMMA SessionsProxyStep ==
    ASSUME FailuresAreTold, OwnIdsOnly, OwnersInv, NEW j \in Jobs, Proxy(j)
    PROVE  RestHasOwners'
<1>0. /\ step \in [Jobs -> Steps] /\ call \in [Jobs -> Works]
      /\ target \in [Jobs -> Slots \union {NoSlot}]
      /\ claim \in [Jobs -> {"sole", "raced", "forgotten"}]
      /\ entries \in [Slots -> Ids \union {NoId}] /\ NoId \notin Ids
      /\ CreatesHeld /\ NobodyDropped /\ DeletesHeld /\ HitsOwn /\ CallPlace
      /\ PlaceInv /\ (\A k \in Jobs : IdOf[k] \in Ids)
      /\ call[j] # "none" => slot[j] \in Slots
    BY OwnersBasics
<1>1. CallGoesOn(j)
    BY <1>0, ProxyCalls
<1>2. /\ UNCHANGED slot /\ (\A k \in Jobs : Row(k)' = Row(k))
      /\ \A k \in Jobs \ {j} :
           /\ call'[k] = call[k] /\ target'[k] = target[k] /\ claim'[k] = claim[k]
           /\ SessionOwner(k)' <=> SessionOwner(k)
    BY <1>1 DEF CallGoesOn, Row
<1>3. \A k \in Jobs \ {j} : EntryOwner(k)' <=> EntryOwner(k)
    BY <1>2 DEF EntryOwner
<1>4. /\ \A r \in rows : \E k \in Jobs :
           r = Row(k) /\ claim[k] # "forgotten" /\ (SessionOwner(k) \/ claim[k] = "raced")
      /\ \A s \in Slots : entries[s] # NoId =>
           \E k \in Jobs : EntryOwner(k) /\ IdOf[k] = entries[s] /\ slot[k] = s
    BY DEF OwnersInv, RestHasOwners, RowsHaveOwners, EntriesHaveOwners
<1> USE DEF CreateReturns, DeleteReturns
<1>5. CASE InsertRow(j)
  <2>1. CASE /\ rows' = rows \union {Row(j)} /\ UNCHANGED <<entries, target, claim>>
             /\ call[j] = "insert" /\ call'[j] = "publish"
    <3>1. SessionOwner(j)' /\ claim[j] # "forgotten"
        BY <1>0, <2>1 DEF SessionOwner, CallPlace
    <3>2. RowsHaveOwners'
        BY <1>2, <1>4, <2>1, <3>1 DEF RowsHaveOwners
    <3>3. EntriesHaveOwners'
        BY <1>2, <1>3, <1>4, <2>1, <3>1 DEF EntriesHaveOwners, EntryOwner
    <3>4. HitsOwn'
        BY <1>0, <1>2, <2>1 DEF HitsOwn
    <3> QED BY <3>2, <3>3, <3>4 DEF RestHasOwners
  <2>2. CASE UNCHANGED <<rows, entries, claim>> /\ call[j] = "insert" /\ call'[j] = "none"
      BY <1>1, <2>2, CallEndsOwners
  <2> QED BY <1>0, <1>5, <2>1, <2>2 DEF InsertRow
<1>6. CASE PublishEntry(j)
  <2>1. /\ UNCHANGED <<rows, target>> /\ call[j] = "publish" /\ call'[j] = "readback"
        /\ slot[j] \in Slots /\ entries'[slot[j]] = IdOf[j]
        /\ \A s \in Slots \ {slot[j]} : entries'[s] = entries[s]
        /\ claim'[j] \in {claim[j], "raced"}
      BY <1>0, <1>6 DEF PublishEntry
  <2>2. SessionOwner(j)'
      BY <2>1 DEF SessionOwner
  <2>3. RowsHaveOwners'
      BY <1>2, <1>4, <2>1, <2>2 DEF RowsHaveOwners
  <2>4. EntriesHaveOwners'
      BY <1>2, <1>3, <1>4, <2>1, <2>2 DEF EntriesHaveOwners, EntryOwner
  <2>5. HitsOwn'
      BY <1>0, <1>2, <2>1 DEF HitsOwn
  <2> QED BY <2>3, <2>4, <2>5 DEF RestHasOwners
<1>7. CASE ReadBack(j)
  <2>1. /\ UNCHANGED <<rows, entries, claim>> /\ call[j] = "readback" /\ call'[j] = "none"
        /\ step[j] = "register" /\ Registering(j)
      BY <1>0, <1>7 DEF ReadBack, CreatesHeld, NobodyDropped, Registering
  <2>2. CASE CreateReturns(j, "setup_tap", answer[j])
    <3>1. SessionOwner(j)'
        BY <1>0, <2>1, <2>2 DEF SessionOwner
    <3> QED BY <1>1, <2>1, <3>1, CallEndsOwners
  <2>3. CASE \A s \in Slots : entries[s] # IdOf[j]
      BY <1>1, <2>1, <2>3, CallEndsOwners
  <2> QED BY <1>7, <2>2, <2>3 DEF ReadBack, FailuresAreTold, May
<1>8. CASE FindEntry(j)
  <2>1. UNCHANGED <<rows, entries, claim>> /\ call[j] = "find"
      BY <1>8 DEF FindEntry
  <2>2. ASSUME NEW s \in Slots, entries[s] = IdOf[j], call' = [call EXCEPT ![j] = "delrow"],
               target' = [target EXCEPT ![j] = s]
        PROVE  RestHasOwners'
    <3>1. PICK k \in Jobs : EntryOwner(k) /\ IdOf[k] = entries[s] /\ slot[k] = s
        BY <1>0, <1>4, <2>2
    <3>2. slot[j] = s
        BY <2>2, <3>1 DEF OwnIdsOnly
    <3>3. call'[j] = "delrow" /\ target'[j] = s /\ SessionOwner(j)'
        BY <1>0, <2>2 DEF SessionOwner
    <3>4. RowsHaveOwners'
        BY <1>2, <1>4, <2>1, <3>3 DEF RowsHaveOwners
    <3>5. EntriesHaveOwners'
        BY <1>2, <1>3, <1>4, <2>1, <3>3 DEF EntriesHaveOwners, EntryOwner
    <3>6. HitsOwn'
        BY <1>0, <1>2, <3>2, <3>3 DEF HitsOwn
    <3> QED BY <3>4, <3>5, <3>6 DEF RestHasOwners
  <2>3. CASE (\A s \in Slots : entries[s] # IdOf[j]) /\ call'[j] = "none"
      BY <1>1, <2>1, <2>3, CallEndsOwners
  <2> QED BY <1>0, <1>8, <2>2, <2>3 DEF FindEntry
<1>9. CASE DeleteRow(j)
  <2>1. /\ rows' = {r \in rows : r.id # IdOf[j]} /\ UNCHANGED <<entries, target, claim>>
        /\ call[j] = "delrow" /\ call'[j] = "delentry"
      BY <1>0, <1>9 DEF DeleteRow
  <2>2. RowsHaveOwners'
    <3>1. ASSUME NEW r \in rows'
          PROVE  \E k \in Jobs : /\ r = Row(k)' /\ claim'[k] # "forgotten"
                                 /\ SessionOwner(k)' \/ claim'[k] = "raced"
      <4>1. PICK k \in Jobs : /\ r = Row(k) /\ claim[k] # "forgotten"
                              /\ SessionOwner(k) \/ claim[k] = "raced"
          BY <1>4, <2>1, <3>1
      <4>2. k # j
          BY <2>1, <3>1, <4>1 DEF Row
      <4> QED BY <1>2, <4>1, <4>2
    <3> QED BY <3>1 DEF RowsHaveOwners
  <2>3. EntriesHaveOwners'
      BY <1>2, <1>3, <1>4, <2>1 DEF EntriesHaveOwners, EntryOwner
  <2>4. HitsOwn'
      BY <1>0, <1>2, <2>1 DEF HitsOwn
  <2> QED BY <2>2, <2>3, <2>4 DEF RestHasOwners
<1>10. CASE DeleteEntry(j)
  <2>1. /\ UNCHANGED <<rows, claim>> /\ call[j] = "delentry" /\ call'[j] = "none"
        /\ target[j] = slot[j] /\ slot[j] \in Slots /\ entries'[slot[j]] = NoId
        /\ \A s \in Slots \ {slot[j]} : entries'[s] = entries[s]
      BY <1>0, <1>10 DEF DeleteEntry, HitsOwn
  <2>2. ~ SessionOwner(j)
      BY <2>1, OwnersBasics DEF SessionOwner, CallPlace
  <2>3. RowsHaveOwners'
      BY <1>2, <1>4, <2>1, <2>2 DEF RowsHaveOwners
  <2>4. EntriesHaveOwners'
      BY <1>2, <1>3, <1>4, <2>1 DEF EntriesHaveOwners
  <2>5. HitsOwn'
      BY <1>0, <1>2, <2>1 DEF HitsOwn
  <2> QED BY <2>3, <2>4, <2>5 DEF RestHasOwners
<1>11. CASE CallLost(j)
  <2>1. call[j] \in {"insert", "broken"}
      BY <1>0, <1>11 DEF CallLost, FailuresAreTold, May, DeletesHeld
  <2>2. UNCHANGED <<rows, entries, claim>> /\ call'[j] = "none"
      BY <1>0, <1>11 DEF CallLost
  <2> QED BY <1>1, <2>1, <2>2, CallEndsOwners
<1> QED BY <1>5, <1>6, <1>7, <1>8, <1>9, <1>10, <1>11 DEF Proxy

LEMMA RestHasOwnersStep ==
    ASSUME FailuresAreTold, OwnIdsOnly, OwnersInv, [Next]_vars
    PROVE  RestHasOwners'
<1>1. ASSUME NEW j \in Jobs, Handler(j) \/ Task(j) \/ CheckDuplicate(j) \/ VmExits(j)
      PROVE  RestHasOwners'
    BY <1>1, OwnersGoOn, SessionsKept
<1>2. ASSUME UNCHANGED <<rows, entries, call, target, claim, step, phase, slot, launched>>
      PROVE  RestHasOwners'
  <2>1. GoesOn
      BY <1>2 DEF GoesOn, SessionOwner
  <2> QED BY <2>1, SessionsKept
<1>3. ASSUME ProxyRestarts PROVE RestHasOwners'
  <2>1. /\ rows' = {} /\ \A s \in Slots : entries'[s] = NoId
        /\ \A j \in Jobs : call'[j] \in {"none", "broken"}
      BY <1>3 DEF ProxyRestarts
  <2> QED BY <2>1 DEF RestHasOwners, RowsHaveOwners, EntriesHaveOwners, HitsOwn
<1> QED BY <1>1, <1>2, <1>3, SessionsProxyStep, ToldSteps

\* Handlers and tasks wait for the answer, and no handler is dropped.
LEMMA HeldStep ==
    ASSUME FailuresAreTold, OwnersInv, [Next]_vars
    PROVE  HeldInv'
<1>0. /\ step \in [Jobs -> Steps] /\ phase \in [Jobs -> Phases] /\ call \in [Jobs -> Works]
      /\ answer \in [Jobs -> Answers]
      /\ PlaceInv /\ NobodyDropped /\ DeletesHeld /\ NoOrphans /\ CreatesHeld /\ TypeOK
      /\ \A j \in Jobs : phase[j] # "none" => step[j] \in {"record", "done"}
      /\ \A j \in Jobs : step[j] \in {"check", "allocate"} => call[j] = "none"
    BY OwnersBasics DEF OwnersInv, HeldInv
<1>1. NoOrphans' /\ CreatesHeld'
  <2>1. ManagerStays
      BY DEF FailuresAreTold, ManagerStays
  <2> QED BY <1>0, <2>1, NoOrphansStep, CreatesHeldStep
<1> DEFINE Here == NobodyDropped /\ DeletesHeld
           Deleting(k) == call[k] \in {"find", "delrow", "delentry"}
<1>2. ASSUME NEW j \in Jobs, UNCHANGED phase, \A k \in Jobs \ {j} : step'[k] = step[k],
             \A k \in Jobs \ {j} : answer'[k] = answer[k], answer'[j] # "dropped",
             \A k \in Jobs : call'[k] = call[k] \/ call'[k] = "insert", step[j] # "unregister"
      PROVE  Here'
    BY <1>0, <1>2 DEF NobodyDropped, DeletesHeld, Unregistering
<1>3. ASSUME NEW j \in Jobs,
             \/ CheckDuplicate(j) \/ AllocateIp(j) \/ SetupTap(j) \/ AddDnat(j)
             \/ StoreRecord(j)
      PROVE  Here'
  <2>1. /\ UNCHANGED phase /\ step[j] # "unregister" /\ answer'[j] # "dropped"
        /\ \A k \in Jobs \ {j} : step'[k] = step[k] /\ answer'[k] = answer[k]
      BY <1>0, <1>3 DEF CheckDuplicate, AllocateIp, SetupTap, AddDnat, StoreRecord,
         NobodyDropped
  <2>2. \A k \in Jobs : call'[k] = call[k] \/ call'[k] = "insert"
      BY <1>0, <1>3 DEF CheckDuplicate, AllocateIp, SetupTap, AddDnat, StoreRecord
  <2> QED BY <1>2, <2>1, <2>2
<1>4. ASSUME NEW j \in Jobs, GiveBack(j) \/ HandlerCleansTap(j) \/ ArmAndSpawn(j) PROVE Here'
  <2>1. /\ UNCHANGED answer /\ step[j] # "unregister" /\ phase[j] # "unregister"
        /\ \A k \in Jobs \ {j} : /\ step'[k] = step[k] /\ phase'[k] = phase[k]
                                 /\ call'[k] = call[k]
        /\ \/ call'[j] = call[j]
           \/ call'[j] = "find" /\ step'[j] = "unregister"
      BY <1>0, <1>4 DEF GiveBack, HandlerCleansTap, ArmAndSpawn
  <2>2. ~ Deleting(j)
      BY <1>0, <2>1 DEF DeletesHeld, Unregistering
  <2> QED BY <1>0, <2>1, <2>2 DEF NobodyDropped, DeletesHeld, Unregistering
<1>5. ASSUME NEW j \in Jobs, Task(j) \/ VmExits(j) PROVE Here'
  <2>1. /\ UNCHANGED <<answer, step>>
        /\ \A k \in Jobs \ {j} : phase'[k] = phase[k] /\ call'[k] = call[k]
        /\ \/ call'[j] = call[j] /\ (UNCHANGED phase \/ phase[j] # "unregister")
           \/ call'[j] = "find" /\ phase'[j] = "unregister"
      BY <1>0, <1>5 DEF Task, Launch, MarkFailed, StopVm, TaskRemovesDnat, TaskCleansTap,
         TaskReleases, MarkExited, Disarm, VmExits
  <2> QED BY <1>0, <2>1 DEF NobodyDropped, DeletesHeld, Unregistering
<1>6. ASSUME NEW j \in Jobs, Proxy(j) PROVE Here'
  <2>1. /\ \A k \in Jobs : answer'[k] # "dropped"
        /\ \A k \in Jobs \ {j} : /\ step'[k] = step[k] /\ phase'[k] = phase[k]
                                 /\ call'[k] = call[k]
      BY <1>0, <1>6, ProxyMoves DEF NobodyDropped
  <2>2. Deleting(j)' => Deleting(j) /\ UNCHANGED <<step, phase>>
    <3>1. CASE InsertRow(j) \/ PublishEntry(j) \/ ReadBack(j) \/ DeleteEntry(j) \/ CallLost(j)
      <4>1. call'[j] \in {"publish", "readback", "none"}
          BY <1>0, <3>1 DEF InsertRow, PublishEntry, ReadBack, DeleteEntry, CallLost,
             CreateReturns, DeleteReturns
      <4> QED BY <4>1
    <3>2. CASE FindEntry(j)
        BY <1>0, <3>2 DEF FindEntry, DeleteReturns
    <3>3. CASE DeleteRow(j)
        BY <1>0, <3>3 DEF DeleteRow
    <3> QED BY <1>6, <3>1, <3>2, <3>3 DEF Proxy
  <2>3. \A k \in Jobs \ {j} : Unregistering(k)' <=> Unregistering(k)
      BY <1>0, <2>1 DEF Unregistering, NobodyDropped
  <2>4. Deleting(j)' => Unregistering(j)'
      BY <1>0, <2>1, <2>2 DEF Unregistering, NobodyDropped, DeletesHeld
  <2> QED BY <1>0, <2>1, <2>3, <2>4 DEF NobodyDropped, DeletesHeld
<1>7. ASSUME UNCHANGED <<step, phase, answer>>,
             \A k \in Jobs : call'[k] \in {call[k], "none", "broken"}
      PROVE  Here'
    BY <1>0, <1>7 DEF NobodyDropped, DeletesHeld, Unregistering
<1>8. ProxyRestarts => \A k \in Jobs : call'[k] \in {call[k], "none", "broken"}
    BY DEF ProxyRestarts
<1>9. Here'
  <2>1. ASSUME NEW j \in Jobs, Handler(j) \/ CheckDuplicate(j) PROVE Here'
      BY <1>3, <1>4, <2>1 DEF Handler
  <2> HIDE DEF Here
  <2> QED BY <1>5, <1>6, <1>7, <1>8, <2>1, ToldSteps
<1> QED BY <1>1, <1>9 DEF HeldInv
-----------------------------------------------------------------------------
\* An interface is removed when its owner ceases to own it.
LEMMA TapsHaveOwnersStep ==
    ASSUME FailuresAreTold, OwnersInv, [Next]_vars
    PROVE  TapsHaveOwners'
<1>0. /\ step \in [Jobs -> Steps] /\ phase \in [Jobs -> Phases]
      /\ answer \in [Jobs -> Answers]
      /\ launched \in [Jobs -> Lives]
      /\ taps \in [Ids -> Slots \union {NoSlot}]
      /\ \A j \in Jobs : IdOf[j] \in Ids
      /\ \A j \in Jobs : phase[j] # "none" => step[j] \in {"record", "done"}
      /\ \A j \in Jobs : launched[j] = "up" => phase[j] = "running"
      /\ TapsHaveOwners /\ TypeOK
    BY TapBasics, OwnersBasics DEF OwnersInv
<1>1. ASSUME UNCHANGED taps, \A k \in Jobs : TapOwner(k) => TapOwner(k)'
      PROVE  TapsHaveOwners'
    BY <1>0, <1>1 DEF TapsHaveOwners
<1>2. ASSUME NEW j \in Jobs, SetupTap(j) PROVE TapsHaveOwners'
  <2>1. \A k \in Jobs : TapOwner(k) => TapOwner(k)'
      BY <1>0, <1>2 DEF SetupTap, TapOwner
  <2>2. CASE taps' = GivenTap(j) /\ HandlerAt(j, "setup_tap", "add_dnat")
    <3>1. TapOwner(j)'
        BY <1>0, <2>2 DEF TapOwner
    <3>2. \A id \in Ids \ {IdOf[j]} : taps'[id] = taps[id]
        BY <1>0, <2>2 DEF GivenTap
    <3> QED BY <1>0, <2>1, <3>1, <3>2 DEF TapsHaveOwners
  <2>3. CASE UNCHANGED taps
      BY <1>1, <2>1, <2>3
  <2> QED BY <1>2, <2>2, <2>3 DEF SetupTap, FailuresAreTold, May
<1>3. ASSUME NEW j \in Jobs, HandlerCleansTap(j) \/ TaskCleansTap(j)
      PROVE  TapsHaveOwners'
  <2>1. taps' = [taps EXCEPT ![IdOf[j]] = NoSlot]
      BY <1>3 DEF HandlerCleansTap, TaskCleansTap, CleanTap, FailuresAreTold, May
  <2>2. \A k \in Jobs \ {j} : TapOwner(k) => TapOwner(k)'
      BY <1>0, <1>3 DEF HandlerCleansTap, TaskCleansTap, TapOwner
  <2> QED BY <1>0, <2>1, <2>2 DEF TapsHaveOwners
<1>4. ASSUME NEW j \in Jobs,
             \/ CheckDuplicate(j) \/ AllocateIp(j) \/ GiveBack(j)
             \/ AddDnat(j) \/ ArmAndSpawn(j) \/ StoreRecord(j)
      PROVE  TapsHaveOwners'
  <2>1. taps' = taps
      BY <1>4 DEF CheckDuplicate, AllocateIp, GiveBack, AddDnat,
         ArmAndSpawn, StoreRecord
  <2>2. \A k \in Jobs : TapOwner(k) => TapOwner(k)'
      BY <1>0, <1>4 DEF CheckDuplicate, AllocateIp, GiveBack, AddDnat,
         ArmAndSpawn, StoreRecord, TapOwner
  <2> QED BY <1>1, <2>1, <2>2
<1>5. ASSUME NEW j \in Jobs,
             \/ Launch(j) \/ MarkFailed(j) \/ StopVm(j) \/ TaskRemovesDnat(j) \/ TaskReleases(j)
             \/ MarkExited(j) \/ Disarm(j) \/ VmExits(j)
      PROVE  TapsHaveOwners'
  <2>1. taps' = taps
      BY <1>5 DEF Launch, MarkFailed, StopVm, TaskRemovesDnat, TaskReleases,
         MarkExited, Disarm, VmExits
  <2>2. \A k \in Jobs : TapOwner(k) => TapOwner(k)'
      BY <1>0, <1>5 DEF Launch, MarkFailed, StopVm, TaskRemovesDnat,
         TaskReleases, MarkExited, Disarm, VmExits, TapOwner
  <2> QED BY <1>1, <2>1, <2>2
<1>6. ASSUME UNCHANGED <<taps, step, phase, launched, answer>> PROVE TapsHaveOwners'
    BY <1>1, <1>6 DEF TapOwner
<1>7. ASSUME NEW j \in Jobs, Proxy(j) PROVE TapsHaveOwners'
  <2>1. \A k \in Jobs : TapOwner(k) => TapOwner(k)'
      BY <1>0, <1>7, ProxyMoves DEF TapOwner
  <2> QED BY <1>0, <1>1, <1>7, <2>1, ProxyMoves
<1> QED BY <1>2, <1>3, <1>4, <1>5, <1>6, <1>7, ToldSteps DEF Handler, Task

-----------------------------------------------------------------------------
\* A rule is removed when its owner ceases to own it.
LEMMA RulesHaveOwnersStep ==
    ASSUME FailuresAreTold, OwnersInv, [Next]_vars
    PROVE  RulesHaveOwners'
<1>0. /\ step \in [Jobs -> Steps] /\ phase \in [Jobs -> Phases]
      /\ dnat \in [Ids -> Seq(Slots)]
      /\ \A j \in Jobs : IdOf[j] \in Ids
      /\ \A j \in Jobs : phase[j] # "none" => step[j] \in {"record", "done"}
      /\ RulesHaveOwners /\ TypeOK
    BY TapBasics, OwnersBasics DEF OwnersInv
<1>1. ASSUME UNCHANGED dnat, \A k \in Jobs : RuleOwner(k) => RuleOwner(k)'
      PROVE  RulesHaveOwners'
    BY <1>0, <1>1 DEF RulesHaveOwners
<1>2. ASSUME NEW j \in Jobs, AddDnat(j) PROVE RulesHaveOwners'
  <2>1. \A k \in Jobs : RuleOwner(k) => RuleOwner(k)'
      BY <1>0, <1>2 DEF AddDnat, RuleOwner
  <2>2. CASE dnat' = GivenRule(j) /\ HandlerAt(j, "add_dnat", "arm")
    <3>1. RuleOwner(j)'
        BY <1>0, <2>2 DEF RuleOwner
    <3>2. \A id \in Ids \ {IdOf[j]} : dnat'[id] = dnat[id]
        BY <1>0, <2>2 DEF GivenRule
    <3> QED BY <1>0, <2>1, <3>1, <3>2 DEF RulesHaveOwners
  <2>3. CASE UNCHANGED dnat
      BY <1>1, <2>1, <2>3
  <2> QED BY <1>2, <2>2, <2>3 DEF AddDnat, FailuresAreTold, May
<1>3. ASSUME NEW j \in Jobs, TaskRemovesDnat(j) PROVE RulesHaveOwners'
  <2>1. dnat' = [dnat EXCEPT ![IdOf[j]] = <<>>]
      BY <1>3 DEF TaskRemovesDnat, RemoveDnat, FailuresAreTold, May
  <2>2. \A k \in Jobs \ {j} : RuleOwner(k) => RuleOwner(k)'
      BY <1>0, <1>3 DEF TaskRemovesDnat, RuleOwner
  <2> QED BY <1>0, <2>1, <2>2 DEF RulesHaveOwners
<1>4. ASSUME NEW j \in Jobs,
             \/ CheckDuplicate(j) \/ AllocateIp(j) \/ GiveBack(j)
             \/ SetupTap(j) \/ HandlerCleansTap(j) \/ ArmAndSpawn(j) \/ StoreRecord(j)
      PROVE  RulesHaveOwners'
  <2>1. dnat' = dnat
      BY <1>4 DEF CheckDuplicate, AllocateIp, GiveBack, SetupTap,
         HandlerCleansTap, ArmAndSpawn, StoreRecord
  <2>2. \A k \in Jobs : RuleOwner(k) => RuleOwner(k)'
      BY <1>0, <1>4 DEF CheckDuplicate, AllocateIp, GiveBack, SetupTap,
         HandlerCleansTap, ArmAndSpawn, StoreRecord, RuleOwner
  <2> QED BY <1>1, <2>1, <2>2
<1>5. ASSUME NEW j \in Jobs,
             \/ Launch(j) \/ MarkFailed(j) \/ StopVm(j) \/ TaskCleansTap(j) \/ TaskReleases(j)
             \/ MarkExited(j) \/ Disarm(j) \/ VmExits(j)
      PROVE  RulesHaveOwners'
  <2>1. dnat' = dnat
      BY <1>5 DEF Launch, MarkFailed, StopVm, TaskCleansTap, TaskReleases,
         MarkExited, Disarm, VmExits
  <2>2. \A k \in Jobs : RuleOwner(k) => RuleOwner(k)'
      BY <1>0, <1>5 DEF Launch, MarkFailed, StopVm, TaskCleansTap,
         TaskReleases, MarkExited, Disarm, VmExits, RuleOwner
  <2> QED BY <1>1, <2>1, <2>2
<1>6. ASSUME UNCHANGED <<dnat, step, phase>> PROVE RulesHaveOwners'
    BY <1>1, <1>6 DEF RuleOwner
<1>7. ASSUME NEW j \in Jobs, Proxy(j) PROVE RulesHaveOwners'
  <2>1. \A k \in Jobs : RuleOwner(k) => RuleOwner(k)'
      BY <1>0, <1>7, ProxyMoves DEF RuleOwner
  <2> QED BY <1>0, <1>1, <1>7, <2>1, ProxyMoves
<1> QED BY <1>2, <1>3, <1>4, <1>5, <1>6, <1>7, ToldSteps DEF Handler, Task

-----------------------------------------------------------------------------
\* A task removes the sender under its id before it is gone, whosever that is.
LEMMA SendersHaveTasksStep ==
    ASSUME FailuresAreTold, OwnersInv, [Next]_vars
    PROVE  SendersHaveTasks'
<1>0. /\ phase \in [Jobs -> Phases] /\ step \in [Jobs -> Steps]
      /\ shutdown_txs \in [Ids -> Jobs \union {NoJob}]
      /\ \A j \in Jobs : IdOf[j] \in Ids
      /\ \A j \in Jobs : phase[j] # "none" => step[j] \in {"record", "done"}
      /\ SendersHaveTasks /\ TypeOK
    BY OwnersBasics DEF OwnersInv, TypeOK
<1>1. ASSUME \A id \in Ids : shutdown_txs'[id] \in {shutdown_txs[id], NoJob},
             \A k \in Jobs :
                 phase[k] \notin {"none", "gone"} => phase'[k] \notin {"none", "gone"}
      PROVE  SendersHaveTasks'
    BY <1>0, <1>1 DEF SendersHaveTasks
<1>2. ASSUME NEW j \in Jobs, ArmAndSpawn(j) PROVE SendersHaveTasks'
  <2>1. /\ phase'[j] = "launch" /\ \A k \in Jobs \ {j} : phase'[k] = phase[k]
        /\ \A id \in Ids \ {IdOf[j]} : shutdown_txs'[id] = shutdown_txs[id]
      BY <1>0, <1>2 DEF ArmAndSpawn
  <2> QED BY <1>0, <2>1 DEF SendersHaveTasks
<1>3. ASSUME NEW j \in Jobs, Disarm(j) PROVE SendersHaveTasks'
  <2>1. /\ shutdown_txs'[IdOf[j]] = NoJob
        /\ \A id \in Ids \ {IdOf[j]} : shutdown_txs'[id] = shutdown_txs[id]
        /\ \A k \in Jobs \ {j} : phase'[k] = phase[k]
      BY <1>0, <1>3 DEF Disarm
  <2> QED BY <1>0, <2>1 DEF SendersHaveTasks
<1>4. ASSUME UNCHANGED <<shutdown_txs, phase>> PROVE SendersHaveTasks'
    BY <1>1, <1>4
<1>5. ASSUME NEW j \in Jobs,
             \/ CheckDuplicate(j) \/ AllocateIp(j) \/ GiveBack(j) \/ SetupTap(j) \/ AddDnat(j)
             \/ HandlerCleansTap(j) \/ StoreRecord(j) \/ VmExits(j)
      PROVE  SendersHaveTasks'
    BY <1>4, <1>5 DEF CheckDuplicate, AllocateIp, GiveBack, SetupTap, AddDnat,
       HandlerCleansTap, StoreRecord, VmExits
<1>6. ASSUME NEW j \in Jobs,
             \/ Launch(j) \/ MarkFailed(j) \/ StopVm(j) \/ TaskRemovesDnat(j)
             \/ TaskCleansTap(j) \/ TaskReleases(j) \/ MarkExited(j)
      PROVE  SendersHaveTasks'
  <2>1. UNCHANGED shutdown_txs
      BY <1>6 DEF Launch, MarkFailed, StopVm, TaskRemovesDnat,
         TaskCleansTap, TaskReleases, MarkExited
  <2>2. \A k \in Jobs : phase[k] \notin {"none", "gone"} => phase'[k] \notin {"none", "gone"}
      BY <1>0, <1>6 DEF Launch, MarkFailed, StopVm, TaskRemovesDnat,
         TaskCleansTap, TaskReleases, MarkExited
  <2> QED BY <1>1, <2>1, <2>2
<1>7. ASSUME UNCHANGED phase, NEW d \in Deleters, SendShutdown(d) PROVE SendersHaveTasks'
    BY <1>0, <1>1, <1>7 DEF SendShutdown
<1>8. ASSUME NEW j \in Jobs, Proxy(j) PROVE SendersHaveTasks'
  <2>1. \A k \in Jobs : phase[k] \notin {"none", "gone"} => phase'[k] \notin {"none", "gone"}
      BY <1>0, <1>8, ProxyMoves
  <2> QED BY <1>0, <1>1, <1>8, <2>1, ProxyMoves
<1> QED BY <1>2, <1>3, <1>4, <1>5, <1>6, <1>7, <1>8, ToldSteps DEF Handler, Task


-----------------------------------------------------------------------------
LEMMA OwnersInvariant ==
    ASSUME FailuresAreTold, OwnIdsOnly
    PROVE  Spec => []OwnersInv
<1> DEFINE Rest == /\ HeldInv /\ RestHasOwners /\ TapsHaveOwners /\ RulesHaveOwners
                   /\ SendersHaveTasks
<1>1. Init => Rest
    BY DEF Init, HeldInv, NoOrphans, CreatesHeld, NobodyDropped, DeletesHeld, RestHasOwners,
       RowsHaveOwners, EntriesHaveOwners, HitsOwn, TapsHaveOwners, RulesHaveOwners,
       SendersHaveTasks
<1>2. OwnersInv /\ [Next]_vars => Rest'
    BY HeldStep, RestHasOwnersStep, TapsHaveOwnersStep, RulesHaveOwnersStep,
       SendersHaveTasksStep
<1>3. OwnersInv <=> TapsInv /\ SessionsInv /\ Rest
    BY DEF OwnersInv
<1> QED BY <1>1, <1>2, <1>3, TapsInvariant, SessionsInvariant, PTL DEF Spec

\* Once all jobs are over nothing of them is left, in the proxy, on the host or in
\* the manager (the failure paths of handle_create_environment, which give the address
\* back while its session is still to be deleted, and both ends of run_vm_lifecycle),
\* but for the row of a session whose entry was published while a DELETE of that
\* address was under way: for any number of requests of their own ids, with failures
\* that the code is told of.
THEOREM NothingStaysLeft ==
    ASSUME FailuresAreTold, OwnIdsOnly
    PROVE  Spec => []NothingLeft
<1>1. OwnersInv /\ AddressesExclusive => NothingLeft
  <2> SUFFICES ASSUME OwnersInv, AddressesExclusive, \A j \in Jobs : Over(j)
               PROVE  /\ pool = {} /\ \A s \in Slots : entries[s] = NoId
                      /\ \A r \in rows : \E j \in Jobs : r = Row(j) /\ claim[j] = "raced"
                      /\ \A id \in Ids :
                           taps[id] = NoSlot /\ dnat[id] = <<>> /\ shutdown_txs[id] = NoJob
      BY DEF NothingLeft
  <2>1. \A j \in Jobs : ~ Holds(j)
      BY DEF Over, Holds
  <2>2. \A j \in Jobs : launched[j] # "up"
      BY OwnersBasics DEF Over
  <2>3. \A j \in Jobs : ~ EntryOwner(j) /\ ~ TapOwner(j) /\ ~ RuleOwner(j)
      BY <2>2 DEF Over, EntryOwner, SessionOwner, TapOwner, RuleOwner
  <2>4. pool = {}
      BY <2>1 DEF AddressesExclusive
  <2>5. /\ \A s \in Slots : entries[s] = NoId
        /\ \A r \in rows : \E j \in Jobs : r = Row(j) /\ claim[j] = "raced"
      BY <2>3 DEF OwnersInv, RestHasOwners, RowsHaveOwners, EntriesHaveOwners, EntryOwner
  <2> QED BY <2>3, <2>4, <2>5 DEF OwnersInv, TapsHaveOwners, RulesHaveOwners,
          SendersHaveTasks, Over
<1> QED BY <1>1, OwnersInvariant, AddressesAreExclusive, PTL

-----------------------------------------------------------------------------
(* Only a DELETE stops a VM *)

\* A record is written by the last step of the handler of its id.
RecordedLast == \A j \in Jobs : environments[IdOf[j]] # "none" => step[j] = "done"

\* The task has not come past its wait.
Waiting(j) == phase[j] \in {"launch", "running"}

\* Between its two locks a DELETE has marked the record, and still has.
MarkedFirst ==
    \A d \in Deleters : deleting[d] # NoId =>
        /\ environments[deleting[d]] # "none"
        /\ \A j \in Jobs :
             IdOf[j] = deleting[d] /\ Waiting(j) =>
                 environments[deleting[d]] = "shutting_down"

\* The sender of a task that waits leaves the table to a DELETE only.
SenderStays ==
    \A j \in Jobs : Waiting(j) /\ Signalled(j) => environments[IdOf[j]] = "shutting_down"

RequestInv == TypeInv /\ TaskAfterHandler /\ RecordedLast /\ MarkedFirst /\ SenderStays

LEMMA RequestBasics ==
    ASSUME RequestInv
    PROVE  /\ environments \in [Ids -> Statuses] /\ step \in [Jobs -> Steps]
           /\ phase \in [Jobs -> Phases] /\ deleting \in [Deleters -> Ids \union {NoId}]
           /\ shutdown_txs \in [Ids -> Jobs \union {NoJob}]
           /\ \A j \in Jobs : IdOf[j] \in Ids
           /\ NoId \notin Ids /\ TypeOK
           /\ \A j \in Jobs : phase[j] # "none" => step[j] \in {"record", "done"}
           /\ RecordedLast /\ MarkedFirst /\ SenderStays
BY IdOfAssumption, NoIdAssumption DEF RequestInv, TypeInv, TypeOK, TaskAfterHandler

\* Most steps change neither records nor senders, and no task begins to wait.
LEMMA RequestKept ==
    ASSUME RequestInv, UNCHANGED <<environments, shutdown_txs>>,
           \A d \in Deleters : deleting'[d] \in {deleting[d], NoId},
           \A j \in Jobs : step[j] = "done" => step'[j] = "done",
           \A j \in Jobs : Waiting(j)' => Waiting(j)
    PROVE  RecordedLast' /\ MarkedFirst' /\ SenderStays'
<1>1. RecordedLast'
    BY RequestBasics DEF RecordedLast
<1>2. MarkedFirst'
    BY RequestBasics DEF MarkedFirst
<1>3. SenderStays'
    BY RequestBasics DEF SenderStays, Signalled
<1> QED BY <1>1, <1>2, <1>3

\* The marks of a task concern its own record, when it waits no more.
LEMMA RequestMarked ==
    ASSUME OwnIdsOnly, RequestInv, NEW j \in Jobs, MarkFailed(j) \/ MarkExited(j)
    PROVE  RecordedLast' /\ MarkedFirst' /\ SenderStays'
<1>1. PICK status \in {"failed", "exited"} : Mark(j, status)
    BY DEF MarkFailed, MarkExited
<1>2. /\ \A id \in Ids : environments'[id] = "none" <=> environments[id] = "none"
      /\ \A id \in Ids \ {IdOf[j]} : environments'[id] = environments[id]
    BY <1>1, RequestBasics DEF Mark
<1>3. /\ UNCHANGED <<shutdown_txs, step, deleting>> /\ ~ Waiting(j)'
      /\ \A k \in Jobs \ {j} : Waiting(k)' <=> Waiting(k)
    BY RequestBasics DEF MarkFailed, MarkExited, Waiting
<1>4. \A k \in Jobs \ {j} : IdOf[k] \in Ids \ {IdOf[j]}
    BY RequestBasics DEF OwnIdsOnly
<1>5. RecordedLast'
    BY <1>2, <1>3, RequestBasics DEF RecordedLast
<1>6. MarkedFirst'
    BY <1>2, <1>3, <1>4, RequestBasics DEF MarkedFirst
<1>7. SenderStays'
    BY <1>2, <1>3, <1>4, RequestBasics DEF SenderStays, Signalled
<1> QED BY <1>5, <1>6, <1>7

\* A task begins to wait when its sender is in the table and there is no record.
LEMMA RequestArmed ==
    ASSUME OwnIdsOnly, RequestInv, NEW j \in Jobs, ArmAndSpawn(j)
    PROVE  RecordedLast' /\ MarkedFirst' /\ SenderStays'
<1>1. environments[IdOf[j]] = "none"
    BY RequestBasics DEF ArmAndSpawn, RecordedLast
<1>2. /\ UNCHANGED <<environments, deleting>>
      /\ step[j] # "done" /\ \A k \in Jobs \ {j} : step'[k] = step[k]
      /\ \A k \in Jobs \ {j} : Waiting(k)' <=> Waiting(k)
      /\ shutdown_txs'[IdOf[j]] = j
      /\ \A id \in Ids \ {IdOf[j]} : shutdown_txs'[id] = shutdown_txs[id]
    BY RequestBasics DEF ArmAndSpawn, Waiting
<1>3. \A k \in Jobs \ {j} : IdOf[k] \in Ids \ {IdOf[j]}
    BY RequestBasics DEF OwnIdsOnly
<1>4. RecordedLast'
    BY <1>1, <1>2, RequestBasics DEF RecordedLast
<1>5. MarkedFirst'
    BY <1>1, <1>2, RequestBasics DEF MarkedFirst
<1>6. SenderStays'
    BY <1>2, <1>3, RequestBasics DEF SenderStays, Signalled
<1> QED BY <1>4, <1>5, <1>6

\* The record of an id is written once, before any DELETE of it.
LEMMA RequestRecorded ==
    ASSUME OwnIdsOnly, RequestInv, NEW j \in Jobs, StoreRecord(j)
    PROVE  RecordedLast' /\ MarkedFirst' /\ SenderStays'
<1>1. environments[IdOf[j]] = "none"
    BY RequestBasics DEF StoreRecord, RecordedLast
<1>2. /\ UNCHANGED <<shutdown_txs, phase, deleting>>
      /\ step'[j] = "done" /\ \A k \in Jobs \ {j} : step'[k] = step[k]
      /\ \A id \in Ids \ {IdOf[j]} : environments'[id] = environments[id]
    BY RequestBasics DEF StoreRecord
<1>3. \A k \in Jobs \ {j} : IdOf[k] \in Ids \ {IdOf[j]}
    BY RequestBasics DEF OwnIdsOnly
<1>4. RecordedLast'
    BY <1>2, <1>3, RequestBasics DEF RecordedLast
<1>5. MarkedFirst'
    BY <1>1, <1>2, RequestBasics DEF MarkedFirst, Waiting
<1>6. SenderStays'
    BY <1>1, <1>2, <1>3, RequestBasics DEF SenderStays, Signalled, Waiting
<1> QED BY <1>4, <1>5, <1>6

\* The task's removal of a sender is of its own, after its wait.
LEMMA RequestDisarmed ==
    ASSUME OwnIdsOnly, RequestInv, NEW j \in Jobs, Disarm(j)
    PROVE  RecordedLast' /\ MarkedFirst' /\ SenderStays'
<1>1. /\ UNCHANGED <<environments, deleting, step>> /\ ~ Waiting(j)'
      /\ \A k \in Jobs \ {j} : Waiting(k)' <=> Waiting(k)
      /\ \A id \in Ids \ {IdOf[j]} : shutdown_txs'[id] = shutdown_txs[id]
    BY RequestBasics DEF Disarm, Waiting
<1>2. \A k \in Jobs \ {j} : IdOf[k] \in Ids \ {IdOf[j]}
    BY RequestBasics DEF OwnIdsOnly
<1>3. RecordedLast'
    BY <1>1, RequestBasics DEF RecordedLast
<1>4. MarkedFirst'
    BY <1>1, RequestBasics DEF MarkedFirst
<1>5. SenderStays'
    BY <1>1, <1>2, RequestBasics DEF SenderStays, Signalled
<1> QED BY <1>3, <1>4, <1>5

\* A DELETE marks the record, and then takes the sender.
LEMMA RequestDelete ==
    ASSUME RequestInv, NEW d \in Deleters,
           SendShutdown(d) \/ \E id \in Ids : MarkShuttingDown(d, id)
    PROVE  RecordedLast' /\ MarkedFirst' /\ SenderStays'
<1>1. CASE SendShutdown(d)
  <2>1. /\ UNCHANGED <<environments, step, phase>> /\ deleting[d] \in Ids
        /\ \A e \in Deleters : deleting'[e] \in {deleting[e], NoId}
        /\ \A id \in Ids \ {deleting[d]} : shutdown_txs'[id] = shutdown_txs[id]
      BY <1>1, RequestBasics DEF SendShutdown
  <2>2. RecordedLast' /\ MarkedFirst'
      BY <2>1, RequestBasics DEF RecordedLast, MarkedFirst, Waiting
  <2>3. SenderStays'
      BY <1>1, <2>1, RequestBasics DEF SendShutdown, MarkedFirst, SenderStays,
         Signalled, Waiting
  <2> QED BY <2>2, <2>3
<1>2. ASSUME NEW id \in Ids, MarkShuttingDown(d, id)
      PROVE  RecordedLast' /\ MarkedFirst' /\ SenderStays'
  <2>1. /\ UNCHANGED <<shutdown_txs, step, phase>>
        /\ environments[id] # "none" /\ environments'[id] = "shutting_down"
        /\ \A other \in Ids \ {id} : environments'[other] = environments[other]
        /\ deleting'[d] = id /\ \A e \in Deleters \ {d} : deleting'[e] = deleting[e]
      BY <1>2, RequestBasics DEF MarkShuttingDown
  <2>2. RecordedLast'
      BY <2>1, RequestBasics DEF RecordedLast
  <2>3. MarkedFirst'
      BY <2>1, RequestBasics DEF MarkedFirst, Waiting
  <2>4. SenderStays'
      BY <2>1, RequestBasics DEF SenderStays, Signalled, Waiting
  <2> QED BY <2>2, <2>3, <2>4
<1> QED BY <1>1, <1>2

LEMMA RequestStep ==
    ASSUME OwnIdsOnly, RequestInv, [Next]_vars
    PROVE  RequestInv'
<1>1. TypeInv' /\ TaskAfterHandler'
    BY TypeStep, TaskAfterHandlerStep DEF RequestInv
<1> DEFINE Rest == RecordedLast /\ MarkedFirst /\ SenderStays
<1>2. ASSUME NEW j \in Jobs,
             \/ CheckDuplicate(j) \/ AllocateIp(j) \/ GiveBack(j) \/ SetupTap(j) \/ AddDnat(j)
             \/ HandlerCleansTap(j) \/ HandlerDropped(j) \/ VmExits(j)
      PROVE  Rest'
  <2>1. UNCHANGED <<environments, shutdown_txs, phase, deleting>>
      BY <1>2 DEF CheckDuplicate, AllocateIp, GiveBack, SetupTap, AddDnat,
         HandlerCleansTap, HandlerDropped, VmExits
  <2>2. \A k \in Jobs : step[k] = "done" => step'[k] = "done"
      BY <1>2, RequestBasics DEF CheckDuplicate, AllocateIp, GiveBack,
         SetupTap, AddDnat, HandlerCleansTap, HandlerDropped, VmExits
  <2> QED BY <2>1, <2>2, RequestKept DEF Waiting
<1>3. ASSUME NEW j \in Jobs,
             \/ Launch(j) \/ StopVm(j) \/ TaskRemovesDnat(j)
             \/ TaskCleansTap(j) \/ TaskReleases(j)
      PROVE  Rest'
  <2>1. UNCHANGED <<environments, shutdown_txs, step, deleting>>
      BY <1>3 DEF Launch, StopVm, TaskRemovesDnat, TaskCleansTap,
         TaskReleases
  <2>2. \A k \in Jobs : Waiting(k)' => Waiting(k)
      BY <1>3, RequestBasics DEF Launch, StopVm, TaskRemovesDnat,
         TaskCleansTap, TaskReleases, Waiting
  <2> QED BY <2>1, <2>2, RequestKept
<1>4. ASSUME ManagerRestarts PROVE Rest'
  <2>1. /\ \A id \in Ids : environments'[id] = "none"
        /\ \A d \in Deleters : deleting'[d] = NoId
        /\ \A j \in Jobs : phase'[j] \notin {"launch", "running"}
      BY <1>4 DEF ManagerRestarts
  <2>2. RecordedLast'
      BY <2>1, RequestBasics DEF RecordedLast
  <2>3. MarkedFirst'
      BY <2>1 DEF MarkedFirst
  <2>4. SenderStays'
      BY <2>1 DEF SenderStays, Waiting
  <2> QED BY <2>2, <2>3, <2>4
<1>5. ASSUME NEW d \in Deleters, DeleterDropped(d) PROVE Rest'
  <2>1. /\ UNCHANGED <<environments, shutdown_txs, step, phase>>
        /\ \A e \in Deleters : deleting'[e] \in {deleting[e], NoId}
      BY <1>5, RequestBasics DEF DeleterDropped
  <2> QED BY <2>1, RequestKept DEF Waiting
<1>6. ASSUME ProxyRestarts \/ UNCHANGED vars PROVE Rest'
  <2>1. UNCHANGED <<environments, shutdown_txs, step, phase, deleting>>
      BY <1>6 DEF ProxyRestarts, vars
  <2>2. \A j \in Jobs : Waiting(j)' => Waiting(j)
      BY <2>1 DEF Waiting
  <2> QED BY <2>1, <2>2, RequestKept
<1>7. ASSUME NEW j \in Jobs, Handler(j) \/ Task(j) PROVE Rest'
    BY <1>2, <1>3, <1>7, RequestMarked, RequestArmed, RequestRecorded, RequestDisarmed
       DEF Handler, Task
<1>8. ASSUME NEW d \in Deleters,
             SendShutdown(d) \/ \E id \in Ids : MarkShuttingDown(d, id)
      PROVE  Rest'
    BY <1>8, RequestDelete
<1>9. ASSUME NEW j \in Jobs, Proxy(j) PROVE Rest'
  <2>1. /\ UNCHANGED <<environments, shutdown_txs, deleting>>
        /\ \A k \in Jobs : step[k] = "done" => step'[k] = "done"
        /\ \A k \in Jobs : Waiting(k)' => Waiting(k)
      BY <1>9, RequestBasics, ProxyMoves DEF Waiting
  <2> QED BY <2>1, RequestKept
<1>10. Rest'
    BY <1>2, <1>4, <1>5, <1>6, <1>7, <1>8, <1>9 DEF Next, Clients, World
<1> QED BY <1>1, <1>10 DEF RequestInv

\* A VM stops only when its record says that a DELETE came (vm.rs:124 against
\* state.rs:51 and api.rs:449-480), as long as no two requests name one id: for any
\* number of jobs and DELETEs and under every fault, cancelled handlers and
\* restarts of the manager included.
THEOREM StopsOnlyOnRequest ==
    ASSUME OwnIdsOnly
    PROVE  Spec => StoppedOnRequest
<1>1. Init => RequestInv
    BY TypeInit, IdOfAssumption DEF Init, RequestInv, TaskAfterHandler, RecordedLast,
       MarkedFirst, SenderStays, Waiting
<1>2. RequestInv /\ [Next]_vars => RequestInv'
    BY RequestStep
<1>3. RequestInv /\ [Next]_vars
        => [\A j \in Jobs : StopVm(j) => environments[IdOf[j]] = "shutting_down"]_vars
    BY DEF RequestInv, SenderStays, Waiting, StopVm
<1> QED BY <1>1, <1>2, <1>3, PTL DEF Spec, StoppedOnRequest

-----------------------------------------------------------------------------
(* A DELETE is heard *)

ClientsStay == "disconnect" \notin Faults

\* What was heard, or is on its way, stays so while no DELETE and no task begins.
LEMMA HeardKept ==
    ASSUME RequestInv, DeleteIsHeard, UNCHANGED deleting,
           \A id \in Ids : environments'[id] = "shutting_down" =>
                               environments[id] = "shutting_down",
           \A id \in Ids : shutdown_txs'[id] \in {shutdown_txs[id], NoJob},
           \A j \in Jobs : Waiting(j)' => Waiting(j)
    PROVE  DeleteIsHeard'
BY RequestBasics, NoJobAssumption DEF DeleteIsHeard, Waiting, Signalled

\* A task begins to wait before its record is written, so before any DELETE.
LEMMA HeardArmed ==
    ASSUME OwnIdsOnly, RequestInv, DeleteIsHeard, NEW j \in Jobs, ArmAndSpawn(j)
    PROVE  DeleteIsHeard'
<1>1. environments[IdOf[j]] = "none"
    BY RequestBasics DEF ArmAndSpawn, RecordedLast
<1>2. /\ UNCHANGED <<environments, deleting>>
      /\ \A k \in Jobs \ {j} : phase'[k] = phase[k]
      /\ \A id \in Ids \ {IdOf[j]} : shutdown_txs'[id] = shutdown_txs[id]
    BY RequestBasics DEF ArmAndSpawn
<1>3. \A k \in Jobs \ {j} : IdOf[k] \in Ids \ {IdOf[j]}
    BY RequestBasics DEF OwnIdsOnly
<1> QED BY <1>1, <1>2, <1>3 DEF DeleteIsHeard, Signalled

\* A DELETE is on its way from its mark until it has taken the sender.
LEMMA HeardDelete ==
    ASSUME RequestInv, DeleteIsHeard, NEW d \in Deleters,
           SendShutdown(d) \/ \E id \in Ids : MarkShuttingDown(d, id)
    PROVE  DeleteIsHeard'
<1>1. CASE SendShutdown(d)
  <2>1. /\ UNCHANGED <<environments, phase>> /\ deleting[d] \in Ids
        /\ \A e \in Deleters \ {d} : deleting'[e] = deleting[e]
        /\ shutdown_txs'[deleting[d]] = NoJob
        /\ \A id \in Ids \ {deleting[d]} : shutdown_txs'[id] = shutdown_txs[id]
      BY <1>1, RequestBasics DEF SendShutdown
  <2> QED BY <2>1, RequestBasics, NoJobAssumption DEF DeleteIsHeard, Signalled
<1>2. ASSUME NEW id \in Ids, MarkShuttingDown(d, id) PROVE DeleteIsHeard'
  <2>1. /\ UNCHANGED <<shutdown_txs, phase>> /\ deleting[d] = NoId
        /\ \A other \in Ids \ {id} : environments'[other] = environments[other]
        /\ deleting'[d] = id /\ \A e \in Deleters \ {d} : deleting'[e] = deleting[e]
      BY <1>2, RequestBasics DEF MarkShuttingDown
  <2> QED BY <2>1, RequestBasics DEF DeleteIsHeard, Signalled
<1> QED BY <1>1, <1>2

LEMMA HeardStep ==
    ASSUME OwnIdsOnly, ClientsStay, RequestInv, DeleteIsHeard, [Next]_vars
    PROVE  DeleteIsHeard'
<1>1. ASSUME NEW j \in Jobs,
             \/ CheckDuplicate(j) \/ AllocateIp(j) \/ GiveBack(j) \/ SetupTap(j) \/ AddDnat(j)
             \/ HandlerCleansTap(j) \/ HandlerDropped(j) \/ VmExits(j)
      PROVE  DeleteIsHeard'
  <2>1. UNCHANGED <<environments, shutdown_txs, phase, deleting>>
      BY <1>1 DEF CheckDuplicate, AllocateIp, GiveBack, SetupTap, AddDnat,
         HandlerCleansTap, HandlerDropped, VmExits
  <2> QED BY <2>1, HeardKept DEF Waiting
<1>2. ASSUME NEW j \in Jobs, StoreRecord(j) PROVE DeleteIsHeard'
  <2>1. /\ UNCHANGED <<shutdown_txs, phase, deleting>>
        /\ \A id \in Ids : environments'[id] \in {environments[id], "running"}
      BY <1>2, RequestBasics DEF StoreRecord
  <2> QED BY <2>1, HeardKept DEF Waiting
<1>3. ASSUME NEW j \in Jobs,
             \/ Launch(j) \/ StopVm(j) \/ TaskRemovesDnat(j)
             \/ TaskCleansTap(j) \/ TaskReleases(j) \/ Disarm(j)
      PROVE  DeleteIsHeard'
  <2>1. /\ UNCHANGED <<environments, deleting>>
        /\ \A id \in Ids : shutdown_txs'[id] \in {shutdown_txs[id], NoJob}
      BY <1>3, RequestBasics DEF Launch, StopVm, TaskRemovesDnat,
         TaskCleansTap, TaskReleases, Disarm
  <2>2. \A k \in Jobs : Waiting(k)' => Waiting(k)
      BY <1>3, RequestBasics DEF Launch, StopVm, TaskRemovesDnat,
         TaskCleansTap, TaskReleases, Disarm, Waiting
  <2> QED BY <2>1, <2>2, HeardKept
<1>4. ASSUME NEW j \in Jobs, MarkFailed(j) \/ MarkExited(j) PROVE DeleteIsHeard'
  <2>1. /\ UNCHANGED <<shutdown_txs, deleting>>
        /\ \A id \in Ids : environments'[id] \in {environments[id], "failed", "exited"}
      BY <1>4, RequestBasics DEF MarkFailed, MarkExited, Mark
  <2>2. \A k \in Jobs : Waiting(k)' => Waiting(k)
      BY <1>4, RequestBasics DEF MarkFailed, MarkExited, Waiting
  <2> QED BY <2>1, <2>2, HeardKept
<1>5. ASSUME ManagerRestarts PROVE DeleteIsHeard'
    BY <1>5 DEF ManagerRestarts, DeleteIsHeard
<1>6. ASSUME ProxyRestarts \/ UNCHANGED vars PROVE DeleteIsHeard'
  <2>1. UNCHANGED <<environments, shutdown_txs, phase, deleting>>
      BY <1>6 DEF ProxyRestarts, vars
  <2> QED BY <2>1, HeardKept DEF Waiting
<1>7. \A d \in Deleters : ~ DeleterDropped(d)
    BY DEF ClientsStay, DeleterDropped, May
<1>8. ASSUME NEW j \in Jobs, Handler(j) \/ Task(j) PROVE DeleteIsHeard'
    BY <1>1, <1>2, <1>3, <1>4, <1>8, HeardArmed DEF Handler, Task
<1>9. ASSUME NEW j \in Jobs, Proxy(j) PROVE DeleteIsHeard'
  <2>1. /\ UNCHANGED <<environments, shutdown_txs, deleting>>
        /\ \A k \in Jobs : Waiting(k)' => Waiting(k)
      BY <1>9, RequestBasics, ProxyMoves DEF Waiting
  <2> QED BY <2>1, HeardKept
<1> QED BY <1>1, <1>5, <1>6, <1>7, <1>8, <1>9, HeardDelete DEF Next, Clients, World

\* A DELETE that was answered 202 stops the VM, also one that comes while the VM is
\* still being launched (api.rs:449-480 against vm.rs:124): its signal is never lost.
\* A client that hangs up between the two locks of the DELETE loses it.
THEOREM EveryDeleteIsHeard ==
    ASSUME OwnIdsOnly, ClientsStay
    PROVE  Spec => []DeleteIsHeard
<1>1. Init => RequestInv /\ DeleteIsHeard
    BY TypeInit, IdOfAssumption DEF Init, RequestInv, TaskAfterHandler, RecordedLast,
       MarkedFirst, SenderStays, Waiting, DeleteIsHeard
<1>2. RequestInv /\ DeleteIsHeard /\ [Next]_vars => RequestInv' /\ DeleteIsHeard'
    BY RequestStep, HeardStep
<1> QED BY <1>1, <1>2, PTL DEF Spec

-----------------------------------------------------------------------------
(* What GET tells of an environment that is no more *)

\* Where a task is tells what became of its VM.
PhaseTells ==
    \A j \in Jobs :
        /\ phase[j] \in {"none", "launch"} => launched[j] = "no"
        /\ phase[j] = "mark_failed" => launched[j] = "failed"
        /\ phase[j] = "running" => launched[j] \in {"up", "over"}
        /\ phase[j] \in {"unregister", "remove_dnat", "clean_tap", "release"} =>
               launched[j] \in {"failed", "over"}
        /\ phase[j] = "mark_exited" => launched[j] = "over"

\* A record that tells of an end tells the task's, and not before the task has
\* given back the address.
RecordTells ==
    \A j \in Jobs :
        /\ environments[IdOf[j]] = "exited" =>
               phase[j] \in {"disarm", "gone"} /\ launched[j] = "over"
        /\ environments[IdOf[j]] = "failed" => launched[j] = "failed"

\* Every step but those of the task.
LEMMA StatusKept ==
    ASSUME RequestInv, PhaseTells, RecordTells, UNCHANGED <<phase, launched>>,
           \A id \in Ids : environments'[id] \in {environments[id], "running", "shutting_down"}
    PROVE  PhaseTells' /\ RecordTells'
<1>1. PhaseTells'
    BY DEF PhaseTells
<1>2. RecordTells'
    BY RequestBasics DEF RecordTells
<1> QED BY <1>1, <1>2

\* The steps of a task that leave its record alone.
LEMMA StatusTask ==
    ASSUME NoStrays, RequestInv, PhaseTells, RecordTells, NEW j \in Jobs,
           \/ Launch(j) \/ StopVm(j) \/ TaskRemovesDnat(j)
           \/ TaskCleansTap(j) \/ TaskReleases(j) \/ Disarm(j) \/ VmExits(j) \/ ArmAndSpawn(j)
    PROVE  PhaseTells' /\ RecordTells'
<1>1. /\ UNCHANGED environments
      /\ \A k \in Jobs \ {j} : phase'[k] = phase[k] /\ launched'[k] = launched[k]
      /\ launched \in [Jobs -> Lives]
    BY RequestBasics DEF Launch, StopVm, TaskRemovesDnat, TaskCleansTap,
       TaskReleases, Disarm, VmExits, ArmAndSpawn, RequestInv, TypeInv, TypeOK
<1>2. CASE Launch(j) \/ StopVm(j) \/ VmExits(j)
  <2>1. PhaseTells'
      BY <1>1, <1>2, RequestBasics DEF Launch, StopVm, VmExits, PhaseTells, NoStrays, May
  <2>2. RecordTells'
      BY <1>1, <1>2, RequestBasics DEF Launch, StopVm, VmExits, PhaseTells, RecordTells,
         NoStrays, May
  <2> QED BY <2>1, <2>2
<1>3. CASE \/ TaskRemovesDnat(j) \/ TaskCleansTap(j)
           \/ TaskReleases(j) \/ Disarm(j)
  <2>1. PhaseTells'
      BY <1>1, <1>3, RequestBasics DEF TaskRemovesDnat, TaskCleansTap,
         TaskReleases, Disarm, PhaseTells
  <2>2. RecordTells'
      BY <1>1, <1>3, RequestBasics DEF TaskRemovesDnat, TaskCleansTap,
         TaskReleases, Disarm, RecordTells
  <2> QED BY <2>1, <2>2
<1>4. CASE ArmAndSpawn(j)
  <2>1. phase[j] = "none" /\ phase'[j] = "launch" /\ UNCHANGED launched
      BY <1>4, RequestBasics DEF ArmAndSpawn
  <2>2. environments[IdOf[j]] = "none"
      BY <1>4, RequestBasics DEF ArmAndSpawn, RecordedLast
  <2> QED BY <1>1, <2>1, <2>2, RequestBasics DEF PhaseTells, RecordTells
<1> QED BY <1>2, <1>3, <1>4

\* The marks: only the own record tells of the own VM.
LEMMA StatusMarked ==
    ASSUME OwnIdsOnly, RequestInv, PhaseTells, RecordTells, NEW j \in Jobs,
           MarkFailed(j) \/ MarkExited(j)
    PROVE  PhaseTells' /\ RecordTells'
<1>1. /\ UNCHANGED launched /\ \A k \in Jobs \ {j} : phase'[k] = phase[k]
      /\ \A id \in Ids \ {IdOf[j]} : environments'[id] = environments[id]
    BY RequestBasics DEF MarkFailed, MarkExited, Mark
<1>2. \A k \in Jobs \ {j} : IdOf[k] \in Ids \ {IdOf[j]}
    BY RequestBasics DEF OwnIdsOnly
<1>3. PhaseTells'
    BY <1>1, RequestBasics DEF MarkFailed, MarkExited, PhaseTells
<1>4. CASE MarkFailed(j)
  <2>1. launched[j] = "failed" /\ environments'[IdOf[j]] \in {"none", "failed"}
      BY <1>4, RequestBasics DEF MarkFailed, Mark, PhaseTells
  <2>2. RecordTells'
      BY <1>1, <1>2, <2>1 DEF RecordTells
  <2> QED BY <1>3, <2>2
<1>5. CASE MarkExited(j)
  <2>1. /\ launched[j] = "over" /\ phase'[j] = "disarm"
        /\ environments'[IdOf[j]] \in {"none", "exited"}
      BY <1>5, RequestBasics DEF MarkExited, Mark, PhaseTells
  <2>2. RecordTells'
      BY <1>1, <1>2, <2>1 DEF RecordTells
  <2> QED BY <1>3, <2>2
<1> QED BY <1>4, <1>5

LEMMA StatusStep ==
    ASSUME OwnIdsOnly, ManagerStays, NoStrays, RequestInv, PhaseTells, RecordTells, [Next]_vars
    PROVE  PhaseTells' /\ RecordTells'
<1>1. ASSUME NEW j \in Jobs,
             \/ CheckDuplicate(j) \/ AllocateIp(j) \/ GiveBack(j) \/ SetupTap(j) \/ AddDnat(j)
             \/ HandlerCleansTap(j) \/ HandlerDropped(j)
      PROVE  PhaseTells' /\ RecordTells'
  <2>1. UNCHANGED <<environments, phase, launched>>
      BY <1>1 DEF CheckDuplicate, AllocateIp, GiveBack, SetupTap, AddDnat,
         HandlerCleansTap, HandlerDropped
  <2> QED BY <2>1, StatusKept
<1>2. ASSUME NEW j \in Jobs, StoreRecord(j) PROVE PhaseTells' /\ RecordTells'
  <2>1. /\ UNCHANGED <<phase, launched>>
        /\ \A id \in Ids : environments'[id] \in {environments[id], "running"}
      BY <1>2, RequestBasics DEF StoreRecord
  <2> QED BY <2>1, StatusKept
<1>3. ASSUME NEW d \in Deleters,
             SendShutdown(d) \/ DeleterDropped(d) \/ \E id \in Ids : MarkShuttingDown(d, id)
      PROVE  PhaseTells' /\ RecordTells'
  <2>1. /\ UNCHANGED <<phase, launched>>
        /\ \A id \in Ids : environments'[id] \in {environments[id], "shutting_down"}
      BY <1>3, RequestBasics DEF SendShutdown, DeleterDropped, MarkShuttingDown
  <2> QED BY <2>1, StatusKept
<1>4. ASSUME ProxyRestarts \/ UNCHANGED vars PROVE PhaseTells' /\ RecordTells'
  <2>1. UNCHANGED <<environments, phase, launched>>
      BY <1>4 DEF ProxyRestarts, vars
  <2> QED BY <2>1, StatusKept
<1>5. ~ ManagerRestarts
    BY DEF ManagerStays, ManagerRestarts, May
<1>6. ASSUME NEW j \in Jobs, Handler(j) \/ Task(j) \/ VmExits(j)
      PROVE  PhaseTells' /\ RecordTells'
    BY <1>1, <1>2, <1>6, StatusTask, StatusMarked DEF Handler, Task
<1>7. ASSUME NEW j \in Jobs, Proxy(j) PROVE PhaseTells' /\ RecordTells'
  <2>1. UNCHANGED <<environments, launched>>
      BY <1>7, RequestBasics, ProxyMoves
  <2>2. CASE UNCHANGED phase
      BY <2>1, <2>2, StatusKept
  <2>3. CASE phase[j] = "unregister" /\ phase' = [phase EXCEPT ![j] = "remove_dnat"]
    <3>1. PhaseTells'
        BY <2>1, <2>3, RequestBasics DEF PhaseTells
    <3>2. RecordTells'
        BY <2>1, <2>3, RequestBasics DEF RecordTells
    <3> QED BY <3>1, <3>2
  <2> QED BY <1>7, <2>2, <2>3, RequestBasics, ProxyMoves
<1> QED BY <1>1, <1>3, <1>4, <1>5, <1>6, <1>7 DEF Next, Clients, World

\* A record that says "exited" says so when session, interface, rule and address
\* have no owner left under its id; one that says "failed" means that there never
\* was a VM.
LEMMA OwnersTell ==
    ASSUME OwnIdsOnly, OwnersInv, RequestInv, RecordTells
    PROVE  StatusIsTrue
<1>1. ASSUME NEW id \in Ids, environments[id] = "exited"
      PROVE  /\ \A j \in Jobs : IdOf[j] = id =>
                   /\ ~ Holds(j) /\ launched[j] = "over"
                   /\ claim[j] # "raced" => \A r \in rows : r.id # id
             /\ \A s \in Slots : entries[s] # id
             /\ taps[id] = NoSlot /\ dnat[id] = <<>>
  <2>1. ASSUME NEW j \in Jobs, IdOf[j] = id
        PROVE  /\ ~ Holds(j) /\ launched[j] = "over"
               /\ ~ EntryOwner(j) /\ ~ TapOwner(j) /\ ~ RuleOwner(j)
    <3>1. /\ step[j] = "done" /\ phase[j] \in {"disarm", "gone"}
          /\ launched[j] = "over"
        BY <1>1, <2>1, RequestBasics DEF RecordedLast, RecordTells
    <3>2. call[j] \notin {"publish", "readback", "find", "delrow", "delentry"}
        BY <3>1, OwnersBasics DEF CreatesHeld, DeletesHeld, Unregistering
    <3> QED BY <3>1, <3>2 DEF Holds, EntryOwner, SessionOwner, TapOwner, RuleOwner
  <2>2. ASSUME NEW r \in rows, r.id = id
        PROVE  \E k \in Jobs : IdOf[k] = id /\ claim[k] = "raced"
    <3>1. PICK k \in Jobs : r = Row(k) /\ (SessionOwner(k) \/ claim[k] = "raced")
        BY DEF OwnersInv, RestHasOwners, RowsHaveOwners
    <3> QED BY <2>1, <2>2, <3>1 DEF Row, EntryOwner
  <2>3. \A s \in Slots : entries[s] # id
      BY <2>1, OwnersBasics DEF OwnersInv, RestHasOwners, EntriesHaveOwners
  <2>4. taps[id] = NoSlot /\ dnat[id] = <<>>
      BY <2>1 DEF OwnersInv, TapsHaveOwners, RulesHaveOwners
  <2>5. ASSUME NEW j \in Jobs, IdOf[j] = id, claim[j] # "raced", NEW r \in rows
        PROVE  r.id # id
      BY <2>2, <2>5 DEF OwnIdsOnly
  <2> QED BY <2>1, <2>3, <2>4, <2>5
<1>2. ASSUME NEW id \in Ids, environments[id] = "failed"
      PROVE  \A j \in Jobs : IdOf[j] = id => launched[j] = "failed"
    BY <1>2 DEF RecordTells
<1> QED BY <1>1, <1>2 DEF StatusIsTrue

\* What GET says of an environment is true when it says that it is over: "exited" is
\* written after the VM, its session, its rules, its interface and its address are
\* gone (vm.rs:125-170), but for the row that NothingLeft excepts, and "failed" only of
\* a VM that never ran (vm.rs:63-86): for any number of requests of their own ids, with
\* failures that the code is told of.
THEOREM StatusTellsTheTruth ==
    ASSUME OwnIdsOnly, FailuresAreTold
    PROVE  Spec => []StatusIsTrue
<1> DEFINE Inv == RequestInv /\ PhaseTells /\ RecordTells
<1>1. Init => Inv
    BY TypeInit, IdOfAssumption DEF Init, RequestInv, TaskAfterHandler, RecordedLast,
       MarkedFirst, SenderStays, Waiting, PhaseTells, RecordTells
<1>2. Inv /\ [Next]_vars => Inv'
  <2>1. ManagerStays /\ NoStrays
      BY DEF FailuresAreTold, ManagerStays, NoStrays
  <2> QED BY <2>1, RequestStep, StatusStep
<1>3. OwnersInv /\ Inv => StatusIsTrue
    BY OwnersTell
<1> QED BY <1>1, <1>2, <1>3, OwnersInvariant, PTL DEF Spec
=============================================================================
