--------------------------- MODULE VmManagerProofs ---------------------------
(***************************************************************************)
(* Theorems about VmManager, for any jobs, ids, deleters, size of the pool *)
(* and set of faults: type correctness, and that an address is in the      *)
(* pool's list exactly as long as one job, and only one, holds it.         *)
(***************************************************************************)
EXTENDS VmManager, SequenceTheorems, TLAPS

USE DEF Steps, Phases, Statuses, Answers, Lives, Works

-----------------------------------------------------------------------------
(* Types *)

\* Of a job without an address there is nothing yet.
Fresh(j) ==
    /\ slot[j] = NoSlot /\ claim[j] = "sole"
    /\ phase[j] = "none" /\ call[j] = "none" /\ launched[j] = "no"

\* A job is given its address once, before anything that makes use of it: what
\* goes into rows, entries, interfaces and rules is never the placeholder.
\* TypeOK needs it.
SlotKnown ==
    \A j \in Jobs :
        \/ Fresh(j) /\ step[j] \in {"check", "allocate", "done"}
        \/ slot[j] \in Slots /\ step[j] \notin {"check", "allocate"}

TypeInv == TypeOK /\ SlotKnown

LEMMA NoSlotIsNone == NoSlot \notin Slots
BY NumSlotsAssumption DEF NoSlot, Slots

\* What is left of some rules is rules.
LEMMA RemaindersType ==
    ASSUME NEW rules \in Seq(Slots), NEW rest \in Remainders(rules)
    PROVE  rest \in Seq(Slots)
<1>1. PICK n \in 0 .. Len(rules) : \E c \in [1 .. n -> DOMAIN rules] :
        rest = [m \in DOMAIN c |-> rules[c[m]]]
    BY DEF Remainders
<1>2. rest \in [1 .. n -> Slots]
    BY <1>1
<1>3. n \in Nat
    BY <1>1
<1> QED BY <1>2, <1>3, SeqDef

\* A command in progress leaves well-typed traces on the host.
LEMMA HostTypes ==
    ASSUME TypeOK, NEW j \in Jobs
    PROVE  /\ IdOf[j] \in Ids
           /\ slot[j] \in Slots =>
                Row(j) \in SessionRecord /\ GivenRule(j) \in [Ids -> Seq(Slots)]
           /\ GivenTap(j) \in [Ids -> Slots \union {NoSlot}]
           /\ RemoveDnat(j) => dnat' \in [Ids -> Seq(Slots)]
           /\ CleanTap(j) => taps' \in [Ids -> Slots \union {NoSlot}]
<1>1. IdOf[j] \in Ids
    BY IdOfAssumption
<1>2. ASSUME slot[j] \in Slots
      PROVE  Row(j) \in SessionRecord /\ GivenRule(j) \in [Ids -> Seq(Slots)]
  <2>1. Row(j) \in SessionRecord
      BY <1>1, <1>2 DEF Row, SessionRecord
  <2>2. Append(dnat[IdOf[j]], slot[j]) \in Seq(Slots)
      BY <1>1, <1>2, AppendProperties DEF TypeOK
  <2>3. GivenRule(j) \in [Ids -> Seq(Slots)]
      BY <1>1, <2>2 DEF GivenRule, TypeOK
  <2> QED BY <2>1, <2>3
<1>3. GivenTap(j) \in [Ids -> Slots \union {NoSlot}]
    BY <1>1 DEF GivenTap, TypeOK
<1>4. RemoveDnat(j) => dnat' \in [Ids -> Seq(Slots)]
  <2>1. <<>> \in Seq(Slots)
      BY EmptySeq
  <2>2. dnat \in [Ids -> Seq(Slots)] /\ dnat[IdOf[j]] \in Seq(Slots)
      BY <1>1 DEF TypeOK
  <2> QED BY <1>1, <2>1, <2>2, RemaindersType DEF RemoveDnat
<1>5. CleanTap(j) => taps' \in [Ids -> Slots \union {NoSlot}]
  <2>1. taps \in [Ids -> Slots \union {NoSlot}]
      BY DEF TypeOK
  <2> QED BY <1>1, <2>1 DEF CleanTap
<1> QED BY <1>1, <1>2, <1>3, <1>4, <1>5

\* What the steps of the proxy do to the manager's side: a call that returns moves
\* its caller on, if there still is one.
LEMMA ProxyMoves ==
    ASSUME TypeOK, NEW j \in Jobs, Proxy(j)
    PROVE  /\ UNCHANGED <<environments, shutdown_txs, pool, taps, dnat, slot, launched,
                          deleting>>
           /\ \/ UNCHANGED step
              \/ /\ step[j] = "register" /\ ~ Dropped(j)
                 /\ \/ step' = [step EXCEPT ![j] = "setup_tap"]
                    \/ step' = [step EXCEPT ![j] = "refused"]
              \/ /\ step[j] = "unregister" /\ ~ Dropped(j)
                 /\ step' = [step EXCEPT ![j] = "done"]
           /\ \/ UNCHANGED phase
              \/ phase[j] = "unregister" /\ phase' = [phase EXCEPT ![j] = "remove_dnat"]
           /\ \/ UNCHANGED answer
              \/ /\ step[j] = "register" /\ ~ Dropped(j)
                 /\ \E what \in {"conflict", "refused", answer[j]} :
                      answer' = [answer EXCEPT ![j] = what]
           /\ \A k \in Jobs \ {j} : call'[k] = call[k]
<1>0. call \in [Jobs -> Works]
    BY DEF TypeOK
<1> USE DEF hostVars, handlerVars, storeVars, CreateReturns, DeleteReturns, Registering
<1>1. CASE InsertRow(j)
    BY <1>0, <1>1 DEF InsertRow
<1>2. CASE PublishEntry(j) \/ DeleteRow(j)
    BY <1>0, <1>2 DEF PublishEntry, DeleteRow
<1>3. CASE ReadBack(j)
    BY <1>0, <1>3 DEF ReadBack
<1>4. CASE FindEntry(j)
    BY <1>0, <1>4 DEF FindEntry
<1>5. CASE DeleteEntry(j)
    BY <1>0, <1>5 DEF DeleteEntry
<1>6. CASE CallLost(j)
    BY <1>0, <1>6 DEF CallLost
<1> QED BY <1>1, <1>2, <1>3, <1>4, <1>5, <1>6 DEF Proxy

\* No step of a handler, a task, the proxy, a deleter or the world breaks the types.
LEMMA TypeOKStep == TypeInv /\ [Next]_vars => TypeOK'
<1> SUFFICES ASSUME TypeOK, SlotKnown, [Next]_vars PROVE TypeOK'
    BY DEF TypeInv
<1>0. TypeOK
    OBVIOUS
<1> USE DEF TypeOK, HandlerAt, TaskAt, Say, Calls, handlerVars, hostVars, storeVars, proxyVars
<1>1. ASSUME NEW j \in Jobs, CheckDuplicate(j) PROVE TypeOK'
  <2>1. PICK next \in {"done", "allocate"} : HandlerAt(j, "check", next)
      BY <1>1 DEF CheckDuplicate
  <2>2. answer' \in [Jobs -> Answers]
      BY <1>0, <1>1 DEF CheckDuplicate
  <2>3. UNCHANGED <<environments, shutdown_txs, pool, proxyVars, hostVars, slot, phase,
                    launched, deleting>>
      BY <1>1 DEF CheckDuplicate
  <2> QED BY <1>0, <2>1, <2>2, <2>3
<1>2. ASSUME NEW j \in Jobs, AllocateIp(j) PROVE TypeOK'
  <2>1. CASE /\ HandlerAt(j, "allocate", "done") /\ Say(j, "failed")
             /\ UNCHANGED <<pool, slot, proxyVars>>
      BY <1>0, <1>2, <2>1 DEF AllocateIp
  <2>2. ASSUME NEW s \in Slots, pool' = pool \union {s}, slot' = [slot EXCEPT ![j] = s],
               HandlerAt(j, "allocate", "register"), UNCHANGED answer, Calls(j, "insert")
        PROVE  TypeOK'
      BY <1>0, <1>2, <2>2 DEF AllocateIp
  <2> QED BY <1>2, <2>1, <2>2 DEF AllocateIp
<1>3. ASSUME NEW j \in Jobs, GiveBack(j) PROVE TypeOK'
  <2>1. \E next \in {"done", "unregister", "dnat_failed_tap"} :
          step' = [step EXCEPT ![j] = next]
      BY <1>3 DEF GiveBack
  <2>2. call' = call \/ call' = [call EXCEPT ![j] = "find"]
      BY <1>3 DEF GiveBack
  <2>3. /\ pool' \subseteq Slots
        /\ UNCHANGED <<environments, shutdown_txs, storeVars, target, claim, hostVars, slot,
                       answer, phase, launched, deleting>>
      BY <1>0, <1>3 DEF GiveBack, Release
  <2>4. step' \in [Jobs -> Steps]
      BY <1>0, <2>1
  <2>5. call' \in [Jobs -> Works]
      BY <1>0, <2>2
  <2> QED BY <1>0, <2>3, <2>4, <2>5
<1>4. ASSUME NEW j \in Jobs, SetupTap(j) PROVE TypeOK'
  <2>1. taps' \in [Ids -> Slots \union {NoSlot}]
      BY <1>0, <1>4, HostTypes DEF SetupTap
  <2>2. PICK next \in {"add_dnat", "tap_failed"} : HandlerAt(j, "setup_tap", next)
      BY <1>4 DEF SetupTap
  <2>3. answer' \in [Jobs -> Answers]
      BY <1>0, <1>4 DEF SetupTap
  <2>4. UNCHANGED <<environments, shutdown_txs, pool, proxyVars, dnat, slot, phase,
                    launched, deleting>>
      BY <1>4 DEF SetupTap
  <2> QED BY <1>0, <2>1, <2>2, <2>3, <2>4
<1>5. ASSUME NEW j \in Jobs, AddDnat(j) PROVE TypeOK'
  <2>1. dnat' \in [Ids -> Seq(Slots)]
    <3>1. slot[j] \in Slots /\ (dnat' = dnat \/ dnat' = GivenRule(j))
        BY <1>5 DEF AddDnat, SlotKnown
    <3> QED BY <1>0, <3>1, HostTypes
  <2>2. PICK next \in {"arm", "dnat_failed"} : HandlerAt(j, "add_dnat", next)
      BY <1>5 DEF AddDnat
  <2>3. answer' \in [Jobs -> Answers]
    <3>1. answer' = answer \/ answer' = [answer EXCEPT ![j] = "failed"]
        BY <1>5 DEF AddDnat
    <3> QED BY <1>0, <3>1
  <2>4. UNCHANGED <<environments, shutdown_txs, pool, proxyVars, taps, slot, phase,
                    launched, deleting>>
      BY <1>5 DEF AddDnat
  <2> QED BY <1>0, <2>1, <2>2, <2>3, <2>4
<1>6. ASSUME NEW j \in Jobs, HandlerCleansTap(j) PROVE TypeOK'
    BY <1>0, <1>6, HostTypes DEF HandlerCleansTap
<1>7. ASSUME NEW j \in Jobs, ArmAndSpawn(j) PROVE TypeOK'
    BY <1>0, <1>7 DEF ArmAndSpawn
<1>8. ASSUME NEW j \in Jobs, StoreRecord(j) PROVE TypeOK'
    BY <1>0, <1>8 DEF StoreRecord
<1>9. ASSUME NEW j \in Jobs, HandlerDropped(j) PROVE TypeOK'
  <2>1. taps' \in [Ids -> Slots \union {NoSlot}] /\ dnat' \in [Ids -> Seq(Slots)]
    <3>1. \/ UNCHANGED hostVars
          \/ taps' = GivenTap(j) /\ UNCHANGED dnat
          \/ slot[j] \in Slots /\ dnat' = GivenRule(j) /\ UNCHANGED taps
          \/ CleanTap(j) /\ UNCHANGED dnat
        BY <1>9 DEF HandlerDropped, SlotKnown
    <3> QED BY <1>0, <3>1, HostTypes
  <2>2. answer' \in [Jobs -> Answers]
      BY <1>0, <1>9 DEF HandlerDropped
  <2>3. UNCHANGED <<environments, shutdown_txs, pool, proxyVars, step, slot, phase,
                    launched, deleting>>
      BY <1>9 DEF HandlerDropped
  <2> QED BY <1>0, <2>1, <2>2, <2>3
<1>10. ASSUME NEW j \in Jobs, Launch(j) PROVE TypeOK'
  <2>1. /\ \E next \in {"running", "mark_failed"} : phase' = [phase EXCEPT ![j] = next]
        /\ \E life \in {"up", "failed", "half_started"} :
             launched' = [launched EXCEPT ![j] = life]
      BY <1>10 DEF Launch
  <2>2. phase' \in [Jobs -> Phases] /\ launched' \in [Jobs -> Lives]
      BY <1>0, <2>1
  <2>3. UNCHANGED <<environments, shutdown_txs, pool, proxyVars, hostVars, handlerVars,
                    deleting>>
      BY <1>10 DEF Launch
  <2> QED BY <1>0, <2>2, <2>3
<1>11. ASSUME NEW j \in Jobs, MarkFailed(j) PROVE TypeOK'
    BY <1>0, <1>11 DEF MarkFailed, Mark
<1>12. ASSUME NEW j \in Jobs, StopVm(j) PROVE TypeOK'
    BY <1>0, <1>12 DEF StopVm
<1>13. ASSUME NEW j \in Jobs, TaskRemovesDnat(j) PROVE TypeOK'
    BY <1>0, <1>13, HostTypes DEF TaskRemovesDnat
<1>14. ASSUME NEW j \in Jobs, TaskCleansTap(j) PROVE TypeOK'
    BY <1>0, <1>14, HostTypes DEF TaskCleansTap
<1>15. ASSUME NEW j \in Jobs, TaskReleases(j) PROVE TypeOK'
    BY <1>0, <1>15 DEF TaskReleases, Release
<1>16. ASSUME NEW j \in Jobs, MarkExited(j) PROVE TypeOK'
    BY <1>0, <1>16 DEF MarkExited, Mark
<1>17. ASSUME NEW j \in Jobs, Disarm(j) PROVE TypeOK'
    BY <1>0, <1>17 DEF Disarm
<1>18. ASSUME NEW j \in Jobs, Proxy(j) PROVE TypeOK'
  <2>1. /\ UNCHANGED <<environments, shutdown_txs, pool, taps, dnat, slot, launched, deleting>>
        /\ step' \in [Jobs -> Steps] /\ phase' \in [Jobs -> Phases]
        /\ answer' \in [Jobs -> Answers]
    <3>1. answer' \in [Jobs -> Answers]
      <4>1. CASE UNCHANGED answer
          BY <1>0, <4>1
      <4>2. ASSUME NEW what \in {"conflict", "refused", answer[j]},
                   answer' = [answer EXCEPT ![j] = what]
            PROVE  answer' \in [Jobs -> Answers]
          BY <1>0, <4>2
      <4> QED BY <1>18, <4>1, <4>2, ProxyMoves
    <3>2. step \in [Jobs -> Steps] /\ phase \in [Jobs -> Phases]
        BY <1>0
    <3> HIDE DEF TypeOK
    <3> QED BY <1>0, <1>18, <3>1, <3>2, ProxyMoves
  <2>2. call[j] # "none"
      BY <1>18 DEF Proxy, InsertRow, PublishEntry, ReadBack, FindEntry, DeleteRow, DeleteEntry,
         CallLost
  <2>3. slot[j] \in Slots
      BY <2>2 DEF SlotKnown, Fresh
  <2>4. IdOf[j] \in Ids /\ Row(j) \in SessionRecord
      BY <1>0, <2>3, HostTypes
  <2> DEFINE Kinds == {"sole", "raced", "forgotten"}
  <2>5. /\ rows \subseteq SessionRecord /\ entries \in [Slots -> Ids \union {NoId}]
        /\ call \in [Jobs -> Works] /\ claim \in [Jobs -> Kinds]
        /\ target \in [Jobs -> Slots \union {NoSlot}]
      BY <1>0
  <2>6. /\ rows' \subseteq SessionRecord /\ entries' \in [Slots -> Ids \union {NoId}]
        /\ call' \in [Jobs -> Works] /\ claim' \in [Jobs -> Kinds]
        /\ target' \in [Jobs -> Slots \union {NoSlot}]
    <3> HIDE DEF TypeOK
    <3> USE DEF CreateReturns, DeleteReturns
    <3>1. CASE InsertRow(j)
        BY <2>4, <2>5, <3>1 DEF InsertRow
    <3>2. CASE PublishEntry(j)
        BY <2>3, <2>4, <2>5, <3>2 DEF PublishEntry
    <3>3. CASE ReadBack(j)
        BY <2>5, <3>3 DEF ReadBack
    <3>4. CASE FindEntry(j)
        BY <2>5, <3>4 DEF FindEntry
    <3>5. CASE DeleteRow(j)
        BY <2>5, <3>5 DEF DeleteRow
    <3>6. CASE DeleteEntry(j)
        BY <2>5, <3>6 DEF DeleteEntry
    <3>7. CASE CallLost(j)
        BY <2>5, <3>7 DEF CallLost
    <3> QED BY <1>18, <3>1, <3>2, <3>3, <3>4, <3>5, <3>6, <3>7 DEF Proxy
  <2> QED BY <2>1, <2>6
<1>19. ASSUME NEW d \in Deleters, NEW id \in Ids, MarkShuttingDown(d, id) PROVE TypeOK'
    BY <1>0, <1>19 DEF MarkShuttingDown
<1>20. ASSUME NEW d \in Deleters, SendShutdown(d) \/ DeleterDropped(d) PROVE TypeOK'
  <2>1. CASE SendShutdown(d)
      BY <1>0, <2>1 DEF SendShutdown
  <2>2. CASE DeleterDropped(d)
      BY <1>0, <2>2 DEF DeleterDropped
  <2> QED BY <1>20, <2>1, <2>2
<1>21. ASSUME NEW j \in Jobs, VmExits(j) PROVE TypeOK'
    BY <1>0, <1>21 DEF VmExits
<1>22. CASE ProxyRestarts
    BY <1>0, <1>22 DEF ProxyRestarts
<1>23. CASE UNCHANGED vars
    BY <1>0, <1>23 DEF vars
<1>24. CASE ManagerRestarts
  <2>1. step' \in [Jobs -> Steps]
        BY <1>24 DEF ManagerRestarts
  <2>2. answer' \in [Jobs -> Answers]
        BY <1>0, <1>24 DEF ManagerRestarts
  <2>3. phase' \in [Jobs -> Phases]
        BY <1>24 DEF ManagerRestarts
  <2>4. dnat' \in [Ids -> Seq(Slots)]
      <3>1. <<>> \in Seq(Slots)
          BY EmptySeq
      <3>2. dnat' = dnat \/ dnat' = [id \in Ids |-> <<>>]
          BY <1>24 DEF ManagerRestarts
      <3>3. dnat \in [Ids -> Seq(Slots)]
          BY <1>0
      <3> HIDE DEF TypeOK
      <3> QED BY <3>1, <3>2, <3>3
  <2>5. /\ environments' \in [Ids -> Statuses]
          /\ shutdown_txs' \in [Ids -> Jobs \union {NoJob}]
          /\ deleting' \in [Deleters -> Ids \union {NoId}]
          /\ pool' \subseteq Slots
        BY <1>24 DEF ManagerRestarts
  <2>6. UNCHANGED <<proxyVars, taps, slot>>
        BY <1>24 DEF ManagerRestarts
  <2>7. launched' \in [Jobs -> Lives]
      <3>1. PICK started \in SUBSET {j \in Jobs : phase[j] = "launch"} :
              launched' = [j \in Jobs |-> IF j \in started THEN "up" ELSE launched[j]]
          BY <1>24 DEF ManagerRestarts
      <3>2. launched \in [Jobs -> Lives]
          BY <1>0
      <3> QED BY <3>1, <3>2
  <2> HIDE DEF HandlerAt, TaskAt, Say
  <2> QED BY <1>0, <2>1, <2>2, <2>3, <2>4, <2>5, <2>6, <2>7
<1>25. ASSUME NEW j \in Jobs, Handler(j) PROVE TypeOK'
    BY <1>2, <1>3, <1>4, <1>5, <1>6, <1>7, <1>8, <1>25, Zenon DEF Handler
<1>26. ASSUME NEW j \in Jobs, Task(j) PROVE TypeOK'
    BY <1>10, <1>11, <1>12, <1>13, <1>14, <1>15, <1>16, <1>17, <1>26, Zenon DEF Task
<1>27. CASE Clients
    BY <1>1, <1>9, <1>19, <1>20, <1>27, Zenon DEF Clients
<1>28. CASE World
    BY <1>21, <1>22, <1>24, <1>28, Zenon DEF World
<1> QED BY <1>18, <1>20, <1>23, <1>25, <1>26, <1>27, <1>28, Zenon DEF Next

\* The address is chosen once, and what is fresh stays so until then.
LEMMA SlotKept ==
    ASSUME SlotKnown, UNCHANGED slot, \A k \in Jobs : Fresh(k) => Fresh(k)',
           \A k \in Jobs : \/ step'[k] = step[k]
                           \/ step[k] = "check" /\ step'[k] = "allocate"
                           \/ /\ step[k] # "check" /\ step'[k] \notin {"check", "allocate"}
                              /\ ~ Fresh(k)
                           \/ step'[k] = "done"
    PROVE  SlotKnown'
BY DEF SlotKnown, Fresh

LEMMA SlotStep == TypeInv /\ [Next]_vars => SlotKnown'
<1> SUFFICES ASSUME TypeOK, SlotKnown, [Next]_vars PROVE SlotKnown'
    BY DEF TypeInv
<1>0. /\ step \in [Jobs -> Steps] /\ phase \in [Jobs -> Phases] /\ call \in [Jobs -> Works]
      /\ slot \in [Jobs -> Slots \union {NoSlot}] /\ launched \in [Jobs -> Lives]
      /\ claim \in [Jobs -> {"sole", "raced", "forgotten"}]
      /\ \A k \in Jobs : \/ Fresh(k) /\ step[k] \in {"check", "allocate", "done"}
                         \/ slot[k] \in Slots /\ step[k] \notin {"check", "allocate"}
    BY DEF TypeOK, SlotKnown
<1> USE DEF HandlerAt, TaskAt, Calls, handlerVars, storeVars, proxyVars
<1>1. ASSUME NEW j \in Jobs, AllocateIp(j) PROVE SlotKnown'
  <2>1. CASE UNCHANGED <<pool, slot, proxyVars>> /\ HandlerAt(j, "allocate", "done")
      BY <1>0, <1>1, <2>1 DEF AllocateIp, SlotKnown, Fresh
  <2>2. ASSUME NEW s \in Slots, slot' = [slot EXCEPT ![j] = s],
               HandlerAt(j, "allocate", "register"), Calls(j, "insert")
        PROVE  SlotKnown'
      BY <1>0, <1>1, <2>2 DEF AllocateIp, SlotKnown, Fresh
  <2> QED BY <1>1, <2>1, <2>2 DEF AllocateIp
<1>2. ASSUME NEW j \in Jobs,
             \/ CheckDuplicate(j) \/ GiveBack(j) \/ SetupTap(j) \/ AddDnat(j)
             \/ HandlerCleansTap(j) \/ ArmAndSpawn(j) \/ StoreRecord(j)
      PROVE  SlotKnown'
  <2>1. UNCHANGED slot /\ step[j] # step'[j]
      BY <1>0, <1>2 DEF CheckDuplicate, GiveBack, SetupTap, AddDnat, HandlerCleansTap,
         ArmAndSpawn, StoreRecord
  <2>2. /\ \A k \in Jobs \ {j} : /\ step'[k] = step[k] /\ phase'[k] = phase[k]
                                 /\ call'[k] = call[k]
        /\ UNCHANGED <<launched, claim>>
    <3>1. CASE CheckDuplicate(j)
        BY <1>0, <3>1 DEF CheckDuplicate
    <3>2. CASE GiveBack(j) \/ SetupTap(j)
        BY <1>0, <3>2 DEF GiveBack, SetupTap
    <3>3. CASE AddDnat(j) \/ HandlerCleansTap(j) \/ ArmAndSpawn(j) \/ StoreRecord(j)
        BY <1>0, <3>3 DEF AddDnat, HandlerCleansTap, ArmAndSpawn, StoreRecord
    <3> QED BY <1>2, <3>1, <3>2, <3>3
  <2>3. CASE CheckDuplicate(j)
    <3>1. UNCHANGED <<phase, call>> /\ step'[j] \in {"allocate", "done"} /\ step[j] = "check"
        BY <1>0, <2>3 DEF CheckDuplicate
    <3> QED BY <1>0, <2>1, <2>2, <3>1 DEF SlotKnown, Fresh
  <2>4. CASE ~ CheckDuplicate(j)
    <3>1. step[j] \notin {"check", "allocate", "done"} /\ step'[j] \notin {"check", "allocate"}
        BY <1>0, <1>2, <2>4 DEF GiveBack, SetupTap, AddDnat, HandlerCleansTap, ArmAndSpawn,
           StoreRecord
    <3> QED BY <1>0, <2>1, <2>2, <3>1 DEF SlotKnown, Fresh
  <2> QED BY <2>3, <2>4
<1>3. ASSUME NEW j \in Jobs, Task(j) \/ VmExits(j) PROVE SlotKnown'
  <2>1. UNCHANGED <<slot, step>>
      BY <1>3 DEF Task, Launch, MarkFailed, StopVm, TaskRemovesDnat, TaskCleansTap,
         TaskReleases, MarkExited, Disarm, VmExits
  <2>2. \A k \in Jobs : Fresh(k) => Fresh(k)'
      BY <1>0, <1>3 DEF Task, Launch, MarkFailed, StopVm, TaskRemovesDnat, TaskCleansTap,
         TaskReleases, MarkExited, Disarm, VmExits, Fresh
  <2> QED BY <2>1, <2>2, SlotKept
<1>4. ASSUME NEW j \in Jobs, Proxy(j) PROVE SlotKnown'
  <2>1. call[j] # "none"
      BY <1>4 DEF Proxy, InsertRow, PublishEntry, ReadBack, FindEntry, DeleteRow, DeleteEntry,
         CallLost
  <2>2. /\ ~ Fresh(j) /\ slot'[j] = slot[j] /\ step[j] \notin {"check", "allocate"}
        /\ step'[j] \notin {"check", "allocate"}
      BY <1>0, <1>4, <2>1, ProxyMoves DEF Fresh
  <2>3. \A k \in Jobs \ {j} : claim'[k] = claim[k]
      BY <1>0, <1>4 DEF Proxy, InsertRow, PublishEntry, ReadBack, FindEntry, DeleteRow,
         DeleteEntry, CallLost
  <2>4. /\ \A k \in Jobs \ {j} : /\ step'[k] = step[k] /\ phase'[k] = phase[k]
                                 /\ call'[k] = call[k]
        /\ UNCHANGED <<slot, launched>>
      BY <1>0, <1>4, ProxyMoves
  <2> QED BY <1>0, <2>2, <2>3, <2>4 DEF SlotKnown, Fresh
<1>5. CASE ProxyRestarts
  <2>1. \A j \in Jobs : slot[j] = NoSlot => Row(j) \notin rows
      BY NoSlotIsNone DEF TypeOK, Row, SessionRecord
  <2>2. \A k \in Jobs : Fresh(k) => Fresh(k)'
      BY <1>0, <1>5, <2>1 DEF ProxyRestarts, Fresh
  <2> QED BY <1>5, <2>2, SlotKept DEF ProxyRestarts
<1>6. CASE ManagerRestarts
  <2>1. /\ step' = [j \in Jobs |-> IF step[j] = "check" THEN "check" ELSE "done"]
        /\ phase' = [j \in Jobs |-> IF phase[j] = "none" THEN "none" ELSE "gone"]
        /\ UNCHANGED <<slot, call, claim>>
        /\ \A j \in Jobs : phase[j] = "launch" \/ launched'[j] = launched[j]
      BY <1>0, <1>6 DEF ManagerRestarts
  <2>2. \A k \in Jobs : Fresh(k) => Fresh(k)'
      BY <2>1 DEF Fresh
  <2> QED BY <2>1, <2>2, SlotKept
<1>7. ASSUME UNCHANGED <<slot, step, phase, call, claim, launched>> PROVE SlotKnown'
    BY <1>7 DEF SlotKnown, Fresh
<1> QED BY <1>1, <1>2, <1>3, <1>4, <1>5, <1>6, <1>7 DEF Next, Handler, Clients, World,
        SendShutdown, HandlerDropped, DeleterDropped, MarkShuttingDown, vars

LEMMA TypeStep == TypeInv /\ [Next]_vars => TypeInv'
BY TypeOKStep, SlotStep DEF TypeInv

\* A manager that has just started has handed out no address.
LEMMA TypeInit == Init => TypeInv
<1>1. <<>> \in Seq(Slots)
    BY EmptySeq
<1> QED BY <1>1 DEF Init, TypeInv, TypeOK, SlotKnown, Fresh

\* TypeInv holds in every state: what TypeCorrect and the next part start from.
LEMMA TypeInvHolds == Spec => []TypeInv
BY TypeInit, TypeStep, PTL DEF Spec

\* Every variable of the manager and of the proxy's sessions keeps its type, whatever
\* fails and whoever calls: handlers (api.rs), lifecycle tasks (vm.rs) and calls of
\* the proxy of any number of jobs.
THEOREM TypeCorrect == Spec => []TypeOK
<1>1. TypeInv => TypeOK
    BY DEF TypeInv
<1> QED BY <1>1, TypeInvHolds, PTL

-----------------------------------------------------------------------------
(* Addresses                                                               *)
(* AddressesExclusive is inductive together with one more fact: a task     *)
(* exists only once its handler has spawned it, and then the handler holds *)
(* nothing any more.  Without it a release by the one could free what the  *)
(* other still uses.                                                       *)

TaskAfterHandler == \A j \in Jobs : phase[j] # "none" => step[j] \in {"record", "done"}

AddrInv == TypeInv /\ TaskAfterHandler /\ AddressesExclusive

\* The task is spawned by the last but one step of the handler that fails no more.
LEMMA TaskAfterHandlerStep ==
    TypeInv /\ TaskAfterHandler /\ [Next]_vars => TaskAfterHandler'
<1> SUFFICES ASSUME TypeOK, TaskAfterHandler, [Next]_vars PROVE TaskAfterHandler'
    BY DEF TypeInv
<1>0. step \in [Jobs -> Steps] /\ phase \in [Jobs -> Phases]
    BY DEF TypeOK
<1> USE DEF TaskAfterHandler, HandlerAt, TaskAt, handlerVars
<1>1. ASSUME NEW j \in Jobs, Handler(j) PROVE TaskAfterHandler'
    BY <1>0, <1>1 DEF Handler, AllocateIp, GiveBack, SetupTap, AddDnat, HandlerCleansTap,
       ArmAndSpawn, StoreRecord
<1>2. ASSUME NEW j \in Jobs, Task(j) PROVE TaskAfterHandler'
    BY <1>0, <1>2 DEF Task, Launch, MarkFailed, StopVm, TaskRemovesDnat, TaskCleansTap,
       TaskReleases, MarkExited, Disarm
<1>3. ASSUME NEW j \in Jobs, CheckDuplicate(j) PROVE TaskAfterHandler'
    BY <1>0, <1>3 DEF CheckDuplicate
<1>4. ASSUME UNCHANGED <<step, phase>> PROVE TaskAfterHandler'
    BY <1>4
<1>5. CASE ManagerRestarts
    BY <1>5 DEF ManagerRestarts
<1>6. ASSUME NEW j \in Jobs, Proxy(j) PROVE TaskAfterHandler'
  <2>1. \A k \in Jobs \ {j} : step'[k] = step[k] /\ phase'[k] = phase[k]
      BY <1>0, <1>6, ProxyMoves
  <2>2. phase'[j] # "none" => step'[j] \in {"record", "done"}
      BY <1>0, <1>6, ProxyMoves
  <2> QED BY <2>1, <2>2
<1> QED BY <1>1, <1>2, <1>3, <1>4, <1>5, <1>6 DEF Next, Clients, World, SendShutdown,
        HandlerDropped, DeleterDropped, MarkShuttingDown, VmExits, ProxyRestarts, vars

\* A step after which the same jobs hold the same addresses changes nothing.
LEMMA SameHolders ==
    ASSUME AddressesExclusive, UNCHANGED <<pool, slot>>,
           \A k \in Jobs : Holds(k)' <=> Holds(k)
    PROVE  AddressesExclusive'
BY DEF AddressesExclusive

\* allocate_ip gives the job an address that nobody holds.
LEMMA OneMoreHolder ==
    ASSUME AddressesExclusive, TypeInv, NEW j \in Jobs, NEW s \in Slots \ pool,
           pool' = pool \union {s}, slot' = [slot EXCEPT ![j] = s],
           ~ Holds(j), Holds(j)', \A k \in Jobs \ {j} : Holds(k)' <=> Holds(k)
    PROVE  AddressesExclusive'
<1>1. slot'[j] = s /\ \A k \in Jobs \ {j} : slot'[k] = slot[k]
    BY DEF TypeInv, TypeOK
<1>2. \A k \in Jobs : Holds(k) => slot[k] \in pool
    BY DEF AddressesExclusive
<1>3. pool' = {slot'[k] : k \in {i \in Jobs : Holds(i)'}}
    BY <1>1 DEF AddressesExclusive
<1>4. \A k, l \in Jobs : Holds(k)' /\ Holds(l)' /\ slot'[k] = slot'[l] => k = l
    BY <1>1, <1>2 DEF AddressesExclusive
<1> QED BY <1>3, <1>4 DEF AddressesExclusive

\* release_ip takes the address of the only job that holds it.
LEMMA OneHolderLess ==
    ASSUME AddressesExclusive, NEW j \in Jobs, Release(j), UNCHANGED slot,
           Holds(j), ~ Holds(j)', \A k \in Jobs \ {j} : Holds(k)' <=> Holds(k)
    PROVE  AddressesExclusive'
<1>1. pool' = {slot'[k] : k \in {i \in Jobs : Holds(i)'}}
    BY DEF AddressesExclusive, Release
<1>2. \A k, l \in Jobs : Holds(k)' /\ Holds(l)' /\ slot'[k] = slot'[l] => k = l
    BY DEF AddressesExclusive
<1> QED BY <1>1, <1>2 DEF AddressesExclusive

\* Handlers: the address is taken by allocate_ip, kept through registration,
\* interface and rules, handed to the task, or given back by the failure path.
LEMMA AddressesHandlerStep ==
    ASSUME AddrInv, NEW j \in Jobs, Handler(j) \/ CheckDuplicate(j)
    PROVE  AddressesExclusive'
<1>0. /\ step \in [Jobs -> Steps] /\ phase \in [Jobs -> Phases]
      /\ AddressesExclusive /\ TypeInv
      /\ phase[j] # "none" => step[j] \in {"record", "done"}
    BY DEF AddrInv, TaskAfterHandler, TypeInv, TypeOK
<1> USE DEF HandlerAt
<1>1. ASSUME AllocateIp(j) PROVE AddressesExclusive'
  <2>1. CASE UNCHANGED <<pool, slot>> /\ HandlerAt(j, "allocate", "done")
    <3>1. \A k \in Jobs : Holds(k)' <=> Holds(k)
        BY <1>0, <1>1, <2>1 DEF AllocateIp, Holds
    <3> QED BY <1>0, <2>1, <3>1, SameHolders
  <2>2. ASSUME NEW s \in Slots \ pool, pool' = pool \union {s},
               slot' = [slot EXCEPT ![j] = s], HandlerAt(j, "allocate", "register")
        PROVE  AddressesExclusive'
    <3>1. ~ Holds(j)
        BY <1>0, <2>2 DEF Holds
    <3>2. Holds(j)' /\ \A k \in Jobs \ {j} : Holds(k)' <=> Holds(k)
        BY <1>0, <1>1, <2>2 DEF AllocateIp, Holds
    <3> QED BY <1>0, <2>2, <3>1, <3>2, OneMoreHolder
  <2> QED BY <1>1, <2>1, <2>2 DEF AllocateIp
<1>2. ASSUME GiveBack(j) PROVE AddressesExclusive'
  <2>1. Holds(j) /\ ~ Holds(j)' /\ \A k \in Jobs \ {j} : Holds(k)' <=> Holds(k)
      BY <1>0, <1>2 DEF GiveBack, Holds
  <2>2. Release(j) /\ UNCHANGED slot
      BY <1>2 DEF GiveBack
  <2> QED BY <1>0, <2>1, <2>2, OneHolderLess
<1>3. ASSUME \/ CheckDuplicate(j) \/ SetupTap(j) \/ AddDnat(j) \/ HandlerCleansTap(j)
             \/ ArmAndSpawn(j) \/ StoreRecord(j)
      PROVE  AddressesExclusive'
  <2>1. \A k \in Jobs : Holds(k)' <=> Holds(k)
      BY <1>0, <1>3 DEF CheckDuplicate, SetupTap, AddDnat, HandlerCleansTap, ArmAndSpawn,
         StoreRecord, Holds
  <2>2. UNCHANGED <<pool, slot>>
      BY <1>3 DEF CheckDuplicate, SetupTap, AddDnat, HandlerCleansTap, ArmAndSpawn,
         StoreRecord
  <2> QED BY <1>0, <2>1, <2>2, SameHolders
<1> QED BY <1>1, <1>2, <1>3 DEF Handler

\* Tasks: the address stays with the task up to its release_ip.
LEMMA AddressesTaskStep ==
    ASSUME AddrInv, NEW j \in Jobs, Task(j)
    PROVE  AddressesExclusive'
<1>0. /\ step \in [Jobs -> Steps] /\ phase \in [Jobs -> Phases]
      /\ AddressesExclusive
      /\ phase[j] # "none" => step[j] \in {"record", "done"}
    BY DEF AddrInv, TaskAfterHandler, TypeInv, TypeOK
<1> USE DEF TaskAt, handlerVars
<1>1. ASSUME TaskReleases(j) PROVE AddressesExclusive'
  <2>1. Holds(j) /\ ~ Holds(j)' /\ \A k \in Jobs \ {j} : Holds(k)' <=> Holds(k)
      BY <1>0, <1>1 DEF TaskReleases, Holds
  <2>2. Release(j) /\ UNCHANGED slot
      BY <1>1 DEF TaskReleases
  <2> QED BY <1>0, <2>1, <2>2, OneHolderLess
<1>2. ASSUME \/ Launch(j) \/ MarkFailed(j) \/ StopVm(j) \/ TaskRemovesDnat(j)
             \/ TaskCleansTap(j) \/ MarkExited(j) \/ Disarm(j)
      PROVE  AddressesExclusive'
  <2>1. \A k \in Jobs : Holds(k)' <=> Holds(k)
      BY <1>0, <1>2 DEF Launch, MarkFailed, StopVm, TaskRemovesDnat, TaskCleansTap,
         MarkExited, Disarm, Holds
  <2>2. UNCHANGED <<pool, slot>>
      BY <1>2 DEF Launch, MarkFailed, StopVm, TaskRemovesDnat, TaskCleansTap, MarkExited,
         Disarm
  <2> QED BY <1>0, <2>1, <2>2, SameHolders
<1> QED BY <1>1, <1>2 DEF Task

\* The proxy: the address is kept over a registration, whichever way it ends, and a
\* deletion is asked for by a handler that has given it back or a task that has not yet.
LEMMA AddressesProxyStep ==
    ASSUME AddrInv, NEW j \in Jobs, Proxy(j)
    PROVE  AddressesExclusive'
<1>0. /\ step \in [Jobs -> Steps] /\ phase \in [Jobs -> Phases] /\ TypeOK
      /\ AddressesExclusive
    BY DEF AddrInv, TypeInv, TypeOK
<1>1. \A k \in Jobs : Holds(k)' <=> Holds(k)
    BY <1>0, ProxyMoves DEF Holds
<1>2. UNCHANGED <<pool, slot>>
    BY <1>0, ProxyMoves
<1> QED BY <1>0, <1>1, <1>2, SameHolders

\* Nobody else touches the list, the addresses or the places of the jobs.
LEMMA AddressesOtherStep ==
    ASSUME AddrInv, UNCHANGED <<pool, slot, step, phase>>
    PROVE  AddressesExclusive'
<1>1. \A k \in Jobs : Holds(k)' <=> Holds(k)
    BY DEF Holds
<1> QED BY <1>1, SameHolders DEF AddrInv

\* A manager that has just been started again holds nothing and knows of nothing.
LEMMA AddressesRestartStep == ManagerRestarts => AddressesExclusive'
<1> SUFFICES ASSUME ManagerRestarts PROVE AddressesExclusive'
    OBVIOUS
<1>1. \A k \in Jobs : ~ Holds(k)'
    BY DEF ManagerRestarts, Holds
<1>2. pool' = {}
    BY DEF ManagerRestarts
<1> QED BY <1>1, <1>2 DEF AddressesExclusive

LEMMA AddressesStep == AddrInv /\ [Next]_vars => AddrInv'
<1> SUFFICES ASSUME AddrInv, [Next]_vars PROVE AddressesExclusive'
    BY TypeStep, TaskAfterHandlerStep DEF AddrInv
<1>1. ASSUME NEW j \in Jobs, Handler(j) \/ CheckDuplicate(j) PROVE AddressesExclusive'
    BY <1>1, AddressesHandlerStep
<1>2. ASSUME NEW j \in Jobs, Task(j) PROVE AddressesExclusive'
    BY <1>2, AddressesTaskStep
<1>3. ASSUME UNCHANGED <<pool, slot, step, phase>> PROVE AddressesExclusive'
    BY <1>3, AddressesOtherStep
<1>4. CASE ManagerRestarts
    BY <1>4, AddressesRestartStep
<1>5. ASSUME NEW j \in Jobs, Proxy(j) PROVE AddressesExclusive'
    BY <1>5, AddressesProxyStep
<1> QED BY <1>1, <1>2, <1>3, <1>4, <1>5 DEF Next, Clients, World, SendShutdown,
        HandlerDropped, DeleterDropped, MarkShuttingDown, VmExits, ProxyRestarts,
        vars, handlerVars

\* allocated_ips (state.rs) is exactly the addresses that jobs hold, and no two
\* jobs hold the same: no failure path, teardown, cancelled handler or repeated
\* request gives an address back twice, too early, or to another's loss, also
\* across the restarts of the manager.
THEOREM AddressesAreExclusive == Spec => []AddressesExclusive
<1>1. Init => AddrInv
    BY TypeInit DEF Init, AddrInv, TaskAfterHandler, AddressesExclusive, Holds
<1>2. AddrInv => AddressesExclusive
    BY DEF AddrInv
<1> QED BY <1>1, <1>2, AddressesStep, PTL DEF Spec
=============================================================================
