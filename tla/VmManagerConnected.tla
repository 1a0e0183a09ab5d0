-------------------------- MODULE VmManagerConnected --------------------------
(***************************************************************************)
(* A running VM stays connected and keeps its session, whatever other jobs *)
(* do under the same id, and the manager keeps to SessionUse, which        *)
(* ConnectHandler relies on.                                               *)
(*                                                                         *)
(* RunningIsConnected and VmKeepsSession speak of VMs only and are not     *)
(* inductive.  What makes them so is ownership: from setup_tap_interface   *)
(* to cleanup_tap_interface a job owns the TAP of its id, and from the     *)
(* INSERT of its row to the DELETE of it the session, because `ip tuntap   *)
(* add' and the proxy both refuse what is taken.  No two jobs own the      *)
(* same, and only the owner removes it.                                    *)
(***************************************************************************)
EXTENDS VmManagerProofs

HostStateIsWhole == Faults \intersect {"dnat_partial", "clean_dnat"} = {}
NoStrays         == Faults \intersect {"stray", "stop"} = {}

TapOwner(j) ==
    \/ step[j] \in {"add_dnat", "arm", "dnat_failed"}
    \/ step[j] = "dnat_failed_tap" /\ ~ Dropped(j)
    \/ phase[j] \in {"launch", "mark_failed", "running", "unregister", "remove_dnat",
                     "clean_tap"}
    \/ launched[j] = "up"

\* A VM is up while its task waits for the signal, and may be after a restart
\* of the manager, when there is no task.
UpIsRunning == \A j \in Jobs : launched[j] = "up" => phase[j] \in {"running", "gone"}

\* Owners of a TAP whose rule is there, and those whose rule is not.
RuleOwner(j) ==
    \/ step[j] = "arm"
    \/ phase[j] \in {"launch", "mark_failed", "running", "unregister", "remove_dnat"}

NoRuleYet(j) ==
    \/ step[j] = "dnat_failed"
    \/ step[j] \in {"add_dnat", "dnat_failed_tap"} /\ ~ Dropped(j)
    \/ phase[j] = "clean_tap"

TapsOwned ==
    /\ \A j \in Jobs : TapOwner(j) => slot[j] \in Slots /\ taps[IdOf[j]] = slot[j]
    /\ \A j, k \in Jobs : TapOwner(j) /\ TapOwner(k) /\ IdOf[j] = IdOf[k] => j = k

RulesOwned ==
    /\ \A id \in Ids : taps[id] = NoSlot => dnat[id] = <<>>
    /\ \A j \in Jobs : RuleOwner(j) => dnat[IdOf[j]] = <<slot[j]>>
    /\ \A j \in Jobs : NoRuleYet(j) => dnat[IdOf[j]] = <<>>

\* What holds under every fault, and what holds while rules are changed as a whole.
TapsInv == TypeInv /\ TaskAfterHandler /\ UpIsRunning /\ TapsOwned
ConnectedInv == TapsInv /\ RulesOwned

USE DEF HandlerAt, TaskAt, Say, Dropped, Calls, handlerVars, hostVars, storeVars, proxyVars

\* What every proof below needs of types and constants.
LEMMA TapBasics ==
    ASSUME TapsInv
    PROVE  /\ step \in [Jobs -> Steps] /\ phase \in [Jobs -> Phases]
           /\ slot \in [Jobs -> Slots \union {NoSlot}] /\ answer \in [Jobs -> Answers]
           /\ launched \in [Jobs -> Lives]
           /\ taps \in [Ids -> Slots \union {NoSlot}] /\ dnat \in [Ids -> Seq(Slots)]
           /\ \A j \in Jobs : IdOf[j] \in Ids
           /\ NoSlot \notin Slots
           /\ \A j \in Jobs : phase[j] # "none" => step[j] \in {"record", "done"}
           /\ \A j \in Jobs : Holds(j) => slot[j] \in Slots
           /\ \A j \in Jobs : launched[j] = "up" => phase[j] \in {"running", "gone"}
           /\ TapsOwned
<1>1. \A j \in Jobs : IdOf[j] \in Ids
    BY IdOfAssumption
<1>2. \A j \in Jobs : Holds(j) => slot[j] \in Slots
    BY DEF TapsInv, TypeInv, SlotKnown, Fresh, Holds
<1> QED BY <1>1, <1>2, NoSlotIsNone DEF TapsInv, TypeInv, TypeOK, TaskAfterHandler, UpIsRunning

LEMMA Basics ==
    ASSUME ConnectedInv
    PROVE  /\ step \in [Jobs -> Steps] /\ phase \in [Jobs -> Phases]
           /\ slot \in [Jobs -> Slots \union {NoSlot}] /\ answer \in [Jobs -> Answers]
           /\ taps \in [Ids -> Slots \union {NoSlot}] /\ dnat \in [Ids -> Seq(Slots)]
           /\ \A j \in Jobs : IdOf[j] \in Ids
           /\ NoSlot \notin Slots
           /\ \A j \in Jobs : phase[j] # "none" => step[j] \in {"record", "done"}
           /\ \A j \in Jobs : Holds(j) => slot[j] \in Slots
           /\ TapsOwned /\ RulesOwned
BY TapBasics DEF ConnectedInv

-----------------------------------------------------------------------------
(* Interfaces                                                              *)
(* A step of one job does four things to the interfaces and their owners:  *)
(* nothing, set one up that is not there, remove the job's own, or end the *)
(* job's ownership without removing anything.                              *)

\* Nobody becomes an owner, and no interface changes.
LEMMA TapsKept ==
    ASSUME TapsOwned, UNCHANGED taps,
           \A k \in Jobs : TapOwner(k)' => TapOwner(k) /\ slot'[k] = slot[k]
    PROVE  TapsOwned'
BY DEF TapsOwned

\* `ip tuntap add' succeeds only for a name that is not there: then nobody owns it.
LEMMA TapGained ==
    ASSUME TapsInv, NEW j \in Jobs, taps[IdOf[j]] = NoSlot, taps' = GivenTap(j),
           slot[j] \in Slots, UNCHANGED slot,
           \A k \in Jobs \ {j} : TapOwner(k)' => TapOwner(k)
    PROVE  TapsOwned'
<1>1. \A k \in Jobs : TapOwner(k) => IdOf[k] # IdOf[j]
    BY TapBasics DEF TapsOwned
<1>2. /\ taps'[IdOf[j]] = slot[j]
      /\ \A id \in Ids \ {IdOf[j]} : taps'[id] = taps[id]
    BY TapBasics DEF GivenTap
<1>3. \A k \in Jobs : IdOf[k] \in Ids
    BY TapBasics
<1>4. \A k \in Jobs :
        TapOwner(k)' => slot'[k] \in Slots /\ taps'[IdOf[k]] = slot'[k]
    BY <1>1, <1>2, <1>3, TapBasics DEF TapsOwned
<1>5. \A k, l \in Jobs :
        TapOwner(k)' /\ TapOwner(l)' /\ IdOf[k] = IdOf[l] => k = l
    BY <1>1, <1>3, TapBasics DEF TapsOwned
<1> QED BY <1>4, <1>5 DEF TapsOwned

\* cleanup_tap_interface names the interface of its caller, who owns it alone.
LEMMA TapLost ==
    ASSUME TapsInv, NEW j \in Jobs, TapOwner(j), CleanTap(j), UNCHANGED slot,
           ~ TapOwner(j)', \A k \in Jobs \ {j} : TapOwner(k)' => TapOwner(k)
    PROVE  TapsOwned'
<1>1. \A k \in Jobs \ {j} : TapOwner(k) => IdOf[k] # IdOf[j]
    BY TapBasics DEF TapsOwned
<1>2. \A id \in Ids \ {IdOf[j]} : taps'[id] = taps[id]
    BY TapBasics DEF CleanTap
<1>3. \A k \in Jobs : IdOf[k] \in Ids
    BY TapBasics
<1>4. \A k \in Jobs :
        TapOwner(k)' => slot'[k] \in Slots /\ taps'[IdOf[k]] = slot'[k]
    BY <1>1, <1>2, <1>3, TapBasics DEF TapsOwned
<1>5. \A k, l \in Jobs :
        TapOwner(k)' /\ TapOwner(l)' /\ IdOf[k] = IdOf[l] => k = l
    BY <1>3, TapBasics DEF TapsOwned
<1> QED BY <1>4, <1>5 DEF TapsOwned

\* Handlers and tasks set up what is not there and remove only what they own.
LEMMA TapsStep ==
    ASSUME TapsInv, [Next]_vars
    PROVE  TapsOwned'
<1>0. /\ step \in [Jobs -> Steps] /\ phase \in [Jobs -> Phases]
      /\ slot \in [Jobs -> Slots \union {NoSlot}] /\ answer \in [Jobs -> Answers]
      /\ \A j \in Jobs : phase[j] # "none" => step[j] \in {"record", "done"}
      /\ \A j \in Jobs : Holds(j) => slot[j] \in Slots
      /\ \A j \in Jobs : launched[j] = "up" => phase[j] \in {"running", "gone"}
      /\ launched \in [Jobs -> Lives]
      /\ TapsOwned
    BY TapBasics
<1>1. ASSUME NEW j \in Jobs, AllocateIp(j) PROVE TapsOwned'
  <2>1. UNCHANGED taps
      BY <1>1 DEF AllocateIp
  <2>2. \A k \in Jobs : TapOwner(k)' => TapOwner(k) /\ slot'[k] = slot[k]
      BY <1>0, <1>1 DEF AllocateIp, TapOwner
  <2> QED BY <1>0, <2>1, <2>2, TapsKept
<1>2. ASSUME NEW j \in Jobs, SetupTap(j) PROVE TapsOwned'
  <2>1. UNCHANGED slot /\ \A k \in Jobs \ {j} : TapOwner(k)' => TapOwner(k)
      BY <1>0, <1>2 DEF SetupTap, TapOwner
  <2>2. slot[j] \in Slots
      BY <1>0, <1>2 DEF SetupTap, Holds
  <2>3. CASE taps[IdOf[j]] = NoSlot /\ taps' = GivenTap(j)
      BY <2>1, <2>2, <2>3, TapGained
  <2>4. CASE UNCHANGED taps /\ HandlerAt(j, "setup_tap", "tap_failed")
    <3>1. ~ TapOwner(j)'
        BY <1>0, <1>2, <2>4 DEF SetupTap, TapOwner
    <3> QED BY <1>0, <2>1, <2>4, <3>1, TapsKept
  <2> QED BY <1>2, <2>3, <2>4 DEF SetupTap
<1>3. ASSUME NEW j \in Jobs, HandlerCleansTap(j) \/ TaskCleansTap(j) PROVE TapsOwned'
  <2>1. TapOwner(j) /\ ~ TapOwner(j)' /\ CleanTap(j) /\ UNCHANGED slot
      BY <1>0, <1>3 DEF HandlerCleansTap, TaskCleansTap, TapOwner
  <2>2. \A k \in Jobs \ {j} : TapOwner(k)' => TapOwner(k)
      BY <1>0, <1>3 DEF HandlerCleansTap, TaskCleansTap, TapOwner
  <2> QED BY <2>1, <2>2, TapLost
<1>4. ASSUME NEW j \in Jobs, HandlerDropped(j) PROVE TapsOwned'
  <2>1. UNCHANGED slot /\ \A k \in Jobs : TapOwner(k)' => TapOwner(k)
      BY <1>0, <1>4 DEF HandlerDropped, TapOwner
  <2>2. CASE UNCHANGED taps
      BY <1>0, <2>1, <2>2, TapsKept
  <2>3. CASE step[j] = "setup_tap" /\ taps[IdOf[j]] = NoSlot /\ taps' = GivenTap(j)
    <3>1. slot[j] \in Slots
        BY <1>0, <2>3 DEF Holds
    <3> QED BY <2>1, <2>3, <3>1, TapGained
  <2>4. CASE step[j] = "dnat_failed_tap" /\ CleanTap(j)
    <3>1. TapOwner(j) /\ ~ TapOwner(j)'
        BY <1>0, <1>4, <2>4 DEF HandlerDropped, TapOwner
    <3> QED BY <2>1, <2>4, <3>1, TapLost
  <2> QED BY <1>4, <2>2, <2>3, <2>4 DEF HandlerDropped
<1>5. ASSUME NEW j \in Jobs,
             \/ CheckDuplicate(j) \/ GiveBack(j) \/ AddDnat(j)
             \/ ArmAndSpawn(j) \/ StoreRecord(j)
      PROVE  TapsOwned'
  <2>1. UNCHANGED <<taps, slot>>
      BY <1>5 DEF CheckDuplicate, GiveBack, AddDnat, ArmAndSpawn, StoreRecord
  <2>2. \A k \in Jobs : TapOwner(k)' => TapOwner(k)
      BY <1>0, <1>5 DEF CheckDuplicate, GiveBack, AddDnat,
         ArmAndSpawn, StoreRecord, TapOwner
  <2> QED BY <1>0, <2>1, <2>2, TapsKept
<1>6. ASSUME NEW j \in Jobs,
             \/ Launch(j) \/ MarkFailed(j) \/ StopVm(j) \/ TaskRemovesDnat(j)
             \/ TaskReleases(j) \/ MarkExited(j) \/ Disarm(j)
      PROVE  TapsOwned'
  <2>1. UNCHANGED <<taps, slot>>
      BY <1>6 DEF Launch, MarkFailed, StopVm, TaskRemovesDnat,
         TaskReleases, MarkExited, Disarm
  <2>2. \A k \in Jobs : TapOwner(k)' => TapOwner(k)
      BY <1>0, <1>6 DEF Launch, MarkFailed, StopVm, TaskRemovesDnat,
         TaskReleases, MarkExited, Disarm, TapOwner
  <2> QED BY <1>0, <2>1, <2>2, TapsKept
<1>7. ASSUME UNCHANGED <<taps, slot, step, phase, answer>>,
             \A k \in Jobs : launched'[k] = "up" => launched[k] = "up"
      PROVE  TapsOwned'
    BY <1>0, <1>7, TapsKept DEF TapOwner
<1>8. CASE ManagerRestarts
  <2>1. UNCHANGED <<taps, slot>> /\ \A k \in Jobs : TapOwner(k)' => TapOwner(k)
      BY <1>8 DEF ManagerRestarts, TapOwner
  <2> QED BY <1>0, <2>1, TapsKept
<1>9. ASSUME NEW j \in Jobs, VmExits(j) PROVE TapsOwned'
    BY <1>0, <1>7, <1>9 DEF VmExits
<1>10. CASE ProxyRestarts \/ UNCHANGED vars
    BY <1>7, <1>10 DEF ProxyRestarts, vars
<1>11. ASSUME NEW d \in Deleters,
              \/ SendShutdown(d) \/ DeleterDropped(d)
              \/ \E id \in Ids : MarkShuttingDown(d, id)
       PROVE  TapsOwned'
    BY <1>7, <1>11 DEF SendShutdown, DeleterDropped, MarkShuttingDown
<1>12. ASSUME NEW j \in Jobs, Proxy(j) PROVE TapsOwned'
  <2>1. UNCHANGED <<taps, slot>> /\ \A k \in Jobs : TapOwner(k)' => TapOwner(k)
      BY <1>0, <1>12, ProxyMoves DEF TapsInv, TypeInv, TapOwner
  <2> QED BY <1>0, <2>1, TapsKept
<1> QED BY <1>1, <1>2, <1>3, <1>4, <1>5, <1>6, <1>8, <1>9, <1>10, <1>11, <1>12
        DEF Next, Handler, Task, Clients, World

\* A VM comes up in launch, and its task leaves the wait only to stop it.
LEMMA UpIsRunningStep ==
    ASSUME TypeInv, TaskAfterHandler, UpIsRunning, [Next]_vars
    PROVE  UpIsRunning'
<1>0. /\ phase \in [Jobs -> Phases]
      /\ launched \in [Jobs -> Lives]
      /\ \A j \in Jobs : phase[j] # "none" => step[j] \in {"record", "done"}
      /\ \A j \in Jobs : launched[j] = "up" => phase[j] \in {"running", "gone"}
    BY DEF TypeInv, TypeOK, TaskAfterHandler, UpIsRunning
<1>1. ASSUME UNCHANGED <<phase, launched>> PROVE UpIsRunning'
    BY <1>0, <1>1 DEF UpIsRunning
<1>2. ASSUME NEW j \in Jobs, ArmAndSpawn(j) PROVE UpIsRunning'
    BY <1>0, <1>2 DEF ArmAndSpawn, UpIsRunning
<1>3. ASSUME NEW j \in Jobs, Launch(j) PROVE UpIsRunning'
    BY <1>0, <1>3 DEF Launch, UpIsRunning
<1>4. ASSUME NEW j \in Jobs, StopVm(j) PROVE UpIsRunning'
    BY <1>0, <1>4 DEF StopVm, UpIsRunning
<1>5. ASSUME NEW j \in Jobs,
             \/ MarkFailed(j) \/ TaskRemovesDnat(j)
             \/ TaskCleansTap(j) \/ TaskReleases(j) \/ MarkExited(j) \/ Disarm(j)
      PROVE  UpIsRunning'
  <2>1. /\ UNCHANGED launched /\ phase[j] \notin {"running", "gone"}
        /\ \A k \in Jobs \ {j} : phase'[k] = phase[k]
      BY <1>0, <1>5 DEF MarkFailed, TaskRemovesDnat, TaskCleansTap,
         TaskReleases, MarkExited, Disarm
  <2> QED BY <1>0, <2>1 DEF UpIsRunning
<1>6. ASSUME NEW j \in Jobs, VmExits(j) PROVE UpIsRunning'
    BY <1>0, <1>6 DEF VmExits, UpIsRunning
<1>7. CASE ManagerRestarts
    BY <1>0, <1>7 DEF ManagerRestarts, UpIsRunning
<1>8. ASSUME NEW j \in Jobs,
             \/ CheckDuplicate(j) \/ AllocateIp(j) \/ GiveBack(j)
             \/ SetupTap(j) \/ AddDnat(j) \/ HandlerCleansTap(j) \/ StoreRecord(j)
             \/ HandlerDropped(j)
      PROVE  UpIsRunning'
    BY <1>1, <1>8 DEF CheckDuplicate, AllocateIp, GiveBack, SetupTap,
       AddDnat, HandlerCleansTap, StoreRecord, HandlerDropped
<1>9. ASSUME NEW j \in Jobs, Proxy(j) PROVE UpIsRunning'
    BY <1>0, <1>9, ProxyMoves DEF TapsInv, TypeInv, UpIsRunning
<1> QED BY <1>1, <1>2, <1>3, <1>4, <1>5, <1>6, <1>7, <1>8, <1>9
        DEF Next, Handler, Task, Clients, World, SendShutdown, DeleterDropped,
            MarkShuttingDown, ProxyRestarts, vars

\* All of it under every fault.
LEMMA TapsInvariant == Spec => []TapsInv
<1>1. Init => TapsInv
    BY TypeInit DEF Init, TapsInv, TaskAfterHandler, UpIsRunning, TapsOwned, TapOwner
<1>2. TapsInv /\ [Next]_vars => TapsInv'
    BY TypeStep, TaskAfterHandlerStep, UpIsRunningStep, TapsStep DEF TapsInv
<1> QED BY <1>1, <1>2, PTL DEF Spec

\* A VM fails to start, or is stopped, for good.
LEMMA NothingStrays ==
    ASSUME NoStrays
    PROVE  Spec => [](\A j \in Jobs : launched[j] \notin {"half_started", "not_stopped"})
<1> DEFINE Inv == \A j \in Jobs : launched[j] \notin {"half_started", "not_stopped"}
<1>1. Init => Inv
    BY DEF Init
<1>2. TypeInv /\ Inv /\ [Next]_vars => Inv'
  <2> SUFFICES ASSUME TypeInv, Inv, [Next]_vars PROVE Inv'
      OBVIOUS
  <2>0. launched \in [Jobs -> Lives] /\ TypeOK /\ ~ May("stray") /\ ~ May("stop")
      BY DEF TypeInv, TypeOK, NoStrays, May
  <2>1. ASSUME NEW j \in Jobs, Launch(j) \/ StopVm(j) \/ VmExits(j) PROVE Inv'
      BY <2>0, <2>1 DEF Launch, StopVm, VmExits
  <2>2. CASE ManagerRestarts
      BY <2>2 DEF ManagerRestarts
  <2>3. CASE UNCHANGED launched
      BY <2>3
  <2>4. ASSUME NEW j \in Jobs, Proxy(j) PROVE UNCHANGED launched
      BY <2>0, <2>4, ProxyMoves
  <2>5. ASSUME NEW j \in Jobs, Handler(j) \/ CheckDuplicate(j) \/ HandlerDropped(j)
        PROVE  UNCHANGED launched
      BY <2>5 DEF Handler, CheckDuplicate, AllocateIp, GiveBack, SetupTap, AddDnat,
         HandlerCleansTap, ArmAndSpawn, StoreRecord, HandlerDropped
  <2> QED BY <2>1, <2>2, <2>3, <2>4, <2>5 DEF Next, Task, MarkFailed, TaskRemovesDnat,
          TaskCleansTap, TaskReleases, MarkExited, Disarm, Clients, World, SendShutdown,
          DeleterDropped, MarkShuttingDown, ProxyRestarts, vars
<1> QED BY <1>1, <1>2, TypeInvHolds, PTL DEF Spec

\* The files that a VM finds under its session id (vm.rs:212 and 217,
\* file_injection.rs) are used by one VM at a time, whatever else fails and however
\* often the manager and the proxy are restarted, as long as no process is left of a
\* VM that the manager has given up: whoever uses them owns the TAP of the id, and
\* `ip tuntap add' gives that to nobody else.
THEOREM FilesStayApart ==
    ASSUME NoStrays
    PROVE  Spec => []FilesApart
<1> DEFINE Inv == \A j \in Jobs : launched[j] \notin {"half_started", "not_stopped"}
<1>1. TapsInv /\ Inv => FilesApart
    BY DEF TapsInv, TapsOwned, TapOwner, FilesApart, UsesFiles
<1> QED BY <1>1, TapsInvariant, NothingStrays, PTL

-----------------------------------------------------------------------------
(* Rules                                                                   *)

\* The chain stays; what is missing or incomplete has no rule in it.
LEMMA RulesKept ==
    ASSUME RulesOwned, UNCHANGED dnat,
           \A id \in Ids : taps'[id] = NoSlot => dnat[id] = <<>>,
           \A k \in Jobs : RuleOwner(k)' => RuleOwner(k) /\ slot'[k] = slot[k],
           \A k \in Jobs : NoRuleYet(k)' => dnat[IdOf[k]] = <<>>
    PROVE  RulesOwned'
BY DEF RulesOwned

\* No two jobs own a TAP, so that a rule that one adds or removes is its own.
LEMMA OtherTaps ==
    ASSUME ConnectedInv, NEW j \in Jobs, TapOwner(j), NEW k \in Jobs \ {j},
           RuleOwner(k) \/ NoRuleYet(k)
    PROVE  IdOf[k] # IdOf[j]
<1>1. TapOwner(k)
    BY DEF RuleOwner, NoRuleYet, TapOwner
<1> QED BY <1>1, Basics DEF TapsOwned

\* The first rule for a TAP leads to the address of the TAP's owner.
LEMMA RuleAdded ==
    ASSUME ConnectedInv, NEW j \in Jobs, NoRuleYet(j), dnat' = GivenRule(j),
           UNCHANGED <<taps, slot>>, ~ NoRuleYet(j)',
           \A k \in Jobs \ {j} : RuleOwner(k)' => RuleOwner(k),
           \A k \in Jobs \ {j} : NoRuleYet(k)' => NoRuleYet(k)
    PROVE  RulesOwned'
<1>1. TapOwner(j)
    BY DEF NoRuleYet, TapOwner
<1>2. taps[IdOf[j]] # NoSlot /\ dnat[IdOf[j]] = <<>>
    BY <1>1, Basics DEF TapsOwned, RulesOwned
<1>3. /\ dnat'[IdOf[j]] = <<slot[j]>>
      /\ \A id \in Ids \ {IdOf[j]} : dnat'[id] = dnat[id]
  <2>1. Append(<<>>, slot[j]) = <<slot[j]>>
      OBVIOUS
  <2> QED BY <1>2, <2>1, Basics DEF GivenRule
<1>4. \A k \in Jobs : IdOf[k] \in Ids
    BY Basics
<1>5. \A id \in Ids : taps'[id] = NoSlot => dnat'[id] = <<>>
    BY <1>2, <1>3, Basics DEF RulesOwned
<1>6. \A k \in Jobs : RuleOwner(k)' => dnat'[IdOf[k]] = <<slot'[k]>>
    BY <1>1, <1>3, <1>4, OtherTaps, Basics DEF RulesOwned
<1>7. \A k \in Jobs : NoRuleYet(k)' => dnat'[IdOf[k]] = <<>>
    BY <1>1, <1>3, <1>4, OtherTaps, Basics DEF RulesOwned
<1> QED BY <1>5, <1>6, <1>7 DEF RulesOwned

\* remove_dnat_rule removes every rule for the TAP of its caller.
LEMMA RulesRemoved ==
    ASSUME ConnectedInv, NEW j \in Jobs, TapOwner(j),
           dnat' = [dnat EXCEPT ![IdOf[j]] = <<>>],
           UNCHANGED <<taps, slot>>, ~ RuleOwner(j)',
           \A k \in Jobs \ {j} : RuleOwner(k)' => RuleOwner(k),
           \A k \in Jobs \ {j} : NoRuleYet(k)' => NoRuleYet(k)
    PROVE  RulesOwned'
<1>1. /\ dnat'[IdOf[j]] = <<>>
      /\ \A id \in Ids \ {IdOf[j]} : dnat'[id] = dnat[id]
    BY Basics
<1>2. \A k \in Jobs : IdOf[k] \in Ids
    BY Basics
<1>3. \A id \in Ids : taps'[id] = NoSlot => dnat'[id] = <<>>
    BY <1>1, Basics DEF RulesOwned
<1>4. \A k \in Jobs : RuleOwner(k)' => dnat'[IdOf[k]] = <<slot'[k]>>
    BY <1>1, <1>2, OtherTaps, Basics DEF RulesOwned
<1>5. \A k \in Jobs : NoRuleYet(k)' => dnat'[IdOf[k]] = <<>>
    BY <1>1, <1>2, OtherTaps, Basics DEF RulesOwned
<1> QED BY <1>3, <1>4, <1>5 DEF RulesOwned

\* Steps of handlers: the TAP is set up without a rule, and its rule added.
LEMMA RulesHandlerStep ==
    ASSUME HostStateIsWhole, ConnectedInv, NEW j \in Jobs,
           Handler(j) \/ CheckDuplicate(j) \/ HandlerDropped(j)
    PROVE  RulesOwned'
<1>0. /\ step \in [Jobs -> Steps] /\ phase \in [Jobs -> Phases]
      /\ slot \in [Jobs -> Slots \union {NoSlot}] /\ answer \in [Jobs -> Answers]
      /\ taps \in [Ids -> Slots \union {NoSlot}]
      /\ \A k \in Jobs : IdOf[k] \in Ids
      /\ \A k \in Jobs : phase[k] # "none" => step[k] \in {"record", "done"}
      /\ RulesOwned
    BY Basics
<1>1. \A k \in Jobs : NoRuleYet(k) => dnat[IdOf[k]] = <<>>
    BY <1>0 DEF RulesOwned
<1>2. \A id \in Ids : taps[id] = NoSlot => dnat[id] = <<>>
    BY <1>0 DEF RulesOwned
<1>3. ASSUME SetupTap(j) PROVE RulesOwned'
  <2>1. /\ UNCHANGED <<dnat, slot>>
        /\ \A k \in Jobs : RuleOwner(k)' => RuleOwner(k)
        /\ \A k \in Jobs \ {j} : NoRuleYet(k)' => NoRuleYet(k)
      BY <1>0, <1>3 DEF SetupTap, RuleOwner, NoRuleYet
  <2>2. NoRuleYet(j)' => dnat[IdOf[j]] = <<>>
      BY <1>0, <1>2, <1>3 DEF SetupTap, NoRuleYet
  <2>3. \A id \in Ids : taps'[id] = NoSlot => dnat[id] = <<>>
      BY <1>0, <1>2, <1>3 DEF SetupTap, GivenTap
  <2> QED BY <1>0, <1>1, <2>1, <2>2, <2>3, RulesKept
<1>4. ASSUME AddDnat(j) PROVE RulesOwned'
  <2>1. /\ UNCHANGED <<taps, slot>> /\ NoRuleYet(j)
        /\ \A k \in Jobs \ {j} : RuleOwner(k)' => RuleOwner(k)
        /\ \A k \in Jobs \ {j} : NoRuleYet(k)' => NoRuleYet(k)
      BY <1>0, <1>4 DEF AddDnat, RuleOwner, NoRuleYet
  <2>2. CASE dnat' = GivenRule(j) /\ HandlerAt(j, "add_dnat", "arm")
    <3>1. ~ NoRuleYet(j)'
        BY <1>0, <1>4, <2>2 DEF AddDnat, NoRuleYet
    <3> QED BY <2>1, <2>2, <3>1, RuleAdded
  <2>3. CASE UNCHANGED dnat /\ HandlerAt(j, "add_dnat", "dnat_failed")
    <3>1. ~ RuleOwner(j)'
        BY <1>0, <1>4, <2>3 DEF AddDnat, RuleOwner
    <3> QED BY <1>0, <1>1, <1>2, <2>1, <2>3, <3>1, RulesKept
  <2> QED BY <1>4, <2>2, <2>3 DEF AddDnat, HostStateIsWhole, May
<1>5. ASSUME HandlerCleansTap(j) PROVE RulesOwned'
  <2>1. /\ UNCHANGED <<dnat, slot>> /\ NoRuleYet(j) /\ CleanTap(j)
        /\ \A k \in Jobs : RuleOwner(k)' => RuleOwner(k)
        /\ \A k \in Jobs : NoRuleYet(k)' => NoRuleYet(k)
      BY <1>0, <1>5 DEF HandlerCleansTap, RuleOwner, NoRuleYet
  <2>2. \A id \in Ids : taps'[id] = NoSlot => dnat[id] = <<>>
      BY <1>0, <1>1, <1>2, <2>1 DEF CleanTap
  <2> QED BY <1>0, <1>1, <2>1, <2>2, RulesKept
<1>6. ASSUME HandlerDropped(j) PROVE RulesOwned'
  <2>1. /\ UNCHANGED slot
        /\ \A k \in Jobs : RuleOwner(k)' => RuleOwner(k)
        /\ \A k \in Jobs : NoRuleYet(k)' => NoRuleYet(k)
      BY <1>0, <1>6 DEF HandlerDropped, RuleOwner, NoRuleYet
  <2>2. CASE UNCHANGED <<taps, dnat>>
      BY <1>0, <1>1, <1>2, <2>1, <2>2, RulesKept
  <2>3. CASE /\ step[j] = "setup_tap" /\ taps[IdOf[j]] = NoSlot
             /\ taps' = GivenTap(j) /\ UNCHANGED dnat
    <3>1. \A id \in Ids : taps'[id] = NoSlot => dnat[id] = <<>>
        BY <1>0, <1>2, <2>3 DEF GivenTap
    <3> QED BY <1>0, <1>1, <2>1, <2>3, <3>1, RulesKept
  <2>4. CASE step[j] = "add_dnat" /\ dnat' = GivenRule(j) /\ UNCHANGED taps
    <3>1. NoRuleYet(j) /\ ~ NoRuleYet(j)'
        BY <1>0, <1>6, <2>4 DEF HandlerDropped, NoRuleYet
    <3> QED BY <2>1, <2>4, <3>1, RuleAdded
  <2>5. CASE step[j] = "dnat_failed_tap" /\ CleanTap(j) /\ UNCHANGED dnat
    <3>1. NoRuleYet(j)
        BY <1>6, <2>5 DEF HandlerDropped, NoRuleYet
    <3>2. \A id \in Ids : taps'[id] = NoSlot => dnat[id] = <<>>
        BY <1>0, <1>1, <1>2, <2>5, <3>1 DEF CleanTap
    <3> QED BY <1>0, <1>1, <2>1, <2>5, <3>2, RulesKept
  <2> QED BY <1>6, <2>2, <2>3, <2>4, <2>5 DEF HandlerDropped
<1>7. ASSUME \/ CheckDuplicate(j) \/ AllocateIp(j) \/ GiveBack(j)
             \/ ArmAndSpawn(j) \/ StoreRecord(j)
      PROVE  RulesOwned'
  <2>1. UNCHANGED <<taps, dnat>>
      BY <1>7 DEF CheckDuplicate, AllocateIp, GiveBack,
         ArmAndSpawn, StoreRecord
  <2>2. \A k \in Jobs : RuleOwner(k)' => RuleOwner(k) /\ slot'[k] = slot[k]
      BY <1>0, <1>7 DEF CheckDuplicate, AllocateIp, GiveBack,
         ArmAndSpawn, StoreRecord, RuleOwner
  <2>3. \A k \in Jobs : NoRuleYet(k)' => NoRuleYet(k)
      BY <1>0, <1>7 DEF CheckDuplicate, AllocateIp, GiveBack,
         ArmAndSpawn, StoreRecord, NoRuleYet
  <2> QED BY <1>0, <1>1, <1>2, <2>1, <2>2, <2>3, RulesKept
<1> QED BY <1>3, <1>4, <1>5, <1>6, <1>7 DEF Handler

\* Steps of tasks: the rules go before the interface does.
LEMMA RulesTaskStep ==
    ASSUME HostStateIsWhole, ConnectedInv, NEW j \in Jobs, Task(j)
    PROVE  RulesOwned'
<1>0. /\ step \in [Jobs -> Steps] /\ phase \in [Jobs -> Phases]
      /\ taps \in [Ids -> Slots \union {NoSlot}]
      /\ \A k \in Jobs : IdOf[k] \in Ids
      /\ \A k \in Jobs : phase[k] # "none" => step[k] \in {"record", "done"}
      /\ RulesOwned
    BY Basics
<1>1. \A k \in Jobs : NoRuleYet(k) => dnat[IdOf[k]] = <<>>
    BY <1>0 DEF RulesOwned
<1>2. \A id \in Ids : taps[id] = NoSlot => dnat[id] = <<>>
    BY <1>0 DEF RulesOwned
<1>3. ASSUME TaskRemovesDnat(j) PROVE RulesOwned'
  <2>1. /\ UNCHANGED <<taps, slot>> /\ TapOwner(j) /\ ~ RuleOwner(j)'
        /\ \A k \in Jobs \ {j} : RuleOwner(k)' => RuleOwner(k)
        /\ \A k \in Jobs \ {j} : NoRuleYet(k)' => NoRuleYet(k)
      BY <1>0, <1>3 DEF TaskRemovesDnat, TapOwner, RuleOwner, NoRuleYet
  <2>2. dnat' = [dnat EXCEPT ![IdOf[j]] = <<>>]
      BY <1>3 DEF TaskRemovesDnat, RemoveDnat, HostStateIsWhole, May
  <2> QED BY <2>1, <2>2, RulesRemoved
<1>4. ASSUME TaskCleansTap(j) PROVE RulesOwned'
  <2>1. /\ UNCHANGED <<dnat, slot>> /\ NoRuleYet(j) /\ CleanTap(j)
        /\ \A k \in Jobs : RuleOwner(k)' => RuleOwner(k)
        /\ \A k \in Jobs : NoRuleYet(k)' => NoRuleYet(k)
      BY <1>0, <1>4 DEF TaskCleansTap, RuleOwner, NoRuleYet
  <2>2. \A id \in Ids : taps'[id] = NoSlot => dnat[id] = <<>>
      BY <1>0, <1>1, <1>2, <2>1 DEF CleanTap
  <2> QED BY <1>0, <1>1, <2>1, <2>2, RulesKept
<1>5. ASSUME \/ Launch(j) \/ MarkFailed(j) \/ StopVm(j) \/ TaskReleases(j)
             \/ MarkExited(j) \/ Disarm(j)
      PROVE  RulesOwned'
  <2>1. UNCHANGED <<taps, dnat, slot>>
      BY <1>5 DEF Launch, MarkFailed, StopVm, TaskReleases, MarkExited,
         Disarm
  <2>2. \A k \in Jobs : RuleOwner(k)' => RuleOwner(k)
      BY <1>0, <1>5 DEF Launch, MarkFailed, StopVm, TaskReleases,
         MarkExited, Disarm, RuleOwner
  <2>3. \A k \in Jobs : NoRuleYet(k)' => NoRuleYet(k)
      BY <1>0, <1>5 DEF Launch, MarkFailed, StopVm, TaskReleases,
         MarkExited, Disarm, NoRuleYet
  <2>4. \A id \in Ids : taps'[id] = NoSlot => dnat[id] = <<>>
      BY <1>2, <2>1
  <2>5. \A k \in Jobs : NoRuleYet(k)' => dnat[IdOf[k]] = <<>>
      BY <1>1, <2>3
  <2> QED BY <1>0, <2>1, <2>2, <2>4, <2>5, RulesKept
<1> QED BY <1>3, <1>4, <1>5 DEF Task

\* Nobody but handlers and tasks touches rules and interfaces.
LEMMA RulesStep ==
    ASSUME HostStateIsWhole, ConnectedInv, [Next]_vars
    PROVE  RulesOwned'
<1>1. ASSUME UNCHANGED <<taps, dnat, slot, step, phase, answer>> PROVE RulesOwned'
    BY <1>1, Basics DEF RulesOwned, RuleOwner, NoRuleYet
<1>2. CASE ManagerRestarts
  <2>1. \A k \in Jobs : ~ RuleOwner(k)' /\ ~ NoRuleYet(k)'
      BY <1>2 DEF ManagerRestarts, RuleOwner, NoRuleYet
  <2>2. \A id \in Ids : taps'[id] = NoSlot => dnat'[id] = <<>>
      BY <1>2, Basics DEF ManagerRestarts, RulesOwned
  <2> QED BY <2>1, <2>2 DEF RulesOwned
<1>3. ASSUME NEW j \in Jobs, Proxy(j) PROVE RulesOwned'
  <2>1. /\ UNCHANGED <<taps, dnat, slot>>
        /\ \A k \in Jobs : RuleOwner(k)' => RuleOwner(k)
        /\ \A k \in Jobs : NoRuleYet(k)' => NoRuleYet(k)
      BY <1>3, ProxyMoves, Basics DEF ConnectedInv, TapsInv, TypeInv, RuleOwner, NoRuleYet
  <2> QED BY <2>1, Basics, RulesKept DEF RulesOwned
<1> QED BY <1>1, <1>2, <1>3, RulesHandlerStep, RulesTaskStep
        DEF Next, Clients, World, SendShutdown,
        DeleterDropped, MarkShuttingDown, VmExits, ProxyRestarts, vars

-----------------------------------------------------------------------------
\* A running VM has its interface with its gateway and exactly its own rule, for any
\* number of jobs that share ids and addresses over time (api.rs, vm.rs, network.rs),
\* also when the manager has been restarted and left things behind, unless a chain of
\* rules is changed in part.
THEOREM RunningStaysConnected ==
    ASSUME HostStateIsWhole
    PROVE  Spec => []RunningIsConnected
<1>1. Init => ConnectedInv
    BY TypeInit DEF Init, ConnectedInv, TapsInv, TaskAfterHandler, UpIsRunning, TapsOwned,
       RulesOwned, TapOwner, RuleOwner, NoRuleYet, Slots
<1>2. ConnectedInv /\ [Next]_vars => ConnectedInv'
    BY TypeStep, TaskAfterHandlerStep, UpIsRunningStep, TapsStep, RulesStep
       DEF ConnectedInv, TapsInv
<1>3. ConnectedInv => RunningIsConnected
    BY DEF ConnectedInv, TapsInv, TapsOwned, RulesOwned, TapOwner, RuleOwner, RunningIsConnected
<1> QED BY <1>1, <1>2, <1>3, PTL DEF Spec

-----------------------------------------------------------------------------
(* Calls of the proxy and the jobs they are made for *)

\* Where a job is while a call is in hand for it: before its VM, or after that, or
\* its handler or task is gone.
CallPlace ==
    \A j \in Jobs :
        /\ call[j] \in {"insert", "publish", "readback"} =>
               step[j] \in {"register", "done"} /\ phase[j] = "none" /\ claim[j] # "forgotten"
        /\ call[j] # "none" =>
               \/ step[j] \in {"register", "unregister", "done"} /\ phase[j] = "none"
               \/ phase[j] \in {"unregister", "gone"} /\ launched[j] # "up"

TargetKnown ==
    \A j \in Jobs :
        IF call[j] \in {"delrow", "delentry"} THEN target[j] \in Slots ELSE target[j] = NoSlot

PlaceInv == TypeInv /\ TaskAfterHandler /\ UpIsRunning /\ CallPlace /\ TargetKnown

\* A job owns the session of its id and address from the INSERT of its row to the
\* DELETE of it.
SessionOwner(j) ==
    \/ call[j] \in {"publish", "readback", "find", "delrow"}
    \/ step[j] \in {"setup_tap", "add_dnat", "arm", "tap_failed", "dnat_failed",
                    "dnat_failed_tap"}
    \/ phase[j] \in {"launch", "mark_failed", "running"}
    \/ launched[j] = "up"

LEMMA PlaceBasics ==
    ASSUME PlaceInv
    PROVE  /\ step \in [Jobs -> Steps] /\ phase \in [Jobs -> Phases]
           /\ call \in [Jobs -> Works] /\ launched \in [Jobs -> Lives]
           /\ slot \in [Jobs -> Slots \union {NoSlot}]
           /\ target \in [Jobs -> Slots \union {NoSlot}]
           /\ claim \in [Jobs -> {"sole", "raced", "forgotten"}]
           /\ answer \in [Jobs -> Answers]
           /\ entries \in [Slots -> Ids \union {NoId}] /\ rows \subseteq SessionRecord
           /\ TypeOK /\ NoSlot \notin Slots
           /\ \A j \in Jobs : IdOf[j] \in Ids
           /\ \A j \in Jobs : slot[j] \notin Slots =>
                /\ call[j] = "none" /\ phase[j] = "none" /\ launched[j] = "no"
                /\ claim[j] = "sole" /\ step[j] \in {"check", "allocate", "done"}
           /\ \A j \in Jobs : step[j] \in {"check", "allocate"} =>
                /\ call[j] = "none" /\ phase[j] = "none" /\ launched[j] = "no"
                /\ claim[j] = "sole"
           /\ \A j \in Jobs : phase[j] # "none" => step[j] \in {"record", "done"}
           /\ \A j \in Jobs : launched[j] = "up" => phase[j] \in {"running", "gone"}
<1>1. /\ \A j \in Jobs : slot[j] \notin Slots =>
           /\ call[j] = "none" /\ phase[j] = "none" /\ launched[j] = "no"
           /\ claim[j] = "sole" /\ step[j] \in {"check", "allocate", "done"}
      /\ \A j \in Jobs : step[j] \in {"check", "allocate"} =>
           /\ call[j] = "none" /\ phase[j] = "none" /\ launched[j] = "no"
           /\ claim[j] = "sole"
    BY DEF PlaceInv, TypeInv, SlotKnown, Fresh
<1> QED BY <1>1, NoSlotIsNone, IdOfAssumption
        DEF PlaceInv, TypeInv, TypeOK, TaskAfterHandler, UpIsRunning

\* Nobody has a VM, or anything to set up for one, while a call is in hand for it.
LEMMA NoCallThere ==
    ASSUME PlaceInv, NEW j \in Jobs,
           \/ step[j] \in {"check", "allocate", "setup_tap", "add_dnat", "arm", "refused",
                           "tap_failed", "dnat_failed", "dnat_failed_tap"}
           \/ phase[j] \notin {"none", "unregister", "gone"} \/ launched[j] = "up"
    PROVE  call[j] = "none" /\ target[j] = NoSlot
BY PlaceBasics DEF PlaceInv, CallPlace, TargetKnown

\* No session and no call changes, and no VM or owner comes into being.
Quiet ==
    /\ UNCHANGED <<rows, entries, call, target, claim, slot>>
    /\ \A k \in Jobs : (HasVm(k)' => HasVm(k)) /\ (SessionOwner(k)' => SessionOwner(k))

\* A handler or task makes a call.
CallBegins(j) ==
    /\ call[j] = "none" /\ slot'[j] \in Slots
    /\ \/ call' = [call EXCEPT ![j] = "insert"] /\ step[j] = "allocate"
       \/ call' = [call EXCEPT ![j] = "find"] /\ SessionOwner(j) /\ UNCHANGED slot
    /\ UNCHANGED <<rows, entries, target, claim>>
    /\ \A k \in Jobs \ {j} : slot'[k] = slot[k]
    /\ \A k \in Jobs : HasVm(k)' => HasVm(k) /\ slot'[k] = slot[k]
    /\ \A k \in Jobs : SessionOwner(k)' => SessionOwner(k) /\ slot'[k] = slot[k]

\* The proxy is at work on a call.
CallGoesOn(j) ==
    /\ UNCHANGED slot /\ ~ HasVm(j)
    /\ HasVm(j)' => call[j] = "readback" /\ call'[j] = "none"
    /\ SessionOwner(j)' => SessionOwner(j) \/ call'[j] = "publish"
    /\ \A k \in Jobs \ {j} :
         /\ call'[k] = call[k] /\ target'[k] = target[k] /\ claim'[k] = claim[k]
         /\ (HasVm(k)' <=> HasVm(k)) /\ (SessionOwner(k)' <=> SessionOwner(k))

\* Handlers and tasks make a call each time they enter a call's place.
LEMMA HandlerCalls ==
    ASSUME PlaceInv, NEW j \in Jobs, Handler(j) \/ CheckDuplicate(j) \/ HandlerDropped(j)
    PROVE  Quiet \/ CallBegins(j)
<1>0. /\ step \in [Jobs -> Steps] /\ phase \in [Jobs -> Phases] /\ call \in [Jobs -> Works]
      /\ slot \in [Jobs -> Slots \union {NoSlot}] /\ launched \in [Jobs -> Lives]
      /\ answer \in [Jobs -> Answers]
      /\ slot[j] \notin Slots => step[j] \in {"check", "allocate", "done"}
      /\ step[j] \in {"check", "allocate"} =>
           call[j] = "none" /\ phase[j] = "none" /\ launched[j] = "no"
    BY PlaceBasics
<1>1. CASE AllocateIp(j)
  <2>1. CASE UNCHANGED <<pool, slot, proxyVars>> /\ HandlerAt(j, "allocate", "done")
    <3>1. \A k \in Jobs : (HasVm(k)' => HasVm(k)) /\ (SessionOwner(k)' => SessionOwner(k))
        BY <1>0, <1>1, <2>1 DEF AllocateIp, HasVm, SessionOwner
    <3> QED BY <2>1, <3>1 DEF Quiet
  <2>2. ASSUME NEW s \in Slots, slot' = [slot EXCEPT ![j] = s],
               HandlerAt(j, "allocate", "register"), Calls(j, "insert")
        PROVE  CallBegins(j)
    <3>1. UNCHANGED <<phase, launched, answer>>
        BY <1>0, <1>1, <2>2 DEF AllocateIp
    <3>2. \A k \in Jobs : HasVm(k)' => HasVm(k) /\ slot'[k] = slot[k]
        BY <1>0, <2>2, <3>1 DEF HasVm
    <3>3. \A k \in Jobs : SessionOwner(k)' => SessionOwner(k) /\ slot'[k] = slot[k]
        BY <1>0, <2>2, <3>1 DEF SessionOwner
    <3> QED BY <1>0, <2>2, <3>2, <3>3 DEF CallBegins
  <2> QED BY <1>1, <2>1, <2>2 DEF AllocateIp
<1>2. CASE GiveBack(j) \/ HandlerCleansTap(j)
  <2>1. UNCHANGED <<rows, entries, target, claim, slot, phase, launched, answer>>
      BY <1>2 DEF GiveBack, HandlerCleansTap
  <2>2. CASE HandlerAt(j, "refused", "done") /\ UNCHANGED proxyVars
    <3>1. \A k \in Jobs : (HasVm(k)' => HasVm(k)) /\ (SessionOwner(k)' => SessionOwner(k))
        BY <1>0, <2>1, <2>2 DEF HasVm, SessionOwner
    <3> QED BY <2>1, <2>2, <3>1 DEF Quiet
  <2>3. CASE HandlerAt(j, "dnat_failed", "dnat_failed_tap") /\ UNCHANGED proxyVars
    <3>1. \A k \in Jobs : (HasVm(k)' => HasVm(k)) /\ (SessionOwner(k)' => SessionOwner(k))
        BY <1>0, <2>1, <2>3 DEF HasVm, SessionOwner
    <3> QED BY <2>1, <2>3, <3>1 DEF Quiet
  <2>4. ASSUME NEW here \in {"tap_failed", "dnat_failed_tap"},
               HandlerAt(j, here, "unregister"), Calls(j, "find")
        PROVE  CallBegins(j)
    <3>1. call[j] = "none" /\ slot[j] \in Slots /\ SessionOwner(j)
        BY <1>0, <2>4, NoCallThere DEF SessionOwner
    <3>2. \A k \in Jobs : HasVm(k)' => HasVm(k)
        BY <1>0, <2>1, <2>4 DEF HasVm
    <3>3. \A k \in Jobs : SessionOwner(k)' => SessionOwner(k)
        BY <1>0, <2>1, <2>4, <3>1 DEF SessionOwner
    <3> QED BY <2>1, <2>4, <3>1, <3>2, <3>3 DEF CallBegins
  <2> QED BY <1>2, <2>2, <2>3, <2>4 DEF GiveBack, HandlerCleansTap
<1>3. CASE \/ CheckDuplicate(j) \/ SetupTap(j) \/ AddDnat(j) \/ ArmAndSpawn(j)
           \/ StoreRecord(j) \/ HandlerDropped(j)
  <2>1. UNCHANGED <<rows, entries, call, target, claim, slot, launched>>
      BY <1>3 DEF CheckDuplicate, SetupTap, AddDnat, ArmAndSpawn, StoreRecord, HandlerDropped
  <2>2. \A k \in Jobs : HasVm(k)' => HasVm(k)
      BY <1>0, <1>3 DEF CheckDuplicate, SetupTap, AddDnat, ArmAndSpawn, StoreRecord,
         HandlerDropped, HasVm
  <2>3. \A k \in Jobs : SessionOwner(k)' => SessionOwner(k)
      BY <1>0, <1>3 DEF CheckDuplicate, SetupTap, AddDnat, ArmAndSpawn, StoreRecord,
         HandlerDropped, SessionOwner
  <2> QED BY <2>1, <2>2, <2>3 DEF Quiet
<1> QED BY <1>1, <1>2, <1>3 DEF Handler

LEMMA TaskCalls ==
    ASSUME PlaceInv, NEW j \in Jobs, Task(j) \/ VmExits(j)
    PROVE  Quiet \/ CallBegins(j)
<1>0. /\ step \in [Jobs -> Steps] /\ phase \in [Jobs -> Phases] /\ call \in [Jobs -> Works]
      /\ slot \in [Jobs -> Slots \union {NoSlot}] /\ launched \in [Jobs -> Lives]
      /\ slot[j] \notin Slots => phase[j] = "none"
      /\ \A k \in Jobs : phase[k] # "none" => step[k] \in {"record", "done"}
      /\ \A k \in Jobs : launched[k] = "up" => phase[k] \in {"running", "gone"}
    BY PlaceBasics
<1>1. CASE MarkFailed(j) \/ StopVm(j)
  <2>1. /\ UNCHANGED <<rows, entries, target, claim, slot, step, answer>>
        /\ phase[j] \in {"mark_failed", "running"} /\ Calls(j, "find")
        /\ phase' = [phase EXCEPT ![j] = "unregister"] /\ launched'[j] # "up"
        /\ \A k \in Jobs \ {j} : launched'[k] = launched[k]
      BY <1>0, <1>1 DEF MarkFailed, StopVm
  <2>2. call[j] = "none" /\ slot[j] \in Slots /\ SessionOwner(j)
      BY <1>0, <2>1, NoCallThere DEF SessionOwner
  <2>3. \A k \in Jobs : HasVm(k)' => HasVm(k)
      BY <1>0, <2>1 DEF HasVm
  <2>4. \A k \in Jobs : SessionOwner(k)' => SessionOwner(k)
      BY <1>0, <2>1, <2>2 DEF SessionOwner
  <2> QED BY <2>1, <2>2, <2>3, <2>4 DEF CallBegins
<1>2. CASE \/ Launch(j) \/ TaskRemovesDnat(j) \/ TaskCleansTap(j) \/ TaskReleases(j)
           \/ MarkExited(j) \/ Disarm(j) \/ VmExits(j)
  <2>1. UNCHANGED <<rows, entries, call, target, claim, slot>>
      BY <1>2 DEF Launch, TaskRemovesDnat, TaskCleansTap, TaskReleases, MarkExited, Disarm,
         VmExits
  <2>2. \A k \in Jobs : HasVm(k)' => HasVm(k)
      BY <1>0, <1>2 DEF Launch, TaskRemovesDnat, TaskCleansTap, TaskReleases, MarkExited,
         Disarm, VmExits, HasVm
  <2>3. \A k \in Jobs : SessionOwner(k)' => SessionOwner(k)
      BY <1>0, <1>2 DEF Launch, TaskRemovesDnat, TaskCleansTap, TaskReleases, MarkExited,
         Disarm, VmExits, SessionOwner
  <2> QED BY <2>1, <2>2, <2>3 DEF Quiet
<1> QED BY <1>1, <1>2 DEF Task

LEMMA ProxyCalls ==
    ASSUME PlaceInv, NEW j \in Jobs, Proxy(j)
    PROVE  CallGoesOn(j)
<1>0. /\ step \in [Jobs -> Steps] /\ phase \in [Jobs -> Phases] /\ call \in [Jobs -> Works]
      /\ target \in [Jobs -> Slots \union {NoSlot}]
      /\ claim \in [Jobs -> {"sole", "raced", "forgotten"}]
      /\ launched \in [Jobs -> Lives] /\ answer \in [Jobs -> Answers] /\ TypeOK
      /\ \A k \in Jobs : phase[k] # "none" => step[k] \in {"record", "done"}
      /\ \A k \in Jobs : launched[k] = "up" => phase[k] \in {"running", "gone"}
    BY PlaceBasics
<1>1. call[j] # "none"
    BY DEF Proxy, InsertRow, PublishEntry, ReadBack, FindEntry, DeleteRow, DeleteEntry, CallLost
<1>2. /\ ~ HasVm(j) /\ launched[j] # "up"
      /\ step[j] \notin {"setup_tap", "add_dnat", "arm", "tap_failed", "dnat_failed",
                         "dnat_failed_tap"}
      /\ phase[j] \in {"none", "unregister", "gone"}
    BY <1>1, NoCallThere DEF HasVm
<1>3. \A k \in Jobs \ {j} : call'[k] = call[k] /\ target'[k] = target[k] /\ claim'[k] = claim[k]
  <2> USE DEF CreateReturns, DeleteReturns
  <2>1. CASE InsertRow(j) \/ PublishEntry(j) \/ ReadBack(j)
      BY <1>0, <2>1 DEF InsertRow, PublishEntry, ReadBack
  <2>2. CASE FindEntry(j) \/ DeleteRow(j) \/ DeleteEntry(j)
      BY <1>0, <2>2 DEF FindEntry, DeleteRow, DeleteEntry
  <2>3. CASE CallLost(j)
      BY <1>0, <2>3 DEF CallLost
  <2> QED BY <2>1, <2>2, <2>3 DEF Proxy
<1>4. \A k \in Jobs \ {j} : (HasVm(k)' <=> HasVm(k)) /\ (SessionOwner(k)' <=> SessionOwner(k))
  <2>1. /\ UNCHANGED launched
        /\ \A k \in Jobs \ {j} :
             step'[k] = step[k] /\ phase'[k] = phase[k] /\ answer'[k] = answer[k]
      BY <1>0, ProxyMoves
  <2> QED BY <1>3, <2>1 DEF HasVm, SessionOwner
<1>5. /\ UNCHANGED <<slot, launched>>
      /\ phase'[j] \in {"none", "unregister", "remove_dnat", "gone"}
      /\ step'[j] = step[j] \/ step'[j] \in {"setup_tap", "refused", "done"}
    BY <1>0, <1>2, ProxyMoves
<1>6. step'[j] = "setup_tap" => call[j] = "readback" /\ call'[j] = "none"
  <2> USE DEF CreateReturns, DeleteReturns
  <2>1. CASE InsertRow(j) \/ PublishEntry(j) \/ ReadBack(j)
      BY <1>0, <1>2, <2>1 DEF InsertRow, PublishEntry, ReadBack
  <2>2. CASE FindEntry(j) \/ DeleteRow(j) \/ DeleteEntry(j)
      BY <1>0, <1>2, <2>2 DEF FindEntry, DeleteRow, DeleteEntry
  <2>3. CASE CallLost(j)
      BY <1>0, <1>2, <2>3 DEF CallLost
  <2> QED BY <2>1, <2>2, <2>3 DEF Proxy
<1>7. call'[j] \in {"publish", "readback", "find", "delrow"} =>
          SessionOwner(j) \/ call'[j] = "publish"
  <2> USE DEF CreateReturns, DeleteReturns, SessionOwner
  <2>1. CASE InsertRow(j) \/ PublishEntry(j) \/ ReadBack(j)
      BY <1>0, <2>1 DEF InsertRow, PublishEntry, ReadBack
  <2>2. CASE FindEntry(j) \/ DeleteRow(j) \/ DeleteEntry(j)
      BY <1>0, <2>2 DEF FindEntry, DeleteRow, DeleteEntry
  <2>3. CASE CallLost(j)
      BY <1>0, <2>3 DEF CallLost
  <2> QED BY <2>1, <2>2, <2>3 DEF Proxy
<1>8. HasVm(j)' => call[j] = "readback" /\ call'[j] = "none"
    BY <1>2, <1>5, <1>6 DEF HasVm
<1>9. SessionOwner(j)' => SessionOwner(j) \/ call'[j] = "publish"
    BY <1>2, <1>5, <1>6, <1>7 DEF SessionOwner
<1> QED BY <1>2, <1>3, <1>4, <1>5, <1>8, <1>9 DEF CallGoesOn

LEMMA StepKinds ==
    ASSUME PlaceInv, [Next]_vars
    PROVE  \/ Quiet \/ ProxyRestarts
           \/ \E j \in Jobs : CallBegins(j) \/ (Proxy(j) /\ CallGoesOn(j))
<1>0. /\ phase \in [Jobs -> Phases] /\ launched \in [Jobs -> Lives]
      /\ step \in [Jobs -> Steps]
    BY PlaceBasics
<1>1. CASE ManagerRestarts
  <2>1. UNCHANGED <<rows, entries, call, target, claim, slot>>
      BY <1>1 DEF ManagerRestarts
  <2>2. \A k \in Jobs : (HasVm(k)' => HasVm(k)) /\ (SessionOwner(k)' => SessionOwner(k))
      BY <1>0, <1>1 DEF ManagerRestarts, HasVm, SessionOwner
  <2> QED BY <2>1, <2>2 DEF Quiet
<1>2. CASE (\E d \in Deleters : SendShutdown(d)) \/ UNCHANGED vars
        \/ \E d \in Deleters : DeleterDropped(d) \/ \E id \in Ids : MarkShuttingDown(d, id)
  <2>1. UNCHANGED <<rows, entries, call, target, claim, slot, step, phase, launched, answer>>
      BY <1>2 DEF SendShutdown, DeleterDropped, MarkShuttingDown, vars
  <2> QED BY <2>1 DEF Quiet, HasVm, SessionOwner
<1>3. ASSUME NEW j \in Jobs, Handler(j) \/ CheckDuplicate(j) \/ HandlerDropped(j)
      PROVE  Quiet \/ CallBegins(j)
    BY <1>3, HandlerCalls
<1>4. ASSUME NEW j \in Jobs, Task(j) \/ VmExits(j)
      PROVE  Quiet \/ CallBegins(j)
    BY <1>4, TaskCalls
<1>5. ASSUME NEW j \in Jobs, Proxy(j)
      PROVE  Proxy(j) /\ CallGoesOn(j)
    BY <1>5, ProxyCalls
<1> HIDE DEF vars, Quiet, CallBegins, CallGoesOn
<1> QED BY ONLY <1>1, <1>2, <1>3, <1>4, <1>5, [Next]_vars DEF Next, Clients, World

LEMMA PlaceStep ==
    ASSUME PlaceInv, [Next]_vars
    PROVE  CallPlace' /\ TargetKnown'
<1>0. /\ step \in [Jobs -> Steps] /\ phase \in [Jobs -> Phases] /\ call \in [Jobs -> Works]
      /\ target \in [Jobs -> Slots \union {NoSlot}] /\ launched \in [Jobs -> Lives]
      /\ claim \in [Jobs -> {"sole", "raced", "forgotten"}]
      /\ \A k \in Jobs : step[k] \in {"check", "allocate"} =>
           /\ call[k] = "none" /\ phase[k] = "none" /\ launched[k] = "no"
           /\ claim[k] = "sole"
      /\ \A k \in Jobs : phase[k] # "none" => step[k] \in {"record", "done"}
      /\ \A k \in Jobs : launched[k] = "up" => phase[k] \in {"running", "gone"}
      /\ CallPlace /\ TargetKnown
    BY PlaceBasics DEF PlaceInv
<1> USE DEF CallPlace, TargetKnown
<1>1. ASSUME NEW j \in Jobs, Handler(j) \/ CheckDuplicate(j) \/ HandlerDropped(j)
      PROVE  CallPlace' /\ TargetKnown'
  <2>0. UNCHANGED <<rows, entries, target, claim, launched>>
      BY <1>1 DEF Handler, CheckDuplicate, HandlerDropped, AllocateIp, GiveBack, SetupTap,
         AddDnat, HandlerCleansTap, ArmAndSpawn, StoreRecord
  <2>1. CASE AllocateIp(j)
    <3>1. UNCHANGED <<phase>> BY <2>1 DEF AllocateIp
    <3>2. \/ UNCHANGED call /\ HandlerAt(j, "allocate", "done")
          \/ call' = [call EXCEPT ![j] = "insert"] /\ HandlerAt(j, "allocate", "register")
        BY <2>1 DEF AllocateIp
    <3> QED BY <1>0, <2>0, <3>1, <3>2
  <2>2. CASE GiveBack(j) \/ HandlerCleansTap(j)
    <3>1. UNCHANGED phase BY <2>2 DEF GiveBack, HandlerCleansTap
    <3>2. \/ UNCHANGED call /\ HandlerAt(j, "refused", "done")
          \/ UNCHANGED call /\ HandlerAt(j, "dnat_failed", "dnat_failed_tap")
          \/ /\ call' = [call EXCEPT ![j] = "find"]
             /\ \/ HandlerAt(j, "tap_failed", "unregister")
                \/ HandlerAt(j, "dnat_failed_tap", "unregister")
        BY <2>2 DEF GiveBack, HandlerCleansTap
    <3>3. step[j] \in {"refused", "tap_failed", "dnat_failed", "dnat_failed_tap"}
        BY <3>2
    <3>4. call[j] = "none" /\ target[j] = NoSlot
        BY <3>3, NoCallThere
    <3> QED BY <1>0, <2>0, <3>1, <3>2, <3>4
  <2>3. CASE SetupTap(j) \/ AddDnat(j) \/ ArmAndSpawn(j) \/ CheckDuplicate(j)
    <3>1. call[j] = "none" /\ UNCHANGED call
        BY <2>3, NoCallThere DEF SetupTap, AddDnat, ArmAndSpawn, CheckDuplicate
    <3>2. \A k \in Jobs \ {j} : step'[k] = step[k] /\ phase'[k] = phase[k]
        BY <1>0, <2>3 DEF SetupTap, AddDnat, ArmAndSpawn, CheckDuplicate
    <3> QED BY <1>0, <2>0, <3>1, <3>2
  <2>4. CASE StoreRecord(j) \/ HandlerDropped(j)
    <3>1. UNCHANGED <<call, phase>>
        BY <2>4 DEF StoreRecord, HandlerDropped
    <3>2. UNCHANGED step \/ HandlerAt(j, "record", "done")
        BY <2>4 DEF StoreRecord, HandlerDropped
    <3> QED BY <1>0, <2>0, <3>1, <3>2
  <2> QED BY <1>1, <2>1, <2>2, <2>3, <2>4 DEF Handler
<1>2. ASSUME NEW j \in Jobs, Task(j) \/ VmExits(j)
      PROVE  CallPlace' /\ TargetKnown'
  <2>0. UNCHANGED <<rows, entries, target, claim, step>>
      BY <1>2 DEF Task, Launch, MarkFailed, StopVm, TaskRemovesDnat, TaskCleansTap,
         TaskReleases, MarkExited, Disarm, VmExits
  <2>1. CASE MarkFailed(j) \/ StopVm(j)
    <3>1. /\ phase[j] \in {"mark_failed", "running"} /\ call' = [call EXCEPT ![j] = "find"]
          /\ phase' = [phase EXCEPT ![j] = "unregister"] /\ launched'[j] # "up"
          /\ \A k \in Jobs \ {j} : launched'[k] = launched[k]
        BY <1>0, <2>1 DEF MarkFailed, StopVm
    <3>2. call[j] = "none" /\ target[j] = NoSlot
        BY <3>1, NoCallThere
    <3> QED BY <1>0, <2>0, <3>1, <3>2
  <2>2. CASE \/ Launch(j) \/ TaskRemovesDnat(j) \/ TaskCleansTap(j) \/ TaskReleases(j)
             \/ MarkExited(j) \/ Disarm(j) \/ VmExits(j)
    <3>1. UNCHANGED call /\ phase[j] \notin {"none", "unregister", "gone"}
        BY <2>2 DEF Launch, TaskRemovesDnat, TaskCleansTap, TaskReleases, MarkExited, Disarm,
           VmExits
    <3>2. call[j] = "none"
        BY <3>1, NoCallThere
    <3>3. \A k \in Jobs \ {j} : phase'[k] = phase[k] /\ launched'[k] = launched[k]
        BY <1>0, <2>2 DEF Launch, TaskRemovesDnat, TaskCleansTap, TaskReleases, MarkExited,
           Disarm, VmExits
    <3> QED BY <1>0, <2>0, <3>1, <3>2, <3>3
  <2> QED BY <1>2, <2>1, <2>2 DEF Task
<1>3. ASSUME NEW j \in Jobs, Proxy(j)
      PROVE  CallPlace' /\ TargetKnown'
  <2>0. /\ \A k \in Jobs \ {j} : /\ call'[k] = call[k] /\ target'[k] = target[k]
                                 /\ claim'[k] = claim[k] /\ step'[k] = step[k]
                                 /\ phase'[k] = phase[k]
        /\ UNCHANGED launched
      BY <1>0, <1>3, ProxyCalls, ProxyMoves, PlaceBasics DEF CallGoesOn, TypeOK
  <2>1. CASE call'[j] = "none" /\ target'[j] = NoSlot
      BY <1>0, <2>0, <2>1
  <2>2. ASSUME UNCHANGED <<step, phase>>, claim'[j] # "forgotten",
               \/ call[j] = "insert" /\ call'[j] = "publish"
               \/ call[j] = "publish" /\ call'[j] = "readback",
               UNCHANGED target
        PROVE  CallPlace' /\ TargetKnown'
      BY <1>0, <2>0, <2>2
  <2>3. ASSUME UNCHANGED <<step, phase>>, target'[j] \in Slots,
               \/ call[j] = "find" /\ call'[j] = "delrow"
               \/ call[j] = "delrow" /\ call'[j] = "delentry"
        PROVE  CallPlace' /\ TargetKnown'
      BY <1>0, <2>0, <2>3
  <2> USE DEF CreateReturns, DeleteReturns
  <2>4. CASE InsertRow(j)
    <3>1. call[j] = "insert" /\ UNCHANGED <<phase, target, claim>>
        BY <2>4 DEF InsertRow
    <3>2. \/ call'[j] = "publish" /\ UNCHANGED step
          \/ call'[j] = "none"
        BY <1>0, <2>4 DEF InsertRow
    <3> QED BY <1>0, <2>1, <2>2, <3>1, <3>2
  <2>5. CASE PublishEntry(j)
    <3>1. call[j] = "publish" /\ call'[j] = "readback" /\ UNCHANGED <<step, phase, target>>
          /\ claim'[j] # "forgotten"
        BY <1>0, <2>5 DEF PublishEntry
    <3> QED BY <2>2, <3>1
  <2>6. CASE ReadBack(j)
    <3>1. call[j] = "readback" /\ call'[j] = "none" /\ UNCHANGED target
        BY <1>0, <2>6 DEF ReadBack
    <3> QED BY <1>0, <2>1, <3>1
  <2>7. CASE FindEntry(j)
    <3>1. CASE DeleteReturns(j)
        BY <1>0, <2>1, <3>1
    <3>2. ASSUME NEW s \in Slots, target' = [target EXCEPT ![j] = s],
                 call' = [call EXCEPT ![j] = "delrow"], UNCHANGED <<step, phase>>
          PROVE  CallPlace' /\ TargetKnown'
        BY <1>0, <2>3, <2>7, <3>2 DEF FindEntry
    <3> QED BY <2>7, <3>1, <3>2 DEF FindEntry
  <2>8. CASE DeleteRow(j)
    <3>1. call[j] = "delrow" /\ call'[j] = "delentry" /\ UNCHANGED <<step, phase, target>>
        BY <1>0, <2>8 DEF DeleteRow
    <3> QED BY <1>0, <2>3, <3>1
  <2>9. CASE DeleteEntry(j)
      BY <1>0, <2>1, <2>9 DEF DeleteEntry
  <2>10. CASE CallLost(j)
    <3>1. call'[j] = "none"
        BY <1>0, <2>10 DEF CallLost
    <3>2. target'[j] = NoSlot
        BY <1>0, <2>10 DEF CallLost
    <3> QED BY <2>1, <3>1, <3>2
  <2> QED BY <1>3, <2>4, <2>5, <2>6, <2>7, <2>8, <2>9, <2>10 DEF Proxy
<1>4. CASE ProxyRestarts
  <2>1. /\ UNCHANGED <<step, phase, launched>>
        /\ \A k \in Jobs : call'[k] \in {"none", "broken"} /\ target'[k] = NoSlot
        /\ \A k \in Jobs : call[k] = "none" => call'[k] = "none"
      BY <1>4 DEF ProxyRestarts
  <2> QED BY <1>0, <2>1
<1>5. CASE ManagerRestarts
  <2>1. /\ UNCHANGED <<call, target, claim>>
        /\ \A k \in Jobs : phase'[k] = IF phase[k] = "none" THEN "none" ELSE "gone"
        /\ \A k \in Jobs : step'[k] = IF step[k] = "check" THEN "check" ELSE "done"
        /\ \A k \in Jobs : phase[k] # "launch" => launched'[k] = launched[k]
      BY <1>5 DEF ManagerRestarts
  <2>2. \A k \in Jobs : phase[k] = "launch" => call[k] = "none"
      BY NoCallThere
  <2> QED BY <1>0, <2>1, <2>2
<1>6. CASE (\E d \in Deleters : SendShutdown(d)) \/ UNCHANGED vars
        \/ \E d \in Deleters : DeleterDropped(d) \/ \E id \in Ids : MarkShuttingDown(d, id)
  <2>1. UNCHANGED <<call, target, claim, step, phase, launched>>
      BY <1>6 DEF SendShutdown, DeleterDropped, MarkShuttingDown, vars
  <2> QED BY <1>0, <2>1
<1> HIDE DEF vars, CallPlace, TargetKnown
<1> QED BY ONLY <1>1, <1>2, <1>3, <1>4, <1>5, <1>6, [Next]_vars DEF Next, Clients, World

LEMMA PlaceInvariant == Spec => []PlaceInv
<1>1. Init => PlaceInv
  <2> SUFFICES ASSUME Init PROVE PlaceInv
      OBVIOUS
  <2>1. TypeInv
      BY TypeInit
  <2>2. TaskAfterHandler /\ UpIsRunning
      BY DEF Init, TaskAfterHandler, UpIsRunning
  <2>3. CallPlace /\ TargetKnown
      BY DEF Init, CallPlace, TargetKnown
  <2> QED BY <2>1, <2>2, <2>3 DEF PlaceInv
<1>2. PlaceInv /\ [Next]_vars => PlaceInv'
    BY TypeStep, TaskAfterHandlerStep, UpIsRunningStep, PlaceStep DEF PlaceInv
<1> QED BY <1>1, <1>2, PTL DEF Spec

-----------------------------------------------------------------------------
(* Sessions                                                                *)
(* Every step leaves the sessions of others alone, with one exception that *)
(* "raced" tells apart: the removal of an entry by its address.            *)

SessionsLast == "proxy_restart" \notin Faults
OwnIdsOnly   == \A j, k \in Jobs : IdOf[j] = IdOf[k] => j = k

\* An owner whose session the proxy has not lost.
Keeper(j) == SessionOwner(j) /\ claim[j] # "forgotten"

Lasting        == SessionsLast => \A j \in Jobs : claim[j] # "forgotten"
RowsApart      == \A r, q \in rows : r.id = q.id \/ r.slot = q.slot => r = q
KeepersHaveRows == \A j \in Jobs : Keeper(j) => Row(j) \in rows
KeepersApart   == \A j, k \in Jobs : Keeper(j) /\ Keeper(k) /\ IdOf[j] = IdOf[k] => j = k
EntriesKept ==
    \A j \in Jobs : Keeper(j) /\ call[j] # "publish" /\ claim[j] = "sole" =>
        entries[slot[j]] = IdOf[j] /\ \A k \in Jobs : target[k] = slot[j] => k = j

SessionInv == Lasting /\ RowsApart /\ KeepersHaveRows /\ KeepersApart /\ EntriesKept

\* The table tells keepers apart by address, too.
LEMMA KeepersElsewhere ==
    ASSUME SessionInv, NEW j \in Jobs, NEW k \in Jobs, Keeper(j), Keeper(k),
           slot[j] = slot[k]
    PROVE  j = k
<1>1. Row(j) \in rows /\ Row(k) \in rows
    BY DEF SessionInv, KeepersHaveRows
<1>2. Row(j) = Row(k)
    BY <1>1 DEF SessionInv, RowsApart, Row
<1>3. IdOf[j] = IdOf[k]
    BY <1>2 DEF Row
<1> QED BY <1>3 DEF SessionInv, KeepersApart

\* Whoever deletes the session of an id is its keeper, if it has one.
LEMMA DeletesOwnSession ==
    ASSUME SessionsLast \/ OwnIdsOnly, SessionInv, NEW j \in Jobs, NEW k \in Jobs,
           call[j] \in {"find", "delrow"}, Keeper(k), IdOf[j] = IdOf[k]
    PROVE  j = k
<1>1. CASE OwnIdsOnly
    BY <1>1 DEF OwnIdsOnly
<1>2. CASE SessionsLast
  <2>1. Keeper(j)
      BY <1>2 DEF SessionInv, Lasting, Keeper, SessionOwner
  <2> QED BY <2>1 DEF SessionInv, KeepersApart
<1> QED BY <1>1, <1>2

\* Sessions stay, and nobody comes to keep one.
LEMMA KeepersFewer ==
    ASSUME PlaceInv, SessionInv, UNCHANGED <<rows, entries, claim>>,
           \A k \in Jobs : target'[k] \in {target[k], NoSlot},
           \A k \in Jobs : SessionOwner(k)' => SessionOwner(k) /\ slot'[k] = slot[k],
           \A k \in Jobs : call'[k] # "publish" /\ SessionOwner(k)' => call[k] # "publish"
    PROVE  SessionInv'
<1>1. \A k \in Jobs : Keeper(k)' => /\ Keeper(k) /\ slot'[k] = slot[k] /\ slot[k] \in Slots
                                    /\ Row(k)' = Row(k)
    BY PlaceBasics DEF Keeper, Row, SessionOwner
<1>2. Lasting' /\ RowsApart' /\ KeepersHaveRows' /\ KeepersApart'
    BY <1>1 DEF SessionInv, Lasting, RowsApart, KeepersHaveRows, KeepersApart
<1>3. EntriesKept'
    BY <1>1, PlaceBasics DEF SessionInv, EntriesKept, Keeper
<1> QED BY <1>2, <1>3 DEF SessionInv

LEMMA SessionProxyStep ==
    ASSUME SessionsLast \/ OwnIdsOnly, PlaceInv, SessionInv,
           NEW j \in Jobs, Proxy(j), CallGoesOn(j)
    PROVE  SessionInv'
<1>0. /\ call \in [Jobs -> Works] /\ claim \in [Jobs -> {"sole", "raced", "forgotten"}]
      /\ target \in [Jobs -> Slots \union {NoSlot}]
      /\ slot \in [Jobs -> Slots \union {NoSlot}] /\ NoSlot \notin Slots
      /\ entries \in [Slots -> Ids \union {NoId}]
      /\ \A k \in Jobs : slot[k] \notin Slots => call[k] = "none"
      /\ \A k \in Jobs : SessionOwner(k) => slot[k] \in Slots
      /\ TargetKnown /\ CallPlace
    BY PlaceBasics DEF SessionOwner, PlaceInv
<1>1. /\ UNCHANGED slot /\ \A k \in Jobs : Row(k)' = Row(k)
      /\ SessionOwner(j)' => SessionOwner(j) \/ call'[j] = "publish"
      /\ \A k \in Jobs \ {j} :
           /\ call'[k] = call[k] /\ target'[k] = target[k] /\ claim'[k] = claim[k]
           /\ SessionOwner(k)' <=> SessionOwner(k)
    BY DEF CallGoesOn, Row
<1>2. \A k \in Jobs \ {j} : Keeper(k)' <=> Keeper(k)
    BY <1>1 DEF Keeper
<1>3. call[j] \in {"insert", "delentry", "broken"} => ~ SessionOwner(j)
    BY PlaceBasics DEF PlaceInv, CallPlace, SessionOwner
<1> USE DEF CreateReturns, DeleteReturns
<1>4. ASSUME UNCHANGED <<rows, entries, claim>>, call[j] # "publish", call'[j] # "publish",
             target'[j] \in {target[j], NoSlot}
      PROVE  SessionInv'
    BY <1>1, <1>4, KeepersFewer
<1>5. CASE InsertRow(j)
  <2>1. CASE /\ Registrable(j) /\ rows' = rows \union {Row(j)}
             /\ call' = [call EXCEPT ![j] = "publish"]
    <3>0. UNCHANGED <<entries, claim, target>> /\ call[j] = "insert" /\ call'[j] = "publish"
        BY <1>0, <1>5, <2>1 DEF InsertRow
    <3>1. claim[j] # "forgotten"
        BY <1>0, <3>0 DEF CallPlace
    <3>2. \A r \in rows : r.id # IdOf[j] /\ r.slot # slot[j]
        BY <2>1 DEF Registrable
    <3>3. Row(j).id = IdOf[j] /\ Row(j).slot = slot[j]
        BY DEF Row
    <3>4. Lasting' /\ RowsApart'
        BY <2>1, <3>0, <3>2, <3>3 DEF SessionInv, Lasting, RowsApart
    <3>5. KeepersHaveRows'
        BY <1>1, <1>2, <2>1 DEF SessionInv, KeepersHaveRows
    <3>6. \A k \in Jobs \ {j} : Keeper(k) => IdOf[k] # IdOf[j]
        BY <3>2 DEF SessionInv, KeepersHaveRows, Row
    <3>7. KeepersApart'
        BY <1>2, <3>6 DEF SessionInv, KeepersApart
    <3>8. EntriesKept'
        BY <1>1, <1>2, <3>0 DEF SessionInv, EntriesKept
    <3> QED BY <3>4, <3>5, <3>7, <3>8 DEF SessionInv
  <2>2. CASE UNCHANGED rows /\ call'[j] = "none"
    <3>1. UNCHANGED <<entries, claim, target>> /\ call[j] = "insert"
        BY <1>5 DEF InsertRow
    <3> QED BY <1>4, <2>2, <3>1
  <2> QED BY <1>0, <1>5, <2>1, <2>2 DEF InsertRow
<1>6. CASE PublishEntry(j)
  <2>1. /\ UNCHANGED <<rows, target>> /\ call[j] = "publish" /\ call'[j] = "readback"
        /\ slot[j] \in Slots /\ entries'[slot[j]] = IdOf[j]
        /\ \A s \in Slots \ {slot[j]} : entries'[s] = entries[s]
      BY <1>0, <1>6 DEF PublishEntry
  <2>2. /\ claim'[j] \in {claim[j], "raced"}
        /\ claim'[j] = "sole" => \A k \in Jobs : target[k] # slot[j]
      BY <1>0, <1>6 DEF PublishEntry
  <2>3. Keeper(j) /\ Keeper(j)'
      BY <1>0, <2>1, <2>2 DEF CallPlace, Keeper, SessionOwner
  <2>4. \A k \in Jobs \ {j} : Keeper(k) => slot[k] # slot[j]
      BY <2>3, KeepersElsewhere
  <2>5. Lasting' /\ RowsApart' /\ KeepersHaveRows' /\ KeepersApart'
    <3>1. \A k \in Jobs : claim'[k] = "forgotten" => claim[k] = "forgotten"
        BY <1>1, <2>2
    <3> QED BY <1>1, <1>2, <2>1, <2>3, <3>1
            DEF SessionInv, Lasting, RowsApart, KeepersHaveRows, KeepersApart
  <2>6. EntriesKept'
    <3>1. ASSUME NEW k \in Jobs \ {j}, Keeper(k)', call'[k] # "publish", claim'[k] = "sole"
          PROVE  /\ entries'[slot'[k]] = IdOf[k]
                 /\ \A l \in Jobs : target'[l] = slot'[k] => l = k
      <4>1. /\ entries[slot[k]] = IdOf[k] /\ slot[k] \in Slots /\ slot[k] # slot[j]
            /\ \A l \in Jobs : target[l] = slot[k] => l = k
          BY <1>0, <1>1, <1>2, <2>4, <3>1 DEF SessionInv, EntriesKept, Keeper
      <4> QED BY <1>1, <2>1, <4>1
    <3> QED BY <1>1, <2>1, <2>2, <3>1 DEF EntriesKept
  <2> QED BY <2>5, <2>6 DEF SessionInv
<1>7. CASE ReadBack(j)
  <2>1. UNCHANGED <<rows, entries, claim, target>> /\ call[j] = "readback" /\ call'[j] = "none"
      BY <1>0, <1>7 DEF ReadBack
  <2> QED BY <1>4, <2>1
<1>8. CASE FindEntry(j)
  <2>1. UNCHANGED <<rows, entries, claim>> /\ call[j] = "find"
      BY <1>8 DEF FindEntry
  <2>2. CASE DeleteReturns(j)
      BY <1>0, <1>4, <2>1, <2>2
  <2>3. ASSUME NEW s \in Slots, entries[s] = IdOf[j], target' = [target EXCEPT ![j] = s],
               call' = [call EXCEPT ![j] = "delrow"]
        PROVE  SessionInv'
    <3>1. target'[j] = s /\ call'[j] = "delrow"
        BY <1>0, <2>3
    <3>2. \A k \in Jobs : Keeper(k)' =>
            Keeper(k) /\ (call'[k] # "publish" => call[k] # "publish")
        BY <1>1, <1>2, <2>1, <3>1 DEF Keeper
    <3>3. Lasting' /\ RowsApart' /\ KeepersHaveRows' /\ KeepersApart'
        BY <1>1, <2>1, <3>2
           DEF SessionInv, Lasting, RowsApart, KeepersHaveRows, KeepersApart
    <3>4. ASSUME NEW k \in Jobs, Keeper(k)', call'[k] # "publish", claim'[k] = "sole"
          PROVE  /\ entries'[slot'[k]] = IdOf[k]
                 /\ \A l \in Jobs : target'[l] = slot'[k] => l = k
      <4>1. /\ Keeper(k) /\ entries[slot[k]] = IdOf[k]
            /\ \A l \in Jobs : target[l] = slot[k] => l = k
          BY <2>1, <3>2, <3>4 DEF SessionInv, EntriesKept
      <4>2. s = slot[k] => j = k
          BY <2>1, <2>3, <4>1, DeletesOwnSession
      <4> QED BY <1>1, <2>1, <3>1, <4>1, <4>2
    <3>5. EntriesKept'
        BY <3>4 DEF EntriesKept
    <3> QED BY <3>3, <3>5 DEF SessionInv
  <2> QED BY <1>8, <2>2, <2>3 DEF FindEntry
<1>9. CASE DeleteRow(j)
  <2>1. /\ UNCHANGED <<entries, claim, target, step, phase, launched>> /\ call[j] = "delrow"
        /\ call'[j] = "delentry" /\ rows' = {r \in rows : r.id # IdOf[j]}
      BY <1>0, <1>9 DEF DeleteRow
  <2>2. ~ Keeper(j)'
      BY <2>1, NoCallThere DEF Keeper, SessionOwner
  <2>3. \A k \in Jobs \ {j} : Keeper(k) => IdOf[k] # IdOf[j]
      BY <2>1, DeletesOwnSession
  <2>4. Lasting' /\ RowsApart' /\ KeepersApart'
      BY <1>2, <2>1, <2>2 DEF SessionInv, Lasting, RowsApart, KeepersApart
  <2>5. KeepersHaveRows'
    <3>1. ASSUME NEW k \in Jobs, Keeper(k)' PROVE Row(k)' \in rows'
      <4>1. Keeper(k) /\ k # j /\ IdOf[k] # IdOf[j] /\ Row(k) \in rows
          BY <1>2, <2>2, <2>3, <3>1 DEF SessionInv, KeepersHaveRows
      <4>2. Row(k).id = IdOf[k]
          BY DEF Row
      <4> QED BY <1>1, <2>1, <4>1, <4>2
    <3> QED BY <3>1 DEF KeepersHaveRows
  <2>6. EntriesKept'
      BY <1>1, <1>2, <2>1, <2>2 DEF SessionInv, EntriesKept
  <2> QED BY <2>4, <2>5, <2>6 DEF SessionInv
<1>10. CASE DeleteEntry(j)
  <2>1. /\ UNCHANGED <<rows, claim>> /\ call[j] = "delentry" /\ call'[j] = "none"
        /\ target'[j] = NoSlot /\ target[j] \in Slots
        /\ \A s \in Slots \ {target[j]} : entries'[s] = entries[s]
      BY <1>0, <1>10 DEF DeleteEntry, TargetKnown
  <2>2. ~ Keeper(j)'
      BY <1>1, <1>3, <2>1 DEF Keeper
  <2>3. Lasting' /\ RowsApart' /\ KeepersHaveRows' /\ KeepersApart'
      BY <1>1, <1>2, <2>1, <2>2
         DEF SessionInv, Lasting, RowsApart, KeepersHaveRows, KeepersApart
  <2>4. ASSUME NEW k \in Jobs, Keeper(k)', call'[k] # "publish", claim'[k] = "sole"
        PROVE  /\ entries'[slot'[k]] = IdOf[k]
               /\ \A l \in Jobs : target'[l] = slot'[k] => l = k
    <3>1. /\ k # j /\ Keeper(k) /\ entries[slot[k]] = IdOf[k] /\ slot[k] \in Slots
          /\ \A l \in Jobs : target[l] = slot[k] => l = k
        BY <1>0, <1>1, <1>2, <2>2, <2>4 DEF SessionInv, EntriesKept, Keeper
    <3>2. target[j] # slot[k]
        BY <3>1
    <3> QED BY <1>0, <1>1, <2>1, <3>1, <3>2
  <2>5. EntriesKept'
      BY <2>4 DEF EntriesKept
  <2> QED BY <2>3, <2>5 DEF SessionInv
<1>11. CASE CallLost(j)
  <2>1. UNCHANGED <<rows, entries, claim>> /\ call[j] # "publish" /\ call'[j] = "none"
      BY <1>0, <1>11 DEF CallLost
  <2>2. target'[j] \in {target[j], NoSlot}
      BY <1>0, <1>11 DEF CallLost
  <2> QED BY <1>4, <2>1, <2>2
<1> QED BY <1>5, <1>6, <1>7, <1>8, <1>9, <1>10, <1>11 DEF Proxy

LEMMA SessionStep ==
    ASSUME SessionsLast \/ OwnIdsOnly, PlaceInv, SessionInv, [Next]_vars
    PROVE  SessionInv'
<1>0. call \in [Jobs -> Works]
    BY PlaceBasics
<1>1. CASE Quiet
    BY <1>1, KeepersFewer DEF Quiet
<1>2. ASSUME NEW j \in Jobs, CallBegins(j) PROVE SessionInv'
  <2>1. \A k \in Jobs : call'[k] # "publish" => call[k] # "publish"
      BY <1>0, <1>2 DEF CallBegins
  <2> QED BY <1>2, <2>1, KeepersFewer DEF CallBegins
<1>3. CASE ProxyRestarts
  <2>1. /\ rows' = {} /\ UNCHANGED <<slot, step, phase, launched, answer>> /\ ~ SessionsLast
        /\ \A k \in Jobs : call'[k] \in {"none", "broken"}
        /\ \A k \in Jobs : claim'[k] = IF Row(k) \in rows THEN "forgotten" ELSE claim[k]
      BY <1>3 DEF ProxyRestarts, May, SessionsLast
  <2>2. \A k \in Jobs : SessionOwner(k)' => SessionOwner(k)
      BY <2>1 DEF SessionOwner
  <2>3. \A k \in Jobs : ~ Keeper(k)'
      BY <2>1, <2>2 DEF SessionInv, KeepersHaveRows, Keeper
  <2> QED BY <2>1, <2>3 DEF SessionInv, Lasting, RowsApart, KeepersHaveRows, KeepersApart,
             EntriesKept
<1> QED BY <1>1, <1>2, <1>3, StepKinds, SessionProxyStep

SessionsInv == PlaceInv /\ SessionInv

LEMMA SessionsInvariant ==
    ASSUME SessionsLast \/ OwnIdsOnly
    PROVE  Spec => []SessionsInv
<1>1. Init => SessionInv
    BY DEF Init, SessionInv, Lasting, RowsApart, KeepersHaveRows, KeepersApart, EntriesKept,
       Keeper, SessionOwner
<1>2. PlaceInv /\ SessionInv /\ [Next]_vars => SessionInv'
    BY SessionStep
<1> QED BY <1>1, <1>2, PlaceInvariant, PTL DEF Spec, SessionsInv

\* A VM keeps its session in the proxy's table and map until the proxy restarts, but
\* for the race at the address of a delete, whatever other jobs do and fail at: as
\* long as no two of them ask for one id, or the proxy does not restart.
THEOREM VmsKeepTheirSessions ==
    ASSUME SessionsLast \/ OwnIdsOnly
    PROVE  Spec => []VmKeepsSession
<1>1. SessionsInv => VmKeepsSession
  <2> SUFFICES ASSUME SessionsInv, NEW j \in Jobs, HasVm(j)
               PROVE  /\ claim[j] # "forgotten" => Row(j) \in rows
                      /\ claim[j] = "sole" => entries[slot[j]] = IdOf[j]
      BY DEF VmKeepsSession
  <2>1. SessionOwner(j) /\ call[j] = "none"
      BY NoCallThere DEF HasVm, SessionOwner, SessionsInv
  <2> QED BY <2>1 DEF SessionsInv, SessionInv, KeepersHaveRows, EntriesKept, Keeper
<1> QED BY <1>1, SessionsInvariant, PTL

-----------------------------------------------------------------------------
(* What ConnectHandler takes for granted *)

ManagerStays == "manager_end" \notin Faults

\* A manager that has not ended has a task for each VM, and a handler that waits
\* for each call to create a session, or has been dropped at it.
NoOrphans   == \A j \in Jobs : launched[j] = "up" => phase[j] = "running"
CreatesHeld ==
    \A j \in Jobs : call[j] \in {"insert", "publish", "readback"} => step[j] = "register"

\* What is being registered no VM has, and where a VM is no other session.
Vacant ==
    \A j, k \in Jobs :
        /\ HasVm(k)
        /\ call[j] \in {"publish", "readback"} \/ (call[j] = "insert" /\ Registrable(j))
        => slot[k] # slot[j]
VmRows == \A k \in Jobs, r \in rows : HasVm(k) /\ r.slot = slot[k] => r.id = IdOf[k]

LEMMA VmHolder ==
    ASSUME PlaceInv, NEW k \in Jobs, HasVm(k)
    PROVE  call[k] = "none" /\ SessionOwner(k) /\ slot[k] \in Slots
<1>1. call[k] = "none"
    BY NoCallThere DEF HasVm
<1> QED BY <1>1, PlaceBasics DEF HasVm, SessionOwner

\* The proxy's table and map tell: it has refused what a keeper has.
LEMMA VacantIfSessionsLast ==
    ASSUME SessionsLast, SessionsInv
    PROVE  Vacant
<1> SUFFICES ASSUME NEW j \in Jobs, NEW k \in Jobs, HasVm(k), slot[k] = slot[j],
                    \/ call[j] \in {"publish", "readback"}
                    \/ call[j] = "insert" /\ Registrable(j)
             PROVE  FALSE
    BY DEF Vacant
<1>1. call[k] = "none" /\ Keeper(k)
    BY VmHolder DEF SessionsInv, SessionInv, Lasting, Keeper
<1>2. CASE call[j] \in {"publish", "readback"}
  <2>1. Keeper(j)
      BY <1>2 DEF SessionsInv, SessionInv, Lasting, Keeper, SessionOwner
  <2> QED BY <1>1, <1>2, <2>1, KeepersElsewhere DEF SessionsInv
<1>3. CASE Registrable(j)
  <2>1. Row(k) \in rows
      BY <1>1 DEF SessionsInv, SessionInv, KeepersHaveRows
  <2> QED BY <1>3, <2>1 DEF Registrable, Row
<1> QED BY <1>2, <1>3

\* The pool tells: an address is not given back while there is a VM or a call.
LEMMA VacantIfManagerStays ==
    ASSUME PlaceInv, AddrInv, NoOrphans, CreatesHeld
    PROVE  Vacant
<1> SUFFICES ASSUME NEW j \in Jobs, NEW k \in Jobs, HasVm(k), slot[k] = slot[j],
                    call[j] \in {"insert", "publish", "readback"}
             PROVE  FALSE
    BY DEF Vacant
<1>1. Holds(k)
    BY DEF HasVm, Holds, NoOrphans
<1>2. Holds(j)
    BY DEF CreatesHeld, Holds
<1>3. j = k
    BY <1>1, <1>2 DEF AddrInv, AddressesExclusive
<1> QED BY <1>3, VmHolder

LEMMA VmRowsStep ==
    ASSUME PlaceInv, SessionInv, Vacant, VmRows, [Next]_vars
    PROVE  VmRows'
<1>1. ASSUME rows' \subseteq rows, \A k \in Jobs : HasVm(k)' => HasVm(k) /\ slot'[k] = slot[k]
      PROVE  VmRows'
    BY <1>1 DEF VmRows
<1>2. ASSUME NEW j \in Jobs, Proxy(j), CallGoesOn(j) PROVE VmRows'
  <2>1. CASE InsertRow(j)
    <3>1. \A k \in Jobs : HasVm(k)' => HasVm(k) /\ slot'[k] = slot[k]
        BY <1>2, <2>1 DEF CallGoesOn, InsertRow
    <3>2. CASE UNCHANGED rows
        BY <1>1, <3>1, <3>2
    <3>3. CASE Registrable(j) /\ rows' = rows \union {Row(j)}
      <4>1. \A k \in Jobs : HasVm(k)' => slot'[k] # Row(j).slot
          BY <2>1, <3>1, <3>3 DEF Vacant, InsertRow, Row
      <4> QED BY <3>1, <3>3, <4>1 DEF VmRows
    <3> QED BY <2>1, <3>2, <3>3 DEF InsertRow
  <2>2. CASE ReadBack(j)
    <3>1. UNCHANGED <<rows, slot>> /\ call[j] = "readback"
        BY <1>2, <2>2 DEF ReadBack
    <3>2. Row(j) \in rows
        BY <3>1 DEF PlaceInv, CallPlace, SessionInv, KeepersHaveRows, Keeper, SessionOwner
    <3>3. \A r \in rows : r.slot = slot[j] => r.id = IdOf[j]
        BY <3>2 DEF SessionInv, RowsApart, Row
    <3>4. \A k \in Jobs \ {j} : HasVm(k)' => HasVm(k)
        BY <1>2 DEF CallGoesOn
    <3> QED BY <3>1, <3>3, <3>4 DEF VmRows
  <2>3. CASE PublishEntry(j) \/ FindEntry(j) \/ DeleteRow(j) \/ DeleteEntry(j) \/ CallLost(j)
    <3>1. call[j] # "readback"
        BY <2>3 DEF PublishEntry, FindEntry, DeleteRow, DeleteEntry, CallLost
    <3>2. rows' \subseteq rows
        BY <2>3 DEF PublishEntry, FindEntry, DeleteRow, DeleteEntry, CallLost
    <3> QED BY <1>1, <1>2, <3>1, <3>2 DEF CallGoesOn
  <2> QED BY <1>2, <2>1, <2>2, <2>3 DEF Proxy
<1>3. CASE ProxyRestarts
    BY <1>3 DEF ProxyRestarts, VmRows
<1>4. CASE Quiet
    BY <1>1, <1>4 DEF Quiet
<1>5. ASSUME NEW j \in Jobs, CallBegins(j) PROVE VmRows'
    BY <1>1, <1>5 DEF CallBegins
<1> QED BY <1>2, <1>3, <1>4, <1>5, StepKinds

\* The record of a call that SessionUse sees.
LEMMA InHandIs ==
    ASSUME NEW j \in Jobs, TargetKnown
    PROVE  /\ call[j] \in {"insert", "publish", "readback"} =>
                InHand(j) = Use!CallAt(call[j], IdOf[j], slot[j])
           /\ call[j] \in {"find", "delrow", "delentry"} =>
                InHand(j) = Use!CallAt(call[j], IdOf[j], target[j])
           /\ call[j] \in {"none", "broken"} => InHand(j) = Use!NoCall
           /\ call[j] = "find" => target[j] = NoSlot
BY DEF InHand, Use!CallAt, Use!NoCall, TargetKnown

LEMMA VmsFewer ==
    ASSUME \A k \in Jobs : HasVm(k)' => HasVm(k) /\ slot'[k] = slot[k]
    PROVE  Vms' \in SUBSET Vms
<1>1. \A k \in Jobs : HasVm(k)' => Row(k)' = Row(k)
    BY DEF Row
<1> QED BY <1>1 DEF Vms

LEMMA CallMoves ==
    ASSUME NEW j \in Jobs, \A k \in Jobs \ {j} : InHand(k)' = InHand(k)
    PROVE  [k \in Jobs |-> InHand(k)]' = [[k \in Jobs |-> InHand(k)] EXCEPT ![j] = InHand(j)']
OBVIOUS

\* A call that ends without a session and without a VM.
LEMMA CallEnds ==
    ASSUME NEW j \in Jobs, TargetKnown, TargetKnown', UNCHANGED <<rows, entries>>,
           call[j] \in {"insert", "readback", "find", "delrow"}, call'[j] = "none",
           \A k \in Jobs \ {j} : InHand(k)' = InHand(k), Vms' \in SUBSET Vms
    PROVE  Use!Next
<1>1. InHand(j).stage \in {"insert", "readback", "find", "delrow"}
    BY InHandIs DEF Use!CallAt
<1>2. InHand(j)' = Use!NoCall
    BY InHandIs DEF InHand, Use!CallAt, Use!NoCall
<1>3. Use!End(j)
    BY <1>1, <1>2, CallMoves DEF Use!End, Use!Advance, Use!SomeStop
<1> QED BY <1>3 DEF Use!Next

LEMMA ContractProxyStep ==
    ASSUME SessionsLast \/ OwnIdsOnly, SessionsInv, Vacant, VmRows, TargetKnown',
           NEW j \in Jobs, Proxy(j), CallGoesOn(j)
    PROVE  [Use!Next]_Use!vars
<1>0. /\ call \in [Jobs -> Works] /\ target \in [Jobs -> Slots \union {NoSlot}]
      /\ TargetKnown /\ IdOf[j] \in Ids /\ (call[j] # "none" => slot[j] \in Slots)
      /\ PlaceInv /\ SessionInv
    BY PlaceBasics DEF SessionsInv, PlaceInv
<1>1. /\ UNCHANGED slot /\ ~ HasVm(j)
      /\ HasVm(j)' => call[j] = "readback" /\ call'[j] = "none"
      /\ \A k \in Jobs \ {j} : InHand(k)' = InHand(k)
      /\ \A k \in Jobs \ {j} : HasVm(k)' <=> HasVm(k)
      /\ \A k \in Jobs : Row(k)' = Row(k)
    BY DEF CallGoesOn, InHand, Row
<1>2. call[j] # "readback" => UNCHANGED Vms
    BY <1>1 DEF Vms
<1>3. [k \in Jobs |-> InHand(k)]' = [[k \in Jobs |-> InHand(k)] EXCEPT ![j] = InHand(j)']
    BY <1>1, CallMoves
<1>4. call[j] \in {"publish", "readback"} \/ (call[j] = "insert" /\ Registrable(j))
        => ~ Use!Held(slot[j])
    BY <1>1 DEF Vacant, Use!Held, Vms, Row
<1> USE DEF CreateReturns, DeleteReturns
<1>5. ASSUME UNCHANGED <<rows, entries>>, call[j] \in {"insert", "find", "delrow"},
             call'[j] = "none"
      PROVE  Use!Next
    BY <1>0, <1>1, <1>2, <1>5, CallEnds
<1>6. CASE InsertRow(j)
  <2>1. CASE /\ Registrable(j) /\ rows' = rows \union {Row(j)}
             /\ call' = [call EXCEPT ![j] = "publish"]
    <3>1. call[j] = "insert" /\ call'[j] = "publish" /\ UNCHANGED entries
        BY <1>0, <1>6, <2>1 DEF InsertRow
    <3>2. /\ InHand(j) = Use!CallAt("insert", IdOf[j], slot[j])
          /\ InHand(j)' = Use!CallAt("publish", IdOf[j], slot[j])
        BY <1>0, <1>1, <3>1, InHandIs DEF InHand, Use!CallAt
    <3>3. Use!Advance(j, "insert", Use!CallAt("publish", IdOf[j], slot[j]))
        BY <1>3, <3>2 DEF Use!Advance, Use!CallAt
    <3>4. Use!Free(IdOf[j], slot[j]) /\ rows' = rows \union {Use!Session(IdOf[j], slot[j])}
        BY <2>1 DEF Use!Free, Registrable, Use!Session, Row
    <3>5. Use!Insert(j, IdOf[j], slot[j])
        BY <1>2, <1>4, <2>1, <3>1, <3>2, <3>3, <3>4 DEF Use!Insert
    <3> QED BY <1>0, <3>1, <3>5 DEF Use!Next
  <2>2. CASE UNCHANGED rows /\ call' = [call EXCEPT ![j] = "none"]
      BY <1>0, <1>5, <1>6, <2>2 DEF InsertRow
  <2> QED BY <1>6, <2>1, <2>2 DEF InsertRow
<1>7. CASE PublishEntry(j)
  <2>1. /\ call[j] = "publish" /\ call'[j] = "readback" /\ UNCHANGED rows
        /\ entries' = [entries EXCEPT ![slot[j]] = IdOf[j]]
      BY <1>0, <1>7 DEF PublishEntry
  <2>2. /\ InHand(j) = Use!CallAt("publish", IdOf[j], slot[j])
        /\ InHand(j)' = Use!CallAt("readback", IdOf[j], slot[j])
      BY <1>0, <1>1, <2>1, InHandIs DEF InHand, Use!CallAt
  <2>3. Use!Advance(j, "publish", Use!CallAt("readback", IdOf[j], slot[j]))
      BY <1>3, <2>2 DEF Use!Advance, Use!CallAt
  <2>4. Use!Publish(j, IdOf[j], slot[j])
      BY <1>2, <1>4, <2>1, <2>2, <2>3 DEF Use!Publish
  <2> QED BY <1>0, <2>1, <2>4 DEF Use!Next
<1>8. CASE ReadBack(j)
  <2>1. /\ call[j] = "readback" /\ call'[j] = "none"
        /\ UNCHANGED <<rows, entries, phase, launched>>
      BY <1>0, <1>8 DEF ReadBack
  <2>2. CASE \E s \in Slots : entries[s] = IdOf[j]
    <3>1. /\ InHand(j) = Use!CallAt("readback", IdOf[j], slot[j])
          /\ InHand(j)' = Use!NoCall
        BY <1>0, <1>1, <2>1, InHandIs DEF InHand, Use!CallAt, Use!NoCall
    <3>2. Use!Advance(j, "readback", Use!NoCall)
        BY <1>3, <3>1 DEF Use!Advance, Use!CallAt
    <3>3. Vms' \in {Vms, Vms \union {Use!Session(IdOf[j], slot[j])}}
      <4>1. CASE HasVm(j)'
          BY <1>1, <4>1 DEF Vms, Row, Use!Session
      <4>2. CASE ~ HasVm(j)'
          BY <1>1, <4>2 DEF Vms
      <4> QED BY <4>1, <4>2
    <3>4. Use!Confirm(j, IdOf[j], slot[j])
        BY <1>4, <2>1, <2>2, <3>1, <3>2, <3>3 DEF Use!Confirm
    <3> QED BY <1>0, <2>1, <3>4 DEF Use!Next
  <2>3. CASE CreateReturns(j, "refused", "refused")
    <3>1. step'[j] = step[j] \/ step'[j] = "refused"
        BY <1>0, <2>3, PlaceBasics
    <3>2. ~ HasVm(j)'
      <4>1. step[j] \notin {"setup_tap", "add_dnat", "arm"}
          BY <1>0, <2>1, NoCallThere
      <4> QED BY <1>1, <2>1, <3>1, <4>1 DEF HasVm
    <3>3. UNCHANGED Vms
        BY <1>1, <3>2 DEF Vms
    <3> QED BY <1>0, <1>1, <2>1, <3>3, CallEnds
  <2> QED BY <1>8, <2>2, <2>3 DEF ReadBack
<1>9. CASE FindEntry(j)
  <2>1. UNCHANGED <<rows, entries>> /\ call[j] = "find"
      BY <1>9 DEF FindEntry
  <2>2. CASE DeleteReturns(j)
      BY <1>0, <1>5, <2>1, <2>2
  <2>3. ASSUME NEW s \in Slots, entries[s] = IdOf[j], target' = [target EXCEPT ![j] = s],
               call' = [call EXCEPT ![j] = "delrow"]
        PROVE  Use!Next
    <3>1. target'[j] = s /\ call'[j] = "delrow"
        BY <1>0, <2>3
    <3>2. /\ InHand(j) = Use!CallAt("find", IdOf[j], NoSlot)
          /\ InHand(j)' = Use!CallAt("delrow", IdOf[j], s)
        BY <1>0, <2>1, <3>1, InHandIs DEF InHand, Use!CallAt
    <3>3. Use!Advance(j, "find", Use!CallAt("delrow", IdOf[j], s))
        BY <1>3, <3>2 DEF Use!Advance, Use!CallAt
    <3>4. Use!Find(j, IdOf[j], s)
        BY <1>2, <2>1, <2>3, <3>2, <3>3 DEF Use!Find
    <3> QED BY <1>0, <3>4 DEF Use!Next
  <2> QED BY <1>9, <2>2, <2>3 DEF FindEntry
<1>10. CASE DeleteRow(j)
  <2>1. /\ UNCHANGED <<entries, target>> /\ call[j] = "delrow" /\ call'[j] = "delentry"
        /\ rows' = {r \in rows : r.id # IdOf[j]} /\ target[j] \in Slots
      BY <1>0, <1>10 DEF DeleteRow, TargetKnown
  <2>2. /\ InHand(j) = Use!CallAt("delrow", IdOf[j], target[j])
        /\ InHand(j)' = Use!CallAt("delentry", IdOf[j], target[j])
      BY <1>0, <2>1, InHandIs DEF InHand, Use!CallAt
  <2>3. Use!Advance(j, "delrow", Use!CallAt("delentry", IdOf[j], target[j]))
      BY <1>3, <2>2 DEF Use!Advance, Use!CallAt
  <2>4. ~ Use!Creating(IdOf[j])
    <3> SUFFICES ASSUME NEW k \in Jobs, InHand(k).stage \in {"publish", "readback"},
                        InHand(k).id = IdOf[j]
                 PROVE  FALSE
        BY DEF Use!Creating
    <3>1. call[k] \in {"publish", "readback"} /\ IdOf[k] = IdOf[j]
      <4>1. call[k] \in Works
          BY <1>0
      <4>2. call[k] \in {"publish", "readback"}
          BY <1>0, <4>1, InHandIs DEF Works, Use!CallAt, Use!NoCall
      <4> QED BY <1>0, <4>2, InHandIs DEF Use!CallAt
    <3>2. Keeper(k)
        BY <1>0, <3>1 DEF Keeper, SessionOwner, PlaceInv, CallPlace
    <3> QED BY <1>0, <2>1, <3>1, <3>2, DeletesOwnSession
  <2>5. ASSUME NEW r \in rows, r.id = IdOf[j] PROVE ~ Use!Held(r.slot)
    <3> SUFFICES ASSUME NEW k \in Jobs, HasVm(k), Row(k).slot = r.slot PROVE FALSE
        BY DEF Use!Held, Vms
    <3>1. IdOf[k] = IdOf[j] /\ call[k] = "none" /\ SessionOwner(k)
        BY <1>0, <2>5, VmHolder DEF VmRows, Row
    <3>2. CASE OwnIdsOnly
        BY <2>1, <3>1, <3>2 DEF OwnIdsOnly
    <3>3. CASE SessionsLast
      <4>1. Keeper(k)
          BY <1>0, <3>1, <3>3 DEF SessionInv, Lasting, Keeper
      <4> QED BY <1>0, <2>1, <3>1, <4>1, DeletesOwnSession
    <3> QED BY <3>2, <3>3
  <2>6. Use!DeleteRow(j, IdOf[j], target[j])
      BY <1>2, <2>1, <2>2, <2>3, <2>4, <2>5 DEF Use!DeleteRow
  <2> QED BY <1>0, <2>1, <2>6 DEF Use!Next
<1>11. CASE DeleteEntry(j)
  <2>1. /\ UNCHANGED rows /\ call[j] = "delentry" /\ call'[j] = "none"
        /\ entries' = [entries EXCEPT ![target[j]] = NoId] /\ target[j] \in Slots
      BY <1>0, <1>11 DEF DeleteEntry, TargetKnown
  <2>2. /\ InHand(j) = Use!CallAt("delentry", IdOf[j], target[j])
        /\ InHand(j)' = Use!NoCall
      BY <1>0, <2>1, InHandIs DEF InHand, Use!CallAt, Use!NoCall
  <2>3. Use!Advance(j, "delentry", Use!NoCall)
      BY <1>3, <2>2 DEF Use!Advance, Use!CallAt
  <2>4. Use!DeleteEntry(j, IdOf[j], target[j])
      BY <1>2, <2>1, <2>2, <2>3 DEF Use!DeleteEntry
  <2> QED BY <1>0, <2>1, <2>4 DEF Use!Next
<1>12. CASE CallLost(j)
  <2>1. UNCHANGED <<rows, entries>> /\ call'[j] = "none"
        /\ call[j] \in {"broken", "insert", "find", "delrow"}
      BY <1>0, <1>12 DEF CallLost
  <2>2. CASE call[j] = "broken"
    <3>1. InHand(j) = Use!NoCall /\ InHand(j)' = Use!NoCall
        BY <1>0, <2>1, <2>2, InHandIs DEF InHand, Use!CallAt, Use!NoCall
    <3>2. UNCHANGED [k \in Jobs |-> InHand(k)]
        BY <1>1, <3>1
    <3> QED BY <1>2, <2>1, <2>2, <3>2 DEF Use!vars
  <2> QED BY <1>5, <2>1, <2>2
<1> QED BY <1>6, <1>7, <1>8, <1>9, <1>10, <1>11, <1>12 DEF Proxy

LEMMA ContractStep ==
    ASSUME SessionsLast \/ OwnIdsOnly, SessionsInv, Vacant, VmRows, [Next]_vars
    PROVE  [Use!Next]_Use!vars
<1>0. /\ call \in [Jobs -> Works] /\ TargetKnown /\ PlaceInv
      /\ \A j \in Jobs : IdOf[j] \in Ids
    BY PlaceBasics DEF SessionsInv, PlaceInv
<1>1. TargetKnown'
    BY <1>0, PlaceStep
<1>2. CASE Quiet
  <2>1. Vms' \in SUBSET Vms
      BY <1>2, VmsFewer DEF Quiet
  <2>2. UNCHANGED [k \in Jobs |-> InHand(k)] /\ UNCHANGED <<rows, entries>>
      BY <1>2 DEF Quiet, InHand
  <2>3. Use!Stop
      BY <2>1, <2>2 DEF Use!Stop, Use!SomeStop
  <2> QED BY <2>3 DEF Use!Next
<1>3. ASSUME NEW j \in Jobs, CallBegins(j) PROVE Use!Next
  <2>1. Vms' \in SUBSET Vms /\ UNCHANGED <<rows, entries>>
      BY <1>3, VmsFewer DEF CallBegins
  <2>2. \A k \in Jobs \ {j} : InHand(k)' = InHand(k)
      BY <1>0, <1>3 DEF CallBegins, InHand
  <2>3. InHand(j) = Use!NoCall
      BY <1>0, <1>3, InHandIs DEF CallBegins
  <2>4. \/ \E s \in Slots : InHand(j)' = Use!CallAt("insert", IdOf[j], s)
        \/ InHand(j)' = Use!CallAt("find", IdOf[j], NoSlot)
    <3>1. call'[j] \in {"insert", "find"} /\ slot'[j] \in Slots
        BY <1>0, <1>3 DEF CallBegins
    <3> QED BY <1>1, <3>1, InHandIs DEF InHand, Use!CallAt, TargetKnown
  <2>5. Use!Begin(j, IdOf[j])
      BY <2>1, <2>2, <2>3, <2>4, CallMoves
         DEF Use!Begin, Use!Advance, Use!SomeStop, Use!NoCall, Use!CallAt
  <2> QED BY <1>0, <2>5 DEF Use!Next
<1>4. CASE ProxyRestarts
  <2>1. /\ rows' = {} /\ entries' = [s \in Slots |-> NoId]
        /\ UNCHANGED <<slot, step, phase, launched, answer>>
        /\ \A k \in Jobs : call'[k] \in {"none", "broken"}
      BY <1>4 DEF ProxyRestarts
  <2>2. UNCHANGED Vms
      BY <2>1 DEF Vms, HasVm, Row
  <2>3. \A k \in Jobs : InHand(k)' = Use!NoCall
      BY <2>1 DEF InHand, Use!CallAt, Use!NoCall
  <2>4. Use!Lose
      BY <2>1, <2>2, <2>3 DEF Use!Lose
  <2> QED BY <2>4 DEF Use!Next
<1> QED BY <1>0, <1>1, <1>2, <1>3, <1>4, StepKinds, ContractProxyStep

\* As UpIsRunning, without restarts of the manager.
LEMMA NoOrphansStep ==
    ASSUME ManagerStays, PlaceInv, NoOrphans, [Next]_vars
    PROVE  NoOrphans'
<1>0. /\ phase \in [Jobs -> Phases] /\ step \in [Jobs -> Steps] /\ launched \in [Jobs -> Lives]
      /\ \A j \in Jobs : phase[j] # "none" => step[j] \in {"record", "done"}
      /\ \A j \in Jobs : launched[j] = "up" => phase[j] = "running"
      /\ \A j \in Jobs : call[j] # "none" => phase[j] \notin {"launch", "running"}
    BY PlaceBasics, NoCallThere DEF NoOrphans
<1>1. ASSUME UNCHANGED <<phase, launched>> PROVE NoOrphans'
    BY <1>0, <1>1 DEF NoOrphans
<1>2. ASSUME NEW j \in Jobs, ArmAndSpawn(j) \/ Launch(j) \/ StopVm(j) \/ VmExits(j)
      PROVE  NoOrphans'
    BY <1>0, <1>2 DEF ArmAndSpawn, Launch, StopVm, VmExits, NoOrphans
<1>3. ASSUME NEW j \in Jobs,
             \/ MarkFailed(j) \/ TaskRemovesDnat(j) \/ TaskCleansTap(j)
             \/ TaskReleases(j) \/ MarkExited(j) \/ Disarm(j)
      PROVE  NoOrphans'
  <2>1. /\ UNCHANGED launched /\ phase[j] # "running"
        /\ \A k \in Jobs \ {j} : phase'[k] = phase[k]
      BY <1>0, <1>3 DEF MarkFailed, TaskRemovesDnat, TaskCleansTap,
         TaskReleases, MarkExited, Disarm
  <2> QED BY <1>0, <2>1 DEF NoOrphans
<1>4. ASSUME NEW j \in Jobs,
             \/ CheckDuplicate(j) \/ AllocateIp(j) \/ GiveBack(j) \/ SetupTap(j) \/ AddDnat(j)
             \/ HandlerCleansTap(j) \/ StoreRecord(j) \/ HandlerDropped(j)
      PROVE  NoOrphans'
    BY <1>1, <1>4 DEF CheckDuplicate, AllocateIp, GiveBack, SetupTap, AddDnat,
       HandlerCleansTap, StoreRecord, HandlerDropped
<1>5. ASSUME NEW j \in Jobs, Proxy(j) PROVE NoOrphans'
  <2>1. /\ UNCHANGED launched /\ call[j] # "none"
        /\ \A k \in Jobs \ {j} : phase'[k] = phase[k]
      BY <1>0, <1>5, ProxyMoves DEF Proxy, InsertRow, PublishEntry, ReadBack, FindEntry,
         DeleteRow, DeleteEntry, CallLost, PlaceInv, TypeInv
  <2> QED BY <1>0, <2>1 DEF NoOrphans
<1>6. ~ ManagerRestarts
    BY DEF ManagerStays, ManagerRestarts, May
<1> QED BY <1>1, <1>2, <1>3, <1>4, <1>5, <1>6 DEF Next, Handler, Task, Clients, World,
        SendShutdown, DeleterDropped, MarkShuttingDown, ProxyRestarts, vars

\* The handler goes on from the call only with its answer.
LEMMA CreatesHeldStep ==
    ASSUME ManagerStays, PlaceInv, CreatesHeld, [Next]_vars
    PROVE  CreatesHeld'
<1>0. /\ phase \in [Jobs -> Phases] /\ step \in [Jobs -> Steps] /\ call \in [Jobs -> Works]
      /\ CreatesHeld /\ TypeOK
    BY PlaceBasics
<1>1. ASSUME \A k \in Jobs : call'[k] \in {"insert", "publish", "readback"} =>
                 call[k] \in {"insert", "publish", "readback"} /\ step'[k] = step[k]
      PROVE  CreatesHeld'
    BY <1>0, <1>1 DEF CreatesHeld
<1>2. ASSUME NEW j \in Jobs, AllocateIp(j) PROVE CreatesHeld'
    BY <1>0, <1>2 DEF AllocateIp, CreatesHeld
<1>3. ASSUME NEW j \in Jobs, GiveBack(j) \/ HandlerCleansTap(j) PROVE CreatesHeld'
  <2>1. step[j] # "register" /\ (call'[j] = call[j] \/ call'[j] = "find")
      BY <1>0, <1>3 DEF GiveBack, HandlerCleansTap
  <2>2. \A k \in Jobs \ {j} : call'[k] = call[k] /\ step'[k] = step[k]
      BY <1>0, <1>3 DEF GiveBack, HandlerCleansTap
  <2> QED BY <1>0, <1>1, <2>1, <2>2 DEF CreatesHeld
<1>4. ASSUME NEW j \in Jobs,
             \/ CheckDuplicate(j) \/ SetupTap(j) \/ AddDnat(j) \/ ArmAndSpawn(j)
             \/ StoreRecord(j) \/ HandlerDropped(j)
      PROVE  CreatesHeld'
  <2>1. UNCHANGED call /\ (step[j] # "register" \/ UNCHANGED step)
      BY <1>0, <1>4 DEF CheckDuplicate, SetupTap, AddDnat, ArmAndSpawn, StoreRecord,
         HandlerDropped
  <2>2. \A k \in Jobs \ {j} : step'[k] = step[k]
      BY <1>0, <1>4 DEF CheckDuplicate, SetupTap, AddDnat, ArmAndSpawn, StoreRecord,
         HandlerDropped
  <2> QED BY <1>0, <1>1, <2>1, <2>2 DEF CreatesHeld
<1>5. ASSUME NEW j \in Jobs, Task(j) \/ VmExits(j) PROVE CreatesHeld'
  <2>1. UNCHANGED step /\ \A k \in Jobs : call'[k] = call[k] \/ call'[k] = "find"
      BY <1>0, <1>5 DEF Task, Launch, MarkFailed, StopVm, TaskRemovesDnat, TaskCleansTap,
         TaskReleases, MarkExited, Disarm, VmExits
  <2> QED BY <1>1, <2>1
<1>6. ASSUME NEW j \in Jobs, Proxy(j) PROVE CreatesHeld'
  <2>1. \A k \in Jobs \ {j} : call'[k] = call[k] /\ step'[k] = step[k]
      BY <1>0, <1>6, ProxyMoves, ProxyCalls DEF CallGoesOn
  <2>2. call'[j] \in {"insert", "publish", "readback"} =>
            call[j] \in {"insert", "publish", "readback"} /\ step'[j] = step[j]
    <3> USE DEF CreateReturns, DeleteReturns
    <3>1. CASE InsertRow(j) \/ PublishEntry(j) \/ ReadBack(j)
        BY <1>0, <3>1 DEF InsertRow, PublishEntry, ReadBack
    <3>2. CASE FindEntry(j) \/ DeleteRow(j) \/ DeleteEntry(j)
        BY <1>0, <3>2 DEF FindEntry, DeleteRow, DeleteEntry
    <3>3. CASE CallLost(j)
        BY <1>0, <3>3 DEF CallLost
    <3> QED BY <1>6, <3>1, <3>2, <3>3 DEF Proxy
  <2> QED BY <1>1, <2>1, <2>2
<1>7. CASE ProxyRestarts
    BY <1>7 DEF ProxyRestarts, CreatesHeld
<1>8. ~ ManagerRestarts
    BY DEF ManagerStays, ManagerRestarts, May
<1>9. CASE (\E d \in Deleters : SendShutdown(d)) \/ UNCHANGED vars
        \/ \E d \in Deleters : DeleterDropped(d) \/ \E id \in Ids : MarkShuttingDown(d, id)
  <2>1. UNCHANGED <<call, step>>
      BY <1>9 DEF SendShutdown, DeleterDropped, MarkShuttingDown, vars
  <2> QED BY <1>1, <2>1
<1> HIDE DEF vars, CreatesHeld
<1> QED BY ONLY <1>2, <1>3, <1>4, <1>5, <1>6, <1>7, <1>8, <1>9, [Next]_vars
        DEF Next, Handler, Clients, World

\* The manager keeps to what ConnectHandler takes for granted: it registers no address
\* that a VM has, and no delete looks for or deletes the session of a VM (allocate_ip
\* and release_ip, the failure paths of handle_create_environment, which give the
\* address back first, and the teardown of run_vm_lifecycle), whatever fails and
\* whichever jobs share ids, if the proxy keeps its sessions; if it does not, for jobs
\* of their own ids under one manager.
THEOREM SessionsUsedAsAgreed ==
    ASSUME SessionsLast \/ (ManagerStays /\ OwnIdsOnly)
    PROVE  Spec => KeepsContract
<1>1. Spec => []SessionsInv
    BY SessionsInvariant
<1>2. Init => Use!Init /\ VmRows
  <2> SUFFICES ASSUME Init PROVE Use!Init /\ VmRows
      OBVIOUS
  <2>1. \A j \in Jobs : ~ HasVm(j) /\ InHand(j) = Use!NoCall
      BY DEF Init, HasVm, InHand, Use!CallAt, Use!NoCall
  <2> QED BY <2>1 DEF Init, Use!Init, Vms, VmRows
<1>3. SessionsInv /\ Vacant /\ VmRows /\ [Next]_vars => VmRows' /\ [Use!Next]_Use!vars
    BY VmRowsStep, ContractStep DEF SessionsInv
<1>4. CASE SessionsLast
  <2>1. SessionsInv => Vacant
      BY <1>4, VacantIfSessionsLast
  <2> QED BY <1>1, <1>2, <1>3, <2>1, PTL DEF Spec, KeepsContract, Use!Spec
<1>5. CASE ManagerStays /\ OwnIdsOnly
  <2>1. Init => AddrInv /\ NoOrphans /\ CreatesHeld
      BY TypeInit DEF Init, AddrInv, TaskAfterHandler, AddressesExclusive, Holds, NoOrphans,
         CreatesHeld
  <2>2. SessionsInv /\ AddrInv /\ NoOrphans /\ CreatesHeld /\ [Next]_vars
          => AddrInv' /\ NoOrphans' /\ CreatesHeld'
      BY <1>5, AddressesStep, NoOrphansStep, CreatesHeldStep DEF SessionsInv
  <2>3. SessionsInv /\ AddrInv /\ NoOrphans /\ CreatesHeld => Vacant
      BY VacantIfManagerStays DEF SessionsInv
  <2> QED BY <1>1, <1>2, <1>3, <2>1, <2>2, <2>3, PTL DEF Spec, KeepsContract, Use!Spec
<1> QED BY <1>4, <1>5
=============================================================================
