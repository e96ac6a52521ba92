------------------------------ MODULE BootProofs ------------------------------
(***************************************************************************)
(* Proofs about ChangeLogLock for any number of nodes, change sets,         *)
(* attempts and faults, and about Boot for any number of accounts too.      *)
(* The second part rests on the inductive invariants of the first, which    *)
(* the steps of DBInit keep because no node of the upgrade fails or comes   *)
(* up in them.                                                              *)
(***************************************************************************)
EXTENDS Boot, FiniteSetTheorems, TLAPS

-----------------------------------------------------------------------------
(* The lock and the upgrade. *)

(* A transaction has the row exactly between its UPDATE and its end, and a  *)
(* node about to commit its lock has found the row unlocked.                *)
WriterInv ==
  \A n \in Nodes :
    /\ writer = n <=> pc[n] \in {"commit", "unlockCommit"}
    /\ pc[n] = "commit" => owner = NoNode

(* The inductive invariant behind mutual exclusion. *)
LockInv == TypeOK /\ WriterInv /\ HolderOwnsRow

LEMMA LockInit == Init => LockInv
BY NodesAssumption, BoundsAssumption
DEF Init, LockInv, TypeOK, WriterInv, HolderOwnsRow, Pcs, Off, Waiting, Critical

(* The parts of TypeOK the other proofs use, one fact each. *)
LEMMA TypeStep == TypeOK /\ [Next]_vars => TypeOK'
<1> SUFFICES ASSUME TypeOK, [Next]_vars PROVE TypeOK'
  OBVIOUS
<1> USE NodesAssumption, BoundsAssumption
    DEF TypeOK, Pcs, Off, Waiting, Critical, Goto, Fault, dbVars
<1>1. CASE UNCHANGED vars
  BY <1>1 DEF vars, nodeVars
<1>2. ASSUME NEW n \in Nodes, Boot(n) PROVE TypeOK'
  BY <1>2 DEF Boot
<1>3. ASSUME NEW n \in Nodes, Step(n) PROVE TypeOK'
  <2>1. CASE CheckTable(n)
    BY <2>1 DEF CheckTable
  <2>2. CASE CreateTable(n)
    BY <2>2 DEF CreateTable
  <2>3. CASE SelectLocked(n)
    BY <2>3 DEF SelectLocked
  <2>4. CASE UpdateRow(n)
    BY <2>4 DEF UpdateRow
  <2>5. CASE CommitLock(n)
    BY <2>5 DEF CommitLock
  <2>6. CASE Recheck(n)
    BY <2>6 DEF Recheck
  <2>7. CASE GiveUp(n)
    BY <2>7 DEF GiveUp
  <2>8. CASE OpenChangeLog(n)
    BY <2>8 DEF OpenChangeLog
  <2>9. CASE Execute(n)
    BY <2>9 DEF Execute, First
  <2>10. CASE MarkRan(n)
    BY <2>10 DEF MarkRan, First
  <2>11. CASE Finish(n)
    BY <2>11 DEF Finish
  <2>12. CASE Unlock(n)
    BY <2>12 DEF Unlock
  <2>13. CASE CommitUnlock(n)
    BY <2>13 DEF CommitUnlock
  <2> QED
    BY <1>3, <2>1, <2>2, <2>3, <2>4, <2>5, <2>6, <2>7, <2>8, <2>9, <2>10,
       <2>11, <2>12, <2>13 DEF Step
<1>4. ASSUME NEW n \in Nodes, Failure(n) PROVE TypeOK'
  <2>1. CASE CommitLockFails(n)
    BY <2>1 DEF CommitLockFails
  <2>2. CASE UpdateFails(n)
    <3>1. First(todo[n]) \subseteq ChangeSets
      BY DEF First
    <3> QED
      BY <2>2, <3>1 DEF UpdateFails
  <2>3. CASE UnlockFails(n)
    BY <2>3 DEF UnlockFails
  <2>4. CASE Crash(n)
    BY <2>4 DEF Crash
  <2> QED
    BY <1>4, <2>1, <2>2, <2>3, <2>4 DEF Failure
<1>5. ASSUME NEW n \in Nodes, Stop(n) PROVE TypeOK'
  BY <1>5 DEF Stop
<1> QED
  BY <1>1, <1>2, <1>3, <1>4, <1>5 DEF Next

(* TypeOK: the variables of LockServiceEx and of the tables keep their types. *)
THEOREM TypeCorrect == Spec => []TypeOK
<1>1. Init => TypeOK
  BY LockInit DEF LockInv
<1> QED
  BY <1>1, TypeStep, PTL DEF Spec

------------------------------------------------------------------------------
(* The row lock: every step keeps WriterInv and HolderOwnsRow. The steps    *)
(* that change owner are taken by a node that alone has the row's           *)
(* transaction, or that is the owner.                                       *)
LEMMA LockStep == LockInv /\ [Next]_vars => LockInv'
<1> SUFFICES ASSUME LockInv, [Next]_vars PROVE LockInv'
  OBVIOUS
<1> TypeOK'
  BY TypeStep DEF LockInv
<1> SUFFICES (WriterInv /\ HolderOwnsRow)'
  BY DEF LockInv
<1> USE NodesAssumption
    DEF LockInv, TypeOK, WriterInv, HolderOwnsRow, Pcs, Off, Waiting, Critical,
        Goto, dbVars
<1>1. CASE UNCHANGED vars
  BY <1>1 DEF vars, nodeVars
<1>2. ASSUME NEW n \in Nodes, Boot(n) PROVE (WriterInv /\ HolderOwnsRow)'
  BY <1>2 DEF Boot
<1>3. ASSUME NEW n \in Nodes, Step(n) PROVE (WriterInv /\ HolderOwnsRow)'
  <2>1. CASE CheckTable(n) \/ CreateTable(n) \/ SelectLocked(n)
    BY <2>1 DEF CheckTable, CreateTable, SelectLocked
  <2>2. CASE UpdateRow(n)
    BY <2>2 DEF UpdateRow
  <2>3. CASE CommitLock(n)
    BY <2>3 DEF CommitLock
  <2>4. CASE Recheck(n) \/ GiveUp(n)
    BY <2>4 DEF Recheck, GiveUp
  <2>5. CASE OpenChangeLog(n) \/ Execute(n) \/ MarkRan(n) \/ Finish(n)
    BY <2>5 DEF OpenChangeLog, Execute, MarkRan, Finish
  <2>6. CASE Unlock(n)
    BY <2>6 DEF Unlock
  <2>7. CASE CommitUnlock(n)
    BY <2>7 DEF CommitUnlock
  <2> QED
    BY <1>3, <2>1, <2>2, <2>3, <2>4, <2>5, <2>6, <2>7 DEF Step
<1>4. ASSUME NEW n \in Nodes, Failure(n) PROVE (WriterInv /\ HolderOwnsRow)'
  <2>1. CASE CommitLockFails(n)
    BY <2>1 DEF CommitLockFails
  <2>2. CASE UpdateFails(n)
    BY <2>2 DEF UpdateFails
  <2>3. CASE UnlockFails(n)
    BY <2>3 DEF UnlockFails
  <2>4. CASE Crash(n)
    BY <2>4 DEF Crash
  <2> QED
    BY <1>4, <2>1, <2>2, <2>3, <2>4 DEF Failure
<1>5. ASSUME NEW n \in Nodes, Stop(n) PROVE (WriterInv /\ HolderOwnsRow)'
  BY <1>5 DEF Stop
<1> QED
  BY <1>1, <1>2, <1>3, <1>4, <1>5 DEF Next

LEMMA LockInvariant == Spec => []LockInv
BY LockInit, LockStep, PTL DEF Spec

(* HolderOwnsRow: no step of another node takes the row from the node that  *)
(* upgrades the schema.                                                     *)
THEOREM RowIsTheHolders == Spec => []HolderOwnsRow
<1>1. LockInv => HolderOwnsRow
  BY DEF LockInv
<1> QED
  BY <1>1, LockInvariant, PTL

(* MutualExclusion: at most one node is in the body of LiquibaseEx.update.  *)
THEOREM Exclusion == Spec => []MutualExclusion
<1>1. LockInv => MutualExclusion
  BY DEF LockInv, HolderOwnsRow, MutualExclusion
<1> QED
  BY <1>1, LockInvariant, PTL

(* A lock is left behind by a crash, a failed commit or a failed release    *)
(* only: the other steps end a node's time as the owner by giving it back.  *)
LEMMA LeakStep ==
  ASSUME LockInv, LeakNeedsFault, [Next]_vars
  PROVE  LeakNeedsFault'
<1> USE NodesAssumption
    DEF LockInv, TypeOK, WriterInv, HolderOwnsRow, LeakNeedsFault, Off, Waiting, Critical,
        Goto, Fault, dbVars
<1>1. CASE UNCHANGED vars
  BY <1>1 DEF vars, nodeVars
<1>2. ASSUME NEW n \in Nodes, Boot(n) \/ Stop(n) PROVE LeakNeedsFault'
  BY <1>2 DEF Boot, Stop
<1>3. ASSUME NEW n \in Nodes, Step(n) PROVE LeakNeedsFault'
  <2>1. CASE CheckTable(n) \/ CreateTable(n) \/ SelectLocked(n) \/ UpdateRow(n)
    BY <2>1 DEF CheckTable, CreateTable, SelectLocked, UpdateRow
  <2>2. CASE Recheck(n) \/ GiveUp(n)
    BY <2>2 DEF Recheck, GiveUp
  <2>3. CASE CommitLock(n)
    BY <2>3 DEF CommitLock
  <2>4. CASE OpenChangeLog(n) \/ Execute(n) \/ MarkRan(n) \/ Finish(n) \/ Unlock(n)
    BY <2>4 DEF OpenChangeLog, Execute, MarkRan, Finish, Unlock
  <2>5. CASE CommitUnlock(n)
    BY <2>5 DEF CommitUnlock
  <2> QED
    BY <1>3, <2>1, <2>2, <2>3, <2>4, <2>5 DEF Step
<1>4. ASSUME NEW n \in Nodes, Failure(n) PROVE LeakNeedsFault'
  <2>1. faults \in Nat /\ faults' = faults + 1
    BY <1>4, BoundsAssumption DEF Failure, CommitLockFails, UpdateFails, UnlockFails, Crash
  <2> QED
    BY <2>1
<1> QED
  BY <1>1, <1>2, <1>3, <1>4 DEF Next

(* LeakNeedsFault: without a fault no lock is left behind.                  *)
THEOREM LeaksAreFaults == Spec => []LeakNeedsFault
<1>1. Init => LeakNeedsFault
  BY DEF Init, LeakNeedsFault
<1>2. LockInv /\ LeakNeedsFault /\ [Next]_vars => LeakNeedsFault'
  BY LeakStep
<1> QED
  BY <1>1, <1>2, LockInvariant, PTL DEF Spec

(* A node that takes the row, by a commit or by one that seems to fail,     *)
(* found it free: while it writes the row nobody owns it.                   *)
LEMMA OrphanStep ==
  LockInv /\ [Next]_vars =>
    (owner # NoNode /\ pc[owner] \notin Critical => owner' = owner)
<1> SUFFICES ASSUME LockInv, [Next]_vars, owner # NoNode, pc[owner] \notin Critical
             PROVE  owner' = owner
  OBVIOUS
<1> USE NodesAssumption
    DEF LockInv, TypeOK, WriterInv, HolderOwnsRow, Pcs, Off, Waiting, Critical, Goto, dbVars
<1>1. CASE UNCHANGED vars
  BY <1>1 DEF vars
<1>2. ASSUME NEW n \in Nodes, Boot(n) \/ Stop(n) PROVE owner' = owner
  BY <1>2 DEF Boot, Stop
<1>3. ASSUME NEW n \in Nodes, Step(n) PROVE owner' = owner
  <2>1. CASE CheckTable(n) \/ CreateTable(n) \/ SelectLocked(n) \/ UpdateRow(n) \/ Recheck(n) \/ GiveUp(n)
    BY <2>1 DEF CheckTable, CreateTable, SelectLocked, UpdateRow, Recheck, GiveUp
  <2>2. CASE CommitLock(n) \/ CommitUnlock(n)
    BY <2>2 DEF CommitLock, CommitUnlock
  <2>3. CASE OpenChangeLog(n) \/ Execute(n) \/ MarkRan(n) \/ Finish(n) \/ Unlock(n)
    BY <2>3 DEF OpenChangeLog, Execute, MarkRan, Finish, Unlock
  <2> QED
    BY <1>3, <2>1, <2>2, <2>3 DEF Step
<1>4. ASSUME NEW n \in Nodes, Failure(n) PROVE owner' = owner
  <2>1. CASE CommitLockFails(n) \/ UnlockFails(n)
    BY <2>1 DEF CommitLockFails, UnlockFails
  <2>2. CASE UpdateFails(n) \/ Crash(n)
    BY <2>2 DEF UpdateFails, Crash
  <2> QED
    BY <1>4, <2>1, <2>2 DEF Failure
<1> QED
  BY <1>1, <1>2, <1>3, <1>4 DEF Next

(* OrphanStays: nothing takes a left-over lock away, whoever boots, fails   *)
(* or dies, for any number of nodes: it stays until somebody clears it by   *)
(* hand.                                                                    *)
THEOREM OrphansStay == Spec => OrphanStays
<1>1. Spec => []LockInv
  BY LockInvariant
<1> QED
  BY <1>1, OrphanStep, PTL DEF Spec, OrphanStays

------------------------------------------------------------------------------
(* What the lock protects. The iterator of the upgrading node still has     *)
(* exactly the change sets that are not recorded; a boot that ends well has *)
(* recorded them all; and a change set that was executed but neither        *)
(* recorded nor lost is the one being recorded now, or the lock is still    *)
(* held in the name of the node that died before it recorded it.            *)
TodoInv ==
  \A n \in Nodes :
    /\ pc[n] \in {"apply", "mark"} => todo[n] = ChangeSets \ ran
    /\ pc[n] = "mark" => todo[n] # {}
    /\ outcome[n] = "up" => ran = ChangeSets

PendingInv ==
  \A c \in ChangeSets \ (ran \cup lostMark) :
    executed[c] > 0 =>
      /\ owner # NoNode
      /\ \A n \in Nodes : pc[n] \in Critical => pc[n] = "mark" /\ c \in First(todo[n])

UpgradeInv ==
  /\ TodoInv
  /\ PendingInv
  /\ ExecutedOnce
  /\ InOrder
  /\ \A n \in Nodes : pc[n] = "up" => outcome[n] = "up"

LEMMA UpgradeInit == Init => UpgradeInv
BY DEF Init, UpgradeInv, TodoInv, PendingInv, ExecutedOnce, InOrder

LEMMA UpgradeStep == LockInv /\ UpgradeInv /\ [Next]_vars => UpgradeInv'
<1> SUFFICES ASSUME LockInv, UpgradeInv, [Next]_vars PROVE UpgradeInv'
  OBVIOUS
<1> USE NodesAssumption, BoundsAssumption
    DEF LockInv, TypeOK, WriterInv, HolderOwnsRow, UpgradeInv, TodoInv, PendingInv,
        ExecutedOnce, InOrder, Pcs, Off, Waiting, Critical, Goto, dbVars
<1>1. CASE UNCHANGED vars
  BY <1>1 DEF vars, nodeVars
<1>2. ASSUME NEW n \in Nodes, Boot(n) PROVE UpgradeInv'
  BY <1>2 DEF Boot
<1>3. ASSUME NEW n \in Nodes, Step(n) PROVE UpgradeInv'
  <2>1. CASE CheckTable(n) \/ CreateTable(n) \/ SelectLocked(n) \/ UpdateRow(n)
    BY <2>1 DEF CheckTable, CreateTable, SelectLocked, UpdateRow
  <2>2. CASE CommitLock(n)
    BY <2>2 DEF CommitLock
  <2>3. CASE Recheck(n) \/ GiveUp(n)
    BY <2>3 DEF Recheck, GiveUp
  <2>4. CASE OpenChangeLog(n)
    BY <2>4 DEF OpenChangeLog
  <2>5. CASE Execute(n)
    <3>1. PICK c \in First(todo[n]) : executed' = [executed EXCEPT ![c] = @ + 1]
      BY <2>5 DEF Execute
    <3>2. /\ c \in ChangeSets \ ran
          /\ todo[n] = ChangeSets \ ran
          /\ \A d \in ChangeSets : d < c => d \in ran
      <4>1. pc[n] = "apply" /\ todo[n] = ChangeSets \ ran
        BY <2>5 DEF Execute
      <4>2. c \in ChangeSets \ ran /\ \A d \in ChangeSets \ ran : c <= d
        BY <3>1, <4>1 DEF First
      <4>3. \A d \in ChangeSets : d < c => ~(c <= d)
        BY <4>2 DEF ChangeSets
      <4> QED
        BY <4>1, <4>2, <4>3
    <3>3. c \in lostMark \/ executed[c] = 0
      BY <2>5, <3>2 DEF Execute
    <3>4. /\ \A m \in Nodes : pc'[m] \in Critical => m = n
          /\ owner' # NoNode /\ pc'[n] = "mark" /\ c \in First(todo'[n])
      BY <2>5, <3>1 DEF Execute
    <3>5. (TodoInv /\ \A m \in Nodes : pc[m] = "up" => outcome[m] = "up")'
      BY <2>5, <3>2 DEF Execute
    <3>6. PendingInv'
      BY <2>5, <3>1, <3>4 DEF Execute
    <3>7. (ExecutedOnce /\ InOrder)'
      BY <2>5, <3>1, <3>2, <3>3 DEF Execute
    <3> QED
      BY <3>5, <3>6, <3>7
  <2>6. CASE MarkRan(n)
    BY <2>6 DEF MarkRan, First, ChangeSets
  <2>7. CASE Finish(n)
    BY <2>7 DEF Finish
  <2>8. CASE Unlock(n) \/ CommitUnlock(n)
    BY <2>8 DEF Unlock, CommitUnlock
  <2> QED
    BY <1>3, <2>1, <2>2, <2>3, <2>4, <2>5, <2>6, <2>7, <2>8 DEF Step
<1>4. ASSUME NEW n \in Nodes, Failure(n) PROVE UpgradeInv'
  <2>1. CASE CommitLockFails(n)
    BY <2>1 DEF CommitLockFails
  <2>2. CASE UpdateFails(n)
    BY <2>2 DEF UpdateFails, First
  <2>3. CASE UnlockFails(n)
    BY <2>3 DEF UnlockFails
  <2>4. CASE Crash(n)
    BY <2>4 DEF Crash
  <2> QED
    BY <1>4, <2>1, <2>2, <2>3, <2>4 DEF Failure
<1>5. ASSUME NEW n \in Nodes, Stop(n) PROVE UpgradeInv'
  BY <1>5 DEF Stop
<1> QED
  BY <1>1, <1>2, <1>3, <1>4, <1>5 DEF Next

LEMMA UpgradeInvariant == Spec => [](LockInv /\ UpgradeInv)
BY LockInit, LockStep, UpgradeInit, UpgradeStep, PTL DEF Spec

(* ExecutedOnce: a change set runs at most once unless recording it failed. *)
THEOREM NoDoubleExecution == Spec => []ExecutedOnce
<1>1. UpgradeInv => ExecutedOnce
  BY DEF UpgradeInv
<1> QED
  BY <1>1, UpgradeInvariant, PTL

(* InOrder: the predecessors of an executed change set are recorded.        *)
THEOREM ChangeLogOrder == Spec => []InOrder
<1>1. UpgradeInv => InOrder
  BY DEF UpgradeInv
<1> QED
  BY <1>1, UpgradeInvariant, PTL

(* UpIsUpgraded: a node that serves has the whole change log recorded.      *)
THEOREM ServingNodesAreUpgraded == Spec => []UpIsUpgraded
<1>1. UpgradeInv => UpIsUpgraded
  BY DEF UpgradeInv, TodoInv, UpIsUpgraded
<1> QED
  BY <1>1, UpgradeInvariant, PTL

------------------------------------------------------------------------------
(* Refinement of SerialUpgrade: acquiring the lock is Enter, MarkRan is     *)
(* Record, and the end of the release or the death of the node is Leave.    *)
Upgrading == {n \in Nodes : pc[n] \in Critical}

LEMMA SerialInit == Init => Serial!Init
BY DEF Init, Serial!Init, Critical

LEMMA SerialStep ==
  LockInv /\ LockInv' /\ UpgradeInv /\ [Next]_vars => [Serial!Next]_Serial!vars
<1> SUFFICES ASSUME LockInv, LockInv', UpgradeInv, [Next]_vars
             PROVE  [Serial!Next]_Serial!vars
  OBVIOUS
<1> USE NodesAssumption
    DEF LockInv, TypeOK, WriterInv, HolderOwnsRow, Pcs, Off, Waiting, Critical,
        Goto, dbVars
<1>1. CASE UNCHANGED vars
  BY <1>1 DEF vars, nodeVars, Serial!vars
<1>2. ASSUME NEW n \in Nodes, Boot(n) \/ Stop(n) PROVE UNCHANGED Serial!vars
  BY <1>2 DEF Boot, Stop, Serial!vars
<1>3. ASSUME NEW n \in Nodes, Step(n) PROVE [Serial!Next]_Serial!vars
  <2>1. CASE CheckTable(n) \/ CreateTable(n) \/ SelectLocked(n) \/ UpdateRow(n)
    BY <2>1 DEF CheckTable, CreateTable, SelectLocked, UpdateRow, Serial!vars
  <2>2. CASE CommitLock(n)
    <3>1. Upgrading = {} /\ Upgrading' = {n} /\ ran' = ran
      BY <2>2 DEF CommitLock, Upgrading
    <3> QED
      BY <3>1 DEF Upgrading, Serial!Next, Serial!Enter
  <2>3. CASE Recheck(n) \/ GiveUp(n) \/ OpenChangeLog(n) \/ Execute(n) \/ Finish(n)
              \/ Unlock(n)
    BY <2>3 DEF Recheck, GiveUp, OpenChangeLog, Execute, Finish, Unlock, Serial!vars
  <2>4. CASE MarkRan(n)
    <3>1. Upgrading = {n} /\ Upgrading' = {n}
      BY <2>4 DEF MarkRan, Upgrading
    <3>2. todo[n] = ChangeSets \ ran
      BY <2>4 DEF MarkRan, UpgradeInv, TodoInv
    <3> QED
      BY <2>4, <3>1, <3>2 DEF MarkRan, First, Upgrading, Serial!Next, Serial!Record
  <2>5. CASE CommitUnlock(n)
    <3>1. Upgrading = {n} /\ Upgrading' = {} /\ ran' = ran
      BY <2>5, outcome[n] \in {"up", "failed"} DEF CommitUnlock, Upgrading
    <3> QED
      BY <3>1 DEF Upgrading, Serial!Next, Serial!Leave
  <2> QED
    BY <1>3, <2>1, <2>2, <2>3, <2>4, <2>5 DEF Step
<1>4. ASSUME NEW n \in Nodes, Failure(n) PROVE [Serial!Next]_Serial!vars
  <2>1. CASE CommitLockFails(n) \/ UpdateFails(n)
    BY <2>1 DEF CommitLockFails, UpdateFails, Serial!vars
  <2>2. CASE UnlockFails(n)
    <3>1. Upgrading = {n} /\ Upgrading' = {} /\ ran' = ran
      BY <2>2, outcome[n] \in {"up", "failed"} DEF UnlockFails, Upgrading
    <3> QED
      BY <3>1 DEF Upgrading, Serial!Next, Serial!Leave
  <2>3. CASE Crash(n) /\ pc[n] \in Critical
    <3>1. Upgrading = {n} /\ Upgrading' = {} /\ ran' = ran
      BY <2>3 DEF Crash, Upgrading
    <3> QED
      BY <3>1 DEF Upgrading, Serial!Next, Serial!Leave
  <2>4. CASE Crash(n) /\ pc[n] \notin Critical
    BY <2>4 DEF Crash, Serial!vars
  <2> QED
    BY <1>4, <2>1, <2>2, <2>3, <2>4 DEF Failure
<1> QED
  BY <1>1, <1>2, <1>3, <1>4 DEF Next

(* ImplementsSerialUpgrade: the lock protocol implements SerialUpgrade.     *)
THEOREM Refinement == Spec => ImplementsSerialUpgrade
<1>1. Spec => [](LockInv /\ UpgradeInv)
  BY UpgradeInvariant
<1> QED
  BY <1>1, SerialInit, SerialStep, PTL DEF Spec, ImplementsSerialUpgrade, Serial!Spec

-----------------------------------------------------------------------------
(* Starting the database as a whole. *)

(* A node seeds only after it came up, and accounts need a full schema.     *)
SeedInv ==
  /\ seed \in [Nodes -> {"idle", "find", "save", "serving"}]
  /\ \A n \in Nodes : seed[n] # "idle" => pc[n] = "up"
  /\ users # {} => ran = ChangeSets

BootInv == LockInv /\ UpgradeInv /\ SeedInv

LEMMA BootInitInv == BootInit => BootInv
<1> SUFFICES ASSUME BootInit PROVE BootInv
  OBVIOUS
<1>1. LockInv /\ UpgradeInv
  BY LockInit, UpgradeInit DEF BootInit
<1>2. SeedInv
  BY DEF BootInit, SeedInv
<1> QED
  BY <1>1, <1>2 DEF BootInv

(* A failure of DBInit takes a node that is up down, and nothing else. *)
SeedAborts(n) ==
  /\ pc[n] = "up"
  /\ pc' = [pc EXCEPT ![n] = "failed"]
  /\ faults' \in {faults, faults + 1}
  /\ faults' \in 0 .. MaxFaults
  /\ UNCHANGED <<dbVars, attempts, hasLock, todo, outcome>>

LEMMA AbortKeepsLock ==
  ASSUME LockInv, UpgradeInv, NEW n \in Nodes, SeedAborts(n)
  PROVE  LockInv' /\ UpgradeInv'
<1> USE NodesAssumption, BoundsAssumption
    DEF LockInv, TypeOK, WriterInv, HolderOwnsRow, Pcs, Off, Waiting, Critical,
        SeedAborts, dbVars
<1>1. TypeOK' /\ WriterInv' /\ HolderOwnsRow'
  OBVIOUS
<1>2. UpgradeInv'
  BY DEF UpgradeInv, TodoInv, PendingInv, ExecutedOnce, InOrder
<1> QED
  BY <1>1, <1>2

(* Every step of Boot is one of the upgrade, leaves the upgrade alone, or   *)
(* aborts a node that is up.                                                *)
LEMMA BootStepKinds ==
  ASSUME BootInv, [BootNext]_bootVars
  PROVE  [Next]_vars \/ \E n \in Nodes : SeedAborts(n)
<1>1. CASE UNCHANGED bootVars
  BY <1>1 DEF bootVars
<1>2. ASSUME NEW n \in Nodes, LockPart(n) PROVE Next
  BY <1>2 DEF LockPart, Next
<1>3. ASSUME NEW n \in Nodes, SeedStep(n) PROVE UNCHANGED vars \/ SeedAborts(n)
  <2>1. CASE CountUsers(n) \/ FindUser(n)
    BY <2>1 DEF CountUsers, FindUser
  <2>2. CASE SaveUser(n)
    <3>1. faults \in 0 .. MaxFaults /\ pc[n] = "up"
      BY <2>2 DEF SaveUser, BootInv, SeedInv, LockInv, TypeOK
    <3> QED
      BY <2>2, <3>1 DEF SaveUser, SeedAborts, Goto
  <2> QED
    BY <1>3, <2>1, <2>2 DEF SeedStep
<1>4. ASSUME NEW n \in Nodes, SeedFails(n) PROVE SeedAborts(n)
  BY <1>4, BoundsAssumption
  DEF SeedFails, SeedAborts, Goto, Fault, BootInv, SeedInv, LockInv, TypeOK
<1> QED
  BY <1>1, <1>2, <1>3, <1>4 DEF BootNext

LEMMA BootLockStep ==
  BootInv /\ [BootNext]_bootVars => LockInv' /\ UpgradeInv'
<1> SUFFICES ASSUME BootInv, [BootNext]_bootVars PROVE LockInv' /\ UpgradeInv'
  OBVIOUS
<1>1. CASE [Next]_vars
  BY <1>1, LockStep, UpgradeStep DEF BootInv
<1>2. CASE \E n \in Nodes : SeedAborts(n)
  BY <1>2, AbortKeepsLock DEF BootInv
<1> QED
  BY <1>1, <1>2, BootStepKinds

(* A change set is executed only while one is left to record. *)
LEMMA ExecuteNeedsTodo ==
  ASSUME LockInv, UpgradeInv, NEW n \in Nodes, Boot(n) \/ Step(n) \/ Failure(n) \/ Stop(n),
         ran = ChangeSets
  PROVE  executed' = executed /\ ran' = ran
<1> USE DEF dbVars
<1>1. CASE Boot(n) \/ Stop(n) \/ Failure(n)
  BY <1>1 DEF Boot, Stop, Failure, CommitLockFails, UpdateFails, UnlockFails, Crash
<1>2. CASE Execute(n) \/ MarkRan(n)
  BY <1>2 DEF Execute, MarkRan, First, UpgradeInv, TodoInv
<1>3. CASE Step(n) /\ ~Execute(n) /\ ~MarkRan(n)
  BY <1>3 DEF Step, CheckTable, CreateTable, SelectLocked, UpdateRow, CommitLock,
     Recheck, GiveUp, OpenChangeLog, Finish, Unlock, CommitUnlock
<1> QED
  BY <1>1, <1>2, <1>3

(* A step of one node leaves where the others are. *)
LEMMA OthersStay ==
  ASSUME LockInv, NEW n \in Nodes, Boot(n) \/ Step(n) \/ Failure(n) \/ Stop(n)
  PROVE  \A m \in Nodes \ {n} : pc'[m] = pc[m]
BY DEF LockInv, TypeOK, Goto, Boot, Stop, Failure, CommitLockFails, UpdateFails,
   UnlockFails, Crash, Step, CheckTable, CreateTable, SelectLocked, UpdateRow,
   CommitLock, Recheck, GiveUp, OpenChangeLog, Execute, MarkRan, Finish, Unlock,
   CommitUnlock

LEMMA SeedStepInv == BootInv /\ [BootNext]_bootVars => SeedInv'
<1> SUFFICES ASSUME BootInv, [BootNext]_bootVars PROVE SeedInv'
  OBVIOUS
<1> USE DEF BootInv, SeedInv
<1>1. CASE UNCHANGED bootVars
  BY <1>1 DEF bootVars, seedVars, vars, nodeVars, dbVars
<1>2. ASSUME NEW n \in Nodes, LockPart(n) PROVE SeedInv'
  <2>1. \A m \in Nodes \ {n} : pc'[m] = pc[m]
    BY <1>2, OthersStay DEF LockPart
  <2>2. ran = ChangeSets => executed' = executed /\ ran' = ran
    BY <1>2, ExecuteNeedsTodo DEF LockPart
  <2> QED
    BY <1>2, <2>1, <2>2 DEF LockPart
<1>3. ASSUME NEW n \in Nodes, CountUsers(n) PROVE SeedInv'
  BY <1>3 DEF CountUsers, vars, nodeVars, dbVars
<1>4. ASSUME NEW n \in Nodes, FindUser(n) PROVE SeedInv'
  BY <1>4 DEF FindUser, Advance, vars, nodeVars, dbVars
<1>5. ASSUME NEW n \in Nodes, SaveUser(n) PROVE SeedInv'
  <2>1. ran = ChangeSets
    BY <1>5 DEF SaveUser, UpgradeInv, TodoInv
  <2>2. pc \in [Nodes -> Pcs]
    BY DEF LockInv, TypeOK
  <2> QED
    BY <1>5, <2>1, <2>2 DEF SaveUser, Advance, Goto, vars, nodeVars, dbVars
<1>6. ASSUME NEW n \in Nodes, SeedFails(n) PROVE SeedInv'
  BY <1>6 DEF SeedFails, Goto, LockInv, TypeOK, dbVars
<1> QED
  BY <1>1, <1>2, <1>3, <1>4, <1>5, <1>6 DEF BootNext, SeedStep

LEMMA BootInvariant == BootSpec => []BootInv
<1>1. BootInv /\ [BootNext]_bootVars => BootInv'
  BY BootLockStep, SeedStepInv DEF BootInv
<1> QED
  BY <1>1, BootInitInv, PTL DEF BootSpec

(* SchemaBeforeAccounts: DBInit sees a fully upgraded schema only.          *)
THEOREM AccountsNeedSchema == BootSpec => []SchemaBeforeAccounts
<1>1. BootInv => SchemaBeforeAccounts
  BY DEF BootInv, SeedInv, UpgradeInv, TodoInv, SchemaBeforeAccounts
<1> QED
  BY <1>1, BootInvariant, PTL

(* AccountsNeverWiped: NUSER is never dropped once it holds an account.     *)
THEOREM AccountsSurvive == BootSpec => AccountsNeverWiped
<1>1. BootInv /\ [BootNext]_bootVars => [users \subseteq users']_users
  <2> SUFFICES ASSUME BootInv, [BootNext]_bootVars, users # {}
               PROVE  users \subseteq users'
    BY DEF BootInv
  <2>1. CASE UNCHANGED bootVars
    BY <2>1 DEF bootVars, seedVars
  <2>2. ASSUME NEW n \in Nodes, LockPart(n) PROVE users' = users
    BY <2>2, ExecuteNeedsTodo DEF LockPart, BootInv, SeedInv
  <2>3. ASSUME NEW n \in Nodes, SeedStep(n) \/ SeedFails(n) PROVE users \subseteq users'
    BY <2>3 DEF SeedStep, CountUsers, FindUser, SaveUser, SeedFails
  <2> QED
    BY <2>1, <2>2, <2>3 DEF BootNext
<1> QED
  BY <1>1, BootInvariant, PTL DEF BootSpec, AccountsNeverWiped

------------------------------------------------------------------------------
(* What happens to the accounts as long as no node dies or meets a database  *)
(* error: one of the seeding nodes is ahead, with as many accounts made as   *)
(* it has come to, and a node whose save fails is never that one.            *)
Prefix(k) == {Defaults[i] : i \in 1 .. k - 1}
Seeds(n) == seed[n] \in {"find", "save"}
Ahead(n) ==
  Seeds(n) /\ users = Prefix(at[n]) /\ (seed[n] = "save" => Defaults[at[n]] \notin users)
Filling == users = {} \/ users = AllDefaults \/ \E n \in Nodes : Ahead(n)
FillInv ==
  /\ at \in [Nodes -> Nat]
  /\ \A n \in Nodes : Seeds(n) => at[n] \in 1 .. Len(Defaults) /\ Prefix(at[n]) \subseteq users
  /\ \A n \in Nodes : seed[n] = "serving" => users # {}
  /\ faults = 0 => Filling

(* The accounts up to a position, from none to all of them.                 *)
LEMMA UpTo ==
  /\ Len(Defaults) \in Nat \ {0} /\ Prefix(1) = {} /\ Prefix(Len(Defaults) + 1) = AllDefaults
  /\ \A k \in 1 .. Len(Defaults) : Prefix(k + 1) = Prefix(k) \cup {Defaults[k]} /\ Defaults[k] \in AllDefaults
  /\ \A j, k \in Nat : j <= k => Prefix(j) \subseteq Prefix(k)
  /\ \A j, k \in 1 .. Len(Defaults) : Defaults[k] \notin Prefix(j) => j <= k
<1>1. Len(Defaults) \in Nat \ {0} /\ DOMAIN Defaults = 1 .. Len(Defaults)
  BY DefaultsAssumption
<1>2. Prefix(Len(Defaults) + 1) = AllDefaults
  BY <1>1 DEF Prefix, AllDefaults, ToSet
<1>3. Prefix(1) = {}
  BY DEF Prefix
<1>4. ASSUME NEW k \in 1 .. Len(Defaults)
      PROVE  Prefix(k + 1) = Prefix(k) \cup {Defaults[k]} /\ Defaults[k] \in AllDefaults
  <2>1. 1 .. (k + 1) - 1 = (1 .. k - 1) \cup {k}
    BY <1>1
  <2> QED
    BY <1>1, <2>1 DEF Prefix, AllDefaults, ToSet
<1>5. \A j, k \in Nat : j <= k => Prefix(j) \subseteq Prefix(k)
  BY DEF Prefix
<1>6. \A j, k \in 1 .. Len(Defaults) : Defaults[k] \notin Prefix(j) => j <= k
  BY <1>1 DEF Prefix
<1> QED
  BY <1>1, <1>2, <1>3, <1>4, <1>5, <1>6

(* A step of the upgrade leaves the accounts, and without a fault it is not  *)
(* one of a node that seeds.                                                *)
LEMMA LockPartQuiet ==
  ASSUME BootInv, NEW n \in Nodes, LockPart(n)
  PROVE  users' = users /\ (faults' = 0 => faults = 0 /\ ~Seeds(n))
<1>1. users' = users
  BY ExecuteNeedsTodo DEF LockPart, BootInv, SeedInv
<1>2. faults \in Nat
  BY BoundsAssumption DEF BootInv, LockInv, TypeOK
<1>3. CASE Failure(n)
  BY <1>1, <1>2, <1>3 DEF Failure, CommitLockFails, UpdateFails, UnlockFails, Crash, Fault
<1>4. CASE Boot(n) \/ Step(n) \/ (seed[n] = "serving" /\ Stop(n))
  <2>1. faults' = faults
    BY <1>4 DEF Boot, Stop, Step, CheckTable, CreateTable, SelectLocked, UpdateRow, CommitLock,
       Recheck, GiveUp, OpenChangeLog, Execute, MarkRan, Finish, Unlock, CommitUnlock
  <2>2. pc[n] # "up" \/ seed[n] = "serving"
    BY <1>4 DEF Boot, Off, Step, CheckTable, CreateTable, SelectLocked, UpdateRow, CommitLock,
       Recheck, GiveUp, OpenChangeLog, Execute, MarkRan, Finish, Unlock, CommitUnlock
  <2>3. ~Seeds(n)
    BY <2>2 DEF BootInv, SeedInv, Seeds
  <2> QED
    BY <1>1, <2>1, <2>3
<1> QED
  BY <1>3, <1>4 DEF LockPart

(* A node that has its account, found or saved, goes on to the next one.    *)
LEMMA AdvanceFills ==
  ASSUME BootInv, FillInv, NEW n \in Nodes, Seeds(n), Advance(n),
         users' = users \cup {Defaults[at[n]]}, faults' = faults,
         faults = 0 => users' = AllDefaults \/ users' = Prefix(at[n] + 1) \/ \E m \in Nodes \ {n} : Ahead(m)'
  PROVE  FillInv'
<1>1. at[n] \in 1 .. Len(Defaults) /\ Len(Defaults) \in Nat /\ Prefix(at[n] + 1) \subseteq users'
  BY UpTo DEF FillInv
<1>2. at' \in [Nodes -> Nat]
  BY DEF FillInv, Advance
<1>3. /\ at'[n] = at[n] + 1 /\ seed'[n] = (IF at[n] < Len(Defaults) THEN "find" ELSE "serving")
      /\ \A m \in Nodes \ {n} : at'[m] = at[m] /\ seed'[m] = seed[m]
  BY DEF FillInv, Advance, BootInv, SeedInv
<1>4. ASSUME NEW m \in Nodes, Seeds(m)'
      PROVE  at'[m] \in 1 .. Len(Defaults) /\ Prefix(at'[m]) \subseteq users'
  <2>1. CASE m = n
    BY <1>1, <1>3, <1>4, <2>1 DEF Seeds
  <2>2. CASE m # n
    BY <1>3, <1>4, <2>2 DEF FillInv, Seeds
  <2> QED
    BY <2>1, <2>2
<1>5. users' # {}
  OBVIOUS
<1>6. ASSUME faults = 0 PROVE Filling'
  <2>1. CASE users' = Prefix(at[n] + 1)
    <3>1. CASE at[n] < Len(Defaults)
      <4>1. Ahead(n)'
        BY <1>3, <2>1, <3>1 DEF Ahead, Seeds
      <4> QED
        BY <4>1 DEF Filling
    <3>2. CASE at[n] = Len(Defaults)
      BY <2>1, <3>2, UpTo DEF Filling, AllDefaults
    <3> QED
      BY <1>1, <3>1, <3>2
  <2> QED
    BY <1>6, <2>1 DEF Filling, AllDefaults
<1> QED
  BY <1>2, <1>4, <1>5, <1>6 DEF FillInv, Seeds

(* Each step keeps a seeding node ahead, makes the next one ahead or fills   *)
(* the table.                                                               *)
LEMMA FillStep == ASSUME BootInv, FillInv, [BootNext]_bootVars PROVE FillInv'
<1>0. faults \in Nat
  BY BoundsAssumption DEF BootInv, LockInv, TypeOK
<1>s. seed \in [Nodes -> {"idle", "find", "save", "serving"}]
  BY DEF BootInv, SeedInv
<1>1. CASE UNCHANGED bootVars
  BY <1>1 DEF bootVars, seedVars, vars, FillInv, Filling, Ahead, Seeds
<1>i. ASSUME NEW n \in Nodes, users' = users, at' = at, seed' = [seed EXCEPT ![n] = "idle"],
             faults' = 0 => faults = 0 /\ ~Ahead(n)
      PROVE  FillInv'
  <2>1. \A m \in Nodes : Ahead(m) /\ m # n => Ahead(m)'
    BY <1>i, <1>s DEF Ahead, Seeds
  <2>2. faults' = 0 => Filling'
    BY <1>i, <2>1 DEF FillInv, Filling, AllDefaults
  <2> QED
    BY <1>i, <1>s, <2>2 DEF FillInv, Seeds
<1>2. ASSUME NEW n \in Nodes, LockPart(n) PROVE FillInv'
  BY <1>2, <1>i, LockPartQuiet DEF LockPart, Ahead
<1>3. ASSUME NEW n \in Nodes, CountUsers(n) PROVE FillInv'
  <2>1. /\ users' = users /\ faults' = faults /\ at' = [at EXCEPT ![n] = 1]
        /\ seed' = [seed EXCEPT ![n] = IF Cardinality(users) < 2 THEN "find" ELSE "serving"]
        /\ seed[n] = "idle"
    BY <1>3 DEF CountUsers, vars
  <2>2. \A m \in Nodes : Ahead(m) => Ahead(m)'
    BY <1>s, <2>1 DEF Ahead, Seeds, FillInv
  <2>3. Filling => Filling'
    BY <2>1, <2>2 DEF Filling, AllDefaults
  <2>4. seed'[n] = "serving" => users # {}
    BY <1>s, <2>1, FS_EmptySet
  <2> QED
    BY <1>s, <2>1, <2>3, <2>4, UpTo DEF FillInv, Seeds
<1>4. ASSUME NEW n \in Nodes, FindUser(n) PROVE FillInv'
  <2>1. users' = users /\ faults' = faults /\ Seeds(n) /\ seed[n] = "find" /\ at[n] \in 1 .. Len(Defaults)
    BY <1>4 DEF FindUser, vars, Seeds, FillInv
  <2>2. CASE Defaults[at[n]] \in users
    <3>1. Advance(n) /\ users' = users \cup {Defaults[at[n]]}
      BY <1>4, <2>1, <2>2 DEF FindUser
    <3>2. \A m \in Nodes \ {n} : Ahead(m) => Ahead(m)'
      BY <1>s, <2>1, <3>1 DEF Ahead, Seeds, Advance, FillInv
    <3>3. Ahead(n) => users' = Prefix(at[n] + 1)
      BY <2>1, <3>1, UpTo DEF Ahead
    <3>4. faults = 0 => users' = AllDefaults \/ users' = Prefix(at[n] + 1) \/ \E m \in Nodes \ {n} : Ahead(m)'
      BY <2>1, <2>2, <3>2, <3>3 DEF FillInv, Filling
    <3> QED
      BY <2>1, <3>1, <3>4, AdvanceFills
  <2>3. CASE Defaults[at[n]] \notin users
    <3>1. seed' = [seed EXCEPT ![n] = "save"] /\ at' = at
      BY <1>4, <2>3 DEF FindUser
    <3>2. \A m \in Nodes : Ahead(m) => Ahead(m)'
      BY <1>s, <2>1, <2>3, <3>1 DEF Ahead, Seeds
    <3>3. Filling => Filling'
      BY <2>1, <3>2 DEF Filling, AllDefaults
    <3> QED
      BY <1>s, <2>1, <3>1, <3>3 DEF FillInv, Seeds
  <2> QED
    BY <2>2, <2>3
<1>5. ASSUME NEW n \in Nodes, SaveUser(n) PROVE FillInv'
  <2>1. Seeds(n) /\ seed[n] = "save" /\ at[n] \in 1 .. Len(Defaults) /\ Prefix(at[n]) \subseteq users /\ faults' = faults
    BY <1>5 DEF SaveUser, vars, Seeds, FillInv
  <2>2. CASE Defaults[at[n]] \in users
    BY <1>5, <1>i, <2>1, <2>2 DEF SaveUser, Ahead
  <2>3. CASE Defaults[at[n]] \notin users
    <3>1. Advance(n) /\ users' = users \cup {Defaults[at[n]]}
      BY <1>5, <2>3 DEF SaveUser
    <3>2. ASSUME NEW m \in Nodes, Ahead(m) PROVE users = Prefix(at[n])
      <4>1. users = Prefix(at[m]) /\ at[m] \in 1 .. Len(Defaults)
        BY <3>2 DEF Ahead, FillInv
      <4>2. at[m] <= at[n]
        BY <2>1, <2>3, <4>1, UpTo
      <4>3. Prefix(at[m]) \subseteq Prefix(at[n])
        BY <2>1, <4>1, <4>2, UpTo
      <4> QED
        BY <2>1, <4>1, <4>3
    <3>3. users # AllDefaults
      BY <2>1, <2>3, UpTo
    <3>4. faults = 0 => users = Prefix(at[n])
      BY <2>1, <3>2, <3>3 DEF FillInv, Filling
    <3>5. faults = 0 => users' = Prefix(at[n] + 1)
      BY <2>1, <3>1, <3>4, UpTo
    <3> QED
      BY <2>1, <3>1, <3>5, AdvanceFills
  <2> QED
    BY <2>2, <2>3
<1>6. ASSUME NEW n \in Nodes, SeedFails(n) PROVE FillInv'
  <2>1. faults' = faults + 1 /\ users' = users /\ at' = at /\ seed' = [seed EXCEPT ![n] = "idle"]
    BY <1>6 DEF SeedFails, Fault
  <2>2. faults' # 0
    BY <1>0, <2>1
  <2> QED
    BY <1>i, <2>1, <2>2
<1> QED
  BY <1>1, <1>2, <1>3, <1>4, <1>5, <1>6 DEF BootNext, SeedStep

(* FaultFreeBootSeeds: however many nodes boot at once and fail each         *)
(* other's saves, without a fault the accounts get complete.                *)
THEOREM SeedingIsComplete == BootSpec => []FaultFreeBootSeeds
<1>1. BootInit => FillInv
  BY DEF BootInit, FillInv, Seeds, Filling
<1>2. BootInv /\ FillInv /\ [BootNext]_bootVars => FillInv'
  BY FillStep
<1>3. FillInv => FaultFreeBootSeeds
  BY DEF FillInv, Filling, Ahead, Seeds, FaultFreeBootSeeds, FirstBootSeeds, Serving, Seeding
<1> QED
  BY <1>1, <1>2, <1>3, BootInvariant, PTL DEF BootSpec
==============================================================================
