---------------------------- MODULE ChangeLogLock ----------------------------
(***************************************************************************)
(* The changelog lock under which a booting node upgrades the schema:      *)
(* DatabaseUpdater.init, LiquibaseEx.update, LockServiceEx.waitForLock,    *)
(* acquireLock and releaseLock, and the SQL of the lock statement.         *)
(*                                                                         *)
(* Every node is one process; pc names the next database call it makes.    *)
(* owner is the committed content of row 1 of DATABASECHANGELOGLOCK: the   *)
(* LOCKEDBY of a locked row, NoNode for an unlocked one.  writer is the    *)
(* transaction that has updated the row and not ended yet, and so keeps    *)
(* every other UPDATE of it waiting.                                       *)
(***************************************************************************)
EXTENDS Integers

CONSTANTS
  Nodes,        \* the servers that share one database
  NoNode,       \* stands for "nobody"
  LastChange,   \* number of change sets in db.changelog.xml
  MaxAttempts,  \* rechecks that fit in changeLogLockWaitTime
  MaxFaults     \* bound on crashes and database errors

ASSUME NodesAssumption == NoNode \notin Nodes
ASSUME BoundsAssumption ==
  /\ LastChange \in Nat
  /\ MaxAttempts \in Nat \ {0}
  /\ MaxFaults \in Nat

VARIABLES
  table,     \* the lock table exists
  owner,     \* who holds the committed row lock
  writer,    \* who has an uncommitted update of the row
  ran,       \* change sets recorded in DATABASECHANGELOG
  executed,  \* how often each change set was executed
  lostMark,  \* change sets executed, then not recorded because of an error
  pc,        \* the next step of each node
  attempts,  \* failed attempts of waitForLock
  hasLock,   \* LockServiceEx.hasChangeLogLock
  todo,      \* change sets the node's iterator still has to run
  outcome,   \* how the boot ends once the lock is released
  faults     \* crashes and database errors so far

dbVars   == <<table, owner, writer, ran, executed, lostMark>>
nodeVars == <<pc, attempts, hasLock, todo, outcome>>
vars     == <<dbVars, nodeVars, faults>>

ChangeSets == 1 .. LastChange

Off      == {"down", "failed"}
Waiting  == {"check", "create", "select", "update", "commit", "wait"}
Critical == {"open", "apply", "mark", "release", "unlockCommit"}
Pcs      == Off \cup Waiting \cup Critical \cup {"up"}

Init ==
  /\ table \in BOOLEAN
  /\ owner = NoNode
  /\ writer = NoNode
  /\ ran = {}
  /\ executed = [c \in ChangeSets |-> 0]
  /\ lostMark = {}
  /\ pc = [n \in Nodes |-> "down"]
  /\ attempts = [n \in Nodes |-> 0]
  /\ hasLock = [n \in Nodes |-> FALSE]
  /\ todo = [n \in Nodes |-> {}]
  /\ outcome = [n \in Nodes |-> "failed"]
  /\ faults = 0

Goto(n, label) == pc' = [pc EXCEPT ![n] = label]

(* A step that goes wrong spends one of the faults. *)
Fault ==
  /\ faults < MaxFaults
  /\ faults' = faults + 1

------------------------------------------------------------------------------
(* DatabaseUpdater.init: a new connection, hence a new LockServiceEx. *)
Boot(n) ==
  /\ pc[n] \in Off
  /\ Goto(n, "check")
  /\ attempts' = [attempts EXCEPT ![n] = 0]
  /\ hasLock' = [hasLock EXCEPT ![n] = FALSE]
  /\ outcome' = [outcome EXCEPT ![n] = "failed"]
  /\ UNCHANGED <<dbVars, todo, faults>>

(* acquireLock begins: checkDatabaseChangeLogLockTable looks for the table. *)
CheckTable(n) ==
  /\ pc[n] = "check"
  /\ Goto(n, IF table THEN "select" ELSE "create")
  /\ UNCHANGED <<dbVars, attempts, hasLock, todo, outcome, faults>>

(* ... and creates it with its one unlocked row. The statement fails, and  *)
(* with it the boot, when another node created the table in between.       *)
CreateTable(n) ==
  /\ pc[n] = "create"
  /\ table' = TRUE
  /\ Goto(n, IF table THEN "failed" ELSE "select")
  /\ UNCHANGED <<owner, writer, ran, executed, lostMark>>
  /\ UNCHANGED <<attempts, hasLock, todo, outcome, faults>>

(* SELECT LOCKED reads what is committed. *)
SelectLocked(n) ==
  /\ pc[n] = "select"
  /\ Goto(n, IF owner = NoNode THEN "update" ELSE "wait")
  /\ UNCHANGED <<dbVars, attempts, hasLock, todo, outcome, faults>>

(* Mutant: the statement of plain Liquibase, WHERE ID = 1 alone. *)
UpdateRow_NoRecheck(n) ==
  /\ pc[n] = "update"
  /\ writer = NoNode
  /\ writer' = n
  /\ Goto(n, "commit")
  /\ UNCHANGED <<table, owner, ran, executed, lostMark>>
  /\ UNCHANGED <<attempts, hasLock, todo, outcome, faults>>

(* UPDATE ... SET LOCKED = TRUE WHERE ID = 1 AND LOCKED = FALSE waits for   *)
(* the transaction that has the row, then reads it again; no updated row   *)
(* means "another node was faster".                                        *)
UpdateRow(n) ==
  /\ pc[n] = "update"
  /\ writer = NoNode
  /\ IF owner = NoNode
       THEN writer' = n /\ Goto(n, "commit")
       ELSE UNCHANGED writer /\ Goto(n, "wait")
  /\ UNCHANGED <<table, owner, ran, executed, lostMark>>
  /\ UNCHANGED <<attempts, hasLock, todo, outcome, faults>>

CommitLock(n) ==
  /\ pc[n] = "commit"
  /\ owner' = n
  /\ writer' = NoNode
  /\ hasLock' = [hasLock EXCEPT ![n] = TRUE]
  /\ Goto(n, "open")
  /\ UNCHANGED <<table, ran, executed, lostMark>>
  /\ UNCHANGED <<attempts, todo, outcome, faults>>

(* The commit throws: rolled back, or done by the database and only the    *)
(* answer lost. Either way LockException ends the boot, outside the try    *)
(* block that would release the lock.                                      *)
CommitLockFails(n) ==
  /\ pc[n] = "commit"
  /\ Fault
  /\ owner' \in {NoNode, n}
  /\ writer' = NoNode
  /\ Goto(n, "failed")
  /\ UNCHANGED <<table, ran, executed, lostMark>>
  /\ UNCHANGED <<attempts, hasLock, todo, outcome>>

(* Mutant: timeToGiveUp is computed again in every round. *)
Recheck_Restarts(n) ==
  /\ pc[n] = "wait"
  /\ Goto(n, "check")
  /\ UNCHANGED <<dbVars, attempts, hasLock, todo, outcome, faults>>

(* waitForLock after a failed attempt: sleep and try again, or give up.    *)
Recheck(n) ==
  /\ pc[n] = "wait"
  /\ attempts[n] + 1 < MaxAttempts
  /\ attempts' = [attempts EXCEPT ![n] = @ + 1]
  /\ Goto(n, "check")
  /\ UNCHANGED <<dbVars, hasLock, todo, outcome, faults>>

(* Mutant: waitForLock is called inside the try block. *)
GiveUp_Releases(n) ==
  /\ pc[n] = "wait"
  /\ attempts[n] + 1 >= MaxAttempts
  /\ Goto(n, "release")
  /\ UNCHANGED <<dbVars, attempts, hasLock, todo, outcome, faults>>

GiveUp(n) ==
  /\ pc[n] = "wait"
  /\ attempts[n] + 1 >= MaxAttempts
  /\ Goto(n, "failed")
  /\ UNCHANGED <<dbVars, attempts, hasLock, todo, outcome, faults>>

------------------------------------------------------------------------------
(* The body of update: ShouldRunChangeSetFilter reads what has run. *)
OpenChangeLog(n) ==
  /\ pc[n] = "open"
  /\ todo' = [todo EXCEPT ![n] = ChangeSets \ ran]
  /\ Goto(n, "apply")
  /\ UNCHANGED <<dbVars, attempts, hasLock, outcome, faults>>

First(S) == {c \in S : \A d \in S : c <= d}

(* UpdateVisitor.visit executes and commits a change set, then records it. *)
Execute(n) ==
  /\ pc[n] = "apply"
  /\ \E c \in First(todo[n]) : executed' = [executed EXCEPT ![c] = @ + 1]
  /\ Goto(n, "mark")
  /\ UNCHANGED <<table, owner, writer, ran, lostMark>>
  /\ UNCHANGED <<attempts, hasLock, todo, outcome, faults>>

MarkRan(n) ==
  /\ pc[n] = "mark"
  /\ \E c \in First(todo[n]) :
       /\ ran' = ran \cup {c}
       /\ todo' = [todo EXCEPT ![n] = @ \ {c}]
  /\ Goto(n, "apply")
  /\ UNCHANGED <<table, owner, writer, executed, lostMark>>
  /\ UNCHANGED <<attempts, hasLock, outcome, faults>>

(* Mutant: an early return when nothing is left to run. *)
Finish_NoRelease(n) ==
  /\ pc[n] = "apply"
  /\ todo[n] = {}
  /\ outcome' = [outcome EXCEPT ![n] = "up"]
  /\ Goto(n, "up")
  /\ UNCHANGED <<dbVars, attempts, hasLock, todo, faults>>

Finish(n) ==
  /\ pc[n] = "apply"
  /\ todo[n] = {}
  /\ outcome' = [outcome EXCEPT ![n] = "up"]
  /\ Goto(n, "release")
  /\ UNCHANGED <<dbVars, attempts, hasLock, todo, faults>>

(* Mutant: the failure of one change set is logged and the next one runs. *)
UpdateFails_Skips(n) ==
  /\ pc[n] = "mark"
  /\ Fault
  /\ todo' = [todo EXCEPT ![n] = @ \ First(@)]
  /\ Goto(n, "apply")
  /\ UNCHANGED <<dbVars, attempts, hasLock, outcome>>

(* Mutant: the exception of the body is swallowed with that of the release. *)
UpdateFails_BootsAnyway(n) ==
  /\ pc[n] \in {"open", "apply", "mark"}
  /\ Fault
  /\ outcome' = [outcome EXCEPT ![n] = "up"]
  /\ Goto(n, "release")
  /\ UNCHANGED <<dbVars, attempts, hasLock, todo>>

(* Parsing, validation or a change set throws: the finally block releases  *)
(* the lock, then the exception ends the boot.                             *)
UpdateFails(n) ==
  /\ pc[n] \in {"open", "apply", "mark"}
  /\ Fault
  /\ lostMark' = IF pc[n] = "mark" THEN lostMark \cup First(todo[n]) ELSE lostMark
  /\ Goto(n, "release")
  /\ UNCHANGED <<table, owner, writer, ran, executed>>
  /\ UNCHANGED <<attempts, hasLock, todo, outcome>>

------------------------------------------------------------------------------
(* releaseLock: rollback, then an UPDATE that does not look at LOCKEDBY. *)
Unlock(n) ==
  /\ pc[n] = "release"
  /\ writer = NoNode
  /\ writer' = n
  /\ Goto(n, "unlockCommit")
  /\ UNCHANGED <<table, owner, ran, executed, lostMark>>
  /\ UNCHANGED <<attempts, hasLock, todo, outcome, faults>>

CommitUnlock(n) ==
  /\ pc[n] = "unlockCommit"
  /\ owner' = NoNode
  /\ writer' = NoNode
  /\ hasLock' = [hasLock EXCEPT ![n] = FALSE]
  /\ Goto(n, outcome[n])
  /\ UNCHANGED <<table, ran, executed, lostMark>>
  /\ UNCHANGED <<attempts, todo, outcome, faults>>

(* releaseLock throws: update only logs it and the boot ends as it would   *)
(* have; the database may have done the commit whose answer was lost.      *)
UnlockFails(n) ==
  /\ pc[n] \in {"release", "unlockCommit"}
  /\ Fault
  /\ owner' \in IF pc[n] = "release" THEN {owner} ELSE {owner, NoNode}
  /\ writer' = IF pc[n] = "release" THEN writer ELSE NoNode
  /\ Goto(n, outcome[n])
  /\ UNCHANGED <<table, ran, executed, lostMark>>
  /\ UNCHANGED <<attempts, hasLock, todo, outcome>>

------------------------------------------------------------------------------
(* Mutant: the lock is the session's and ends with its connection. *)
Crash_FreesLock(n) ==
  /\ pc[n] \notin Off
  /\ Fault
  /\ writer' = IF writer = n THEN NoNode ELSE writer
  /\ owner' = IF owner = n THEN NoNode ELSE owner
  /\ hasLock' = [hasLock EXCEPT ![n] = FALSE]
  /\ Goto(n, "down")
  /\ UNCHANGED <<table, ran, executed, lostMark>>
  /\ UNCHANGED <<attempts, todo, outcome>>

(* The process dies; the database rolls back its open transaction. *)
Crash(n) ==
  /\ pc[n] \notin Off
  /\ Fault
  /\ writer' = IF writer = n THEN NoNode ELSE writer
  /\ hasLock' = [hasLock EXCEPT ![n] = FALSE]
  /\ Goto(n, "down")
  /\ UNCHANGED <<table, owner, ran, executed, lostMark>>
  /\ UNCHANGED <<attempts, todo, outcome>>

(* An orderly shutdown of a running node. *)
Stop(n) ==
  /\ pc[n] = "up"
  /\ Goto(n, "down")
  /\ UNCHANGED <<dbVars, attempts, hasLock, todo, outcome, faults>>

(* What a booting node does when nothing goes wrong. *)
Step(n) ==
  \/ CheckTable(n) \/ CreateTable(n) \/ SelectLocked(n) \/ UpdateRow(n)
  \/ CommitLock(n) \/ Recheck(n) \/ GiveUp(n)
  \/ OpenChangeLog(n) \/ Execute(n) \/ MarkRan(n) \/ Finish(n)
  \/ Unlock(n) \/ CommitUnlock(n)

Failure(n) ==
  \/ CommitLockFails(n) \/ UpdateFails(n) \/ UnlockFails(n) \/ Crash(n)

Next == \E n \in Nodes : Boot(n) \/ Step(n) \/ Failure(n) \/ Stop(n)

Spec == Init /\ [][Next]_vars

(* A live process goes on, and the database grants a row lock to an UPDATE  *)
(* that waits for it, however often others take the row in between. Nothing *)
(* makes a node boot, stop or fail.                                         *)
FairSpec ==
  /\ Spec
  /\ \A n \in Nodes : WF_vars(Step(n)) /\ SF_vars(UpdateRow(n))

------------------------------------------------------------------------------
TypeOK ==
  /\ table \in BOOLEAN
  /\ owner \in Nodes \cup {NoNode}
  /\ writer \in Nodes \cup {NoNode}
  /\ ran \subseteq ChangeSets
  /\ executed \in [ChangeSets -> Nat]
  /\ lostMark \subseteq ChangeSets
  /\ pc \in [Nodes -> Pcs]
  /\ attempts \in [Nodes -> 0 .. MaxAttempts - 1]
  /\ hasLock \in [Nodes -> BOOLEAN]
  /\ todo \in [Nodes -> SUBSET ChangeSets]
  /\ outcome \in [Nodes -> {"up", "failed"}]
  /\ faults \in 0 .. MaxFaults

(* Two nodes never upgrade the schema at the same time: the body of        *)
(* LiquibaseEx.update runs on one node only, from the commit that acquires *)
(* the lock to the commit that releases it.                                *)
MutualExclusion ==
  \A m, n \in Nodes : pc[m] \in Critical /\ pc[n] \in Critical => m = n

(* While a node upgrades, the row is locked in its name and nothing another *)
(* node does, finishing, failing or dying, clears or replaces it, although  *)
(* the UPDATE of releaseLock never looks at who holds the lock.             *)
HolderOwnsRow ==
  \A n \in Nodes : pc[n] \in Critical => owner = n /\ hasLock[n]

(* No change set is executed twice, whoever crashes in between, unless the  *)
(* database refused to record it after it was executed: then the finally    *)
(* block frees the lock and the next boot runs it again.                    *)
ExecutedOnce == \A c \in ChangeSets : executed[c] > 1 => c \in lostMark

(* A change set is executed only when all its predecessors are recorded.    *)
InOrder ==
  \A c \in ChangeSets : executed[c] > 0 => \A d \in ChangeSets : d < c => d \in ran

(* A node that comes up serves a fully upgraded schema: an update that      *)
(* failed half way never lets the boot go on, whatever the finally block    *)
(* swallows.                                                                *)
UpIsUpgraded == \A n \in Nodes : pc[n] = "up" => ran = ChangeSets

(* A locked row whose owner no longer upgrades was left there by a crash or *)
(* by a failed commit, never by a path update takes by itself.              *)
LeakNeedsFault ==
  owner # NoNode /\ pc[owner] \notin Critical => faults > 0

(* Nothing takes a left-over lock away, not even a reboot of the node named *)
(* in it: forceReleaseLock and reset have no caller.                        *)
OrphanStays ==
  [][owner # NoNode /\ pc[owner] \notin Critical => owner' = owner]_vars

(* The upgrade as seen by its users is serial and in order. *)
Serial == INSTANCE SerialUpgrade WITH upgrading <- {n \in Nodes : pc[n] \in Critical}
ImplementsSerialUpgrade == Serial!Spec

(* A booting node never waits for ever: it comes up, fails or dies. *)
BootEnds == \A n \in Nodes : pc[n] = "check" ~> pc[n] \in Off \cup {"up"}

(* Without a fault the lock is always given back. *)
LockHandedBack == \A n \in Nodes : owner = n ~> owner # n \/ faults > 0
==============================================================================
