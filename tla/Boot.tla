--------------------------------- MODULE Boot ---------------------------------
(***************************************************************************)
(* The boot of a node as a whole: the schema upgrade of ChangeLogLock, then *)
(* DBInit.createDefaultUserIfNecessary, which no lock protects.  The bean   *)
(* factory runs DBInit after DatabaseUpdater because the entity manager     *)
(* depends on it (DatabaseConfig.emf).                                      *)
(*                                                                         *)
(* users is the content of NUSER: the ids of the accounts.  The change set *)
(* of db.changelog_schema_*.xml drops that table before it creates it.     *)
(***************************************************************************)
EXTENDS ChangeLogLock, Sequences, FiniteSets, SequencesExt

CONSTANT Defaults  \* the default accounts, in the order init creates them

ASSUME DefaultsAssumption == Defaults \in Seq(ToSet(Defaults)) /\ Defaults # <<>>

VARIABLES
  users,  \* the accounts of NUSER
  seed,   \* what DBInit does on each node
  at      \* the position of Defaults it has come to

seedVars == <<users, seed, at>>
bootVars == <<vars, seedVars>>

AllDefaults == ToSet(Defaults)

BootInit ==
  /\ Init
  /\ users = {}
  /\ seed = [n \in Nodes |-> "idle"]
  /\ at = [n \in Nodes |-> 1]

(* A step of the upgrade; executing the change set empties NUSER.           *)
LockPart(n) ==
  /\ Boot(n) \/ Step(n) \/ Failure(n) \/ (seed[n] = "serving" /\ Stop(n))
  /\ users' = IF executed' = executed THEN users ELSE {}
  /\ seed' = [seed EXCEPT ![n] = "idle"]
  /\ UNCHANGED at

(* Mutant: DatabaseUpdater logs the exception of the upgrade and goes on. *)
CountUsers_AnyOutcome(n) ==
  /\ pc[n] \in {"up", "failed"}
  /\ seed[n] = "idle"
  /\ seed' = [seed EXCEPT ![n] = IF Cardinality(users) < 2 THEN "find" ELSE "serving"]
  /\ at' = [at EXCEPT ![n] = 1]
  /\ UNCHANGED <<users, vars>>

(* userRepository.count() < 2 decides whether anything is created.          *)
CountUsers(n) ==
  /\ pc[n] = "up"
  /\ seed[n] = "idle"
  /\ seed' = [seed EXCEPT ![n] = IF Cardinality(users) < 2 THEN "find" ELSE "serving"]
  /\ at' = [at EXCEPT ![n] = 1]
  /\ UNCHANGED <<users, vars>>

(* Mutant: the last account is forgotten. *)
Advance_StopsEarly(n) ==
  /\ at' = [at EXCEPT ![n] = @ + 1]
  /\ seed' = [seed EXCEPT ![n] = IF at[n] + 1 < Len(Defaults) THEN "find" ELSE "serving"]

(* createUser: on to the next account, or the end of init. *)
Advance(n) ==
  /\ at' = [at EXCEPT ![n] = @ + 1]
  /\ seed' = [seed EXCEPT ![n] = IF at[n] < Len(Defaults) THEN "find" ELSE "serving"]

FindUser(n) ==
  /\ seed[n] = "find"
  /\ IF Defaults[at[n]] \in users
       THEN Advance(n)
       ELSE seed' = [seed EXCEPT ![n] = "save"] /\ UNCHANGED at
  /\ UNCHANGED <<users, vars>>

(* userRepository.save in a transaction of its own. When another node was   *)
(* faster, the unique key of USER_ID fails the save and with it the boot.   *)
SaveUser(n) ==
  /\ seed[n] = "save"
  /\ IF Defaults[at[n]] \in users
       THEN /\ seed' = [seed EXCEPT ![n] = "idle"]
            /\ Goto(n, "failed")
            /\ UNCHANGED <<users, at, dbVars, attempts, hasLock, todo, outcome, faults>>
       ELSE /\ users' = users \cup {Defaults[at[n]]}
            /\ Advance(n)
            /\ UNCHANGED vars

(* A database error in DBInit ends the boot. *)
SeedFails(n) ==
  /\ seed[n] \in {"find", "save"}
  /\ Fault
  /\ seed' = [seed EXCEPT ![n] = "idle"]
  /\ Goto(n, "failed")
  /\ UNCHANGED <<users, at, dbVars, attempts, hasLock, todo, outcome>>

SeedStep(n) == CountUsers(n) \/ FindUser(n) \/ SaveUser(n)

BootNext == \E n \in Nodes : LockPart(n) \/ SeedStep(n) \/ SeedFails(n)

BootSpec == BootInit /\ [][BootNext]_bootVars

BootFairSpec ==
  /\ BootSpec
  /\ \A n \in Nodes :
       /\ WF_bootVars((Step(n) /\ LockPart(n)) \/ SeedStep(n))
       /\ SF_bootVars(UpdateRow(n) /\ LockPart(n))

------------------------------------------------------------------------------
BootTypeOK ==
  /\ TypeOK
  /\ users \subseteq AllDefaults
  /\ seed \in [Nodes -> {"idle", "find", "save", "serving"}]
  /\ at \in [Nodes -> 1 .. Len(Defaults) + 1]
  /\ \A n \in Nodes : seed[n] \in {"find", "save"} => at[n] <= Len(Defaults)

(* DBInit works on a fully upgraded schema only, also when other nodes fail *)
(* or die half way through theirs.                                          *)
SchemaBeforeAccounts ==
  (users # {} \/ \E n \in Nodes : seed[n] # "idle") => ran = ChangeSets

(* No boot, first or later, ever runs the change set that drops NUSER while *)
(* it holds accounts.                                                       *)
AccountsNeverWiped == [][users \subseteq users']_users

Seeding == \E n \in Nodes : seed[n] \in {"find", "save"}
Serving == \E n \in Nodes : seed[n] = "serving"

(* "When the first boot-up, some data(ex: user account) should be inserted  *)
(* into DB" (DBInit): once a node serves and none is creating accounts, all *)
(* default accounts are there.                                              *)
FirstBootSeeds == Serving /\ ~Seeding => users = AllDefaults

(* The same as long as no node dies or meets a database error, however many *)
(* nodes boot at once and fail each other's saves.                          *)
FaultFreeBootSeeds == faults = 0 => FirstBootSeeds

(* Without a fault, an empty table that a node starts to fill is filled.    *)
SeedingCompletes == Seeding ~> users = AllDefaults \/ faults > 0
==============================================================================
