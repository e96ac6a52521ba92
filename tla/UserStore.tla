------------------------------ MODULE UserStore ------------------------------
(***************************************************************************)
(* One user account of a cluster: its row of NUSER, the cache "users" of    *)
(* every node, and the web requests that look the account up, log in to it, *)
(* change it, delete it and create it (UserService, UserController, the     *)
(* login filter).                                                          *)
(*                                                                         *)
(* A request has one persistence context for its whole life (the            *)
(* OpenEntityManagerInViewFilter comes before every other filter), rows are *)
(* written as a whole and carry no version, and the cache holds references: *)
(* what a request changes in an entity it put into the cache is seen by     *)
(* everyone.  heap holds the two User objects a request may load: <<r, 1>>  *)
(* by getUserById, <<r, 2>> by a later query.                               *)
(*                                                                         *)
(* A column is the name of the request whose value it holds.  A general      *)
(* user's edit submits a profile, any other edit a role too, a login a       *)
(* language.                                                               *)
(***************************************************************************)
EXTENDS Integers, FiniteSets

CONSTANTS
  Nodes,
  Requests,      \* each is one web request and the value it submits
  Initial,       \* what the account was created with
  NoRow,         \* no such row, and the null of a query that found none
  Absent,        \* no entry in the cache
  MaxFaults      \* bound on crashes, failed commits and lost invalidations

ASSUME Names ==
  /\ Initial \notin Requests
  /\ NoRow \notin [id : Nat, role : Requests \cup {Initial}, profile : Requests \cup {Initial},
                   lang : Requests \cup {Initial}]
  /\ Absent \notin Requests \X {1, 2}
ASSUME Params == MaxFaults \in Nat

Values == Requests \cup {Initial}
Rows == [id : Nat, role : Values, profile : Values, lang : Values]
Objects == Requests \X {1, 2}

\* view: a page or a check that calls getUserById; profile: an edit of the own
\* account by a general user, one whose session has Role.USER; edit: any other, an
\* administrator's of any account or a super or system user's of the own, for whom
\* UserController:138 leaves the role as submitted.
Kinds == {"view", "login", "profile", "edit", "delete", "create"}
Cached == {"view", "login", "profile"}                \* kinds that call getUserById
Evicting == {"profile", "edit", "delete", "create"}  \* kinds with @CacheEvict

VARIABLES
  row,       \* the committed row
  lastId,    \* the last generated id
  cache,     \* what the cache of a node refers to
  heap,      \* the User objects
  pc,        \* what a request does next
  kind,      \* what a request is
  where,     \* the node it runs on
  inside,    \* the cache is evicted inside the transaction, before its commit
  user,      \* what getUserById returned to it
  grant,     \* the role it will merge into the row
  target,    \* the object it will write
  todo,      \* the nodes whose cache it has still to evict
  faults     \* faults so far

data == <<row, lastId, cache, heap>>
request == <<pc, kind, where, inside, user, grant, target, todo>>
\* History, for the properties only.
VARIABLES
  latest,      \* the row if every column were what was last submitted for it
  granted,     \* the roles that requests which may submit one have committed
  overlapped,  \* a row was written while another writer had read it, or a writer
               \* read the cache while the entry was about to be evicted
  outdated     \* requests whose entry of a cache has been overwritten in the row
               \* and will not be evicted for that
history == <<latest, granted, overlapped, outdated>>
vars == <<data, request, faults, history>>

\* The cache interceptor evicts when the method it wraps has returned.  Spring 3.1
\* gives it the precedence of the transaction interceptor, so which of the two wraps
\* the other is up to the order their definitions are found in.
BeforeCommit(k) == IF inside /\ k \in Evicting THEN "evict" ELSE "commit"
AfterCommit(k) == IF ~inside /\ k \in Evicting THEN "evict" ELSE "done"

First == [id |-> 1, role |-> Initial, profile |-> Initial, lang |-> Initial]

Init ==
  /\ row = First /\ lastId = 1
  /\ inside \in BOOLEAN
  /\ cache = [n \in Nodes |-> Absent]
  /\ heap = [o \in Objects |-> NoRow]
  /\ kind \in [Requests -> Kinds] /\ where \in [Requests -> Nodes]
  /\ pc = [r \in Requests |-> IF kind[r] \in Cached THEN "lookup"
                              ELSE IF kind[r] = "create" THEN BeforeCommit("create") ELSE "load"]
  /\ user = [r \in Requests |-> <<r, 1>>]
  /\ target = [r \in Requests |-> <<r, 2>>]
  /\ grant = [r \in Requests |-> r]
  /\ todo = [r \in Requests |-> Nodes]
  /\ faults = 0
  /\ latest = First /\ granted = {Initial} /\ overlapped = FALSE /\ outdated = {}

Goto(r, label) == pc' = [pc EXCEPT ![r] = label]

(***************************************************************************)
(* UserService.getUserById, cached.                                        *)
(***************************************************************************)

\* A request that has written, or is about to, and has not evicted the cache of n.
ToEvict(q, n) == pc[q] = "evict" /\ n \in todo[q]

\* What a request does with the user it got: a login without one is refused, and
\* so is a general user's edit, which takes the role from it (UserController:138-147).
Got(r, o, u) ==
  /\ user' = [user EXCEPT ![r] = o]
  /\ Goto(r, IF kind[r] = "view" THEN "done" ELSE IF u = NoRow THEN "refused" ELSE "load")
  /\ grant' = IF kind[r] = "profile" /\ u # NoRow THEN [grant EXCEPT ![r] = u.role] ELSE grant

Hit(r) ==
  /\ pc[r] = "lookup"
  /\ cache[where[r]] # Absent
  /\ Got(r, cache[where[r]], heap[cache[where[r]]])
  /\ overlapped' = (overlapped \/ (kind[r] # "view" /\ \E q \in Requests : ToEvict(q, where[r])))
  /\ UNCHANGED <<data, kind, where, inside, target, todo, faults, latest, granted, outdated>>

Miss(r) ==
  /\ pc[r] = "lookup"
  /\ cache[where[r]] = Absent
  /\ heap' = [heap EXCEPT ![<<r, 1>>] = row]
  /\ Goto(r, "put")
  /\ UNCHANGED <<row, lastId, cache, kind, where, inside, user, grant, target, todo, faults, history>>

Put(r) ==
  /\ pc[r] = "put"
  /\ cache' = [cache EXCEPT ![where[r]] = <<r, 1>>]
  /\ Got(r, <<r, 1>>, heap[<<r, 1>>])
  /\ UNCHANGED <<row, lastId, heap, kind, where, inside, target, todo, faults, history>>

(***************************************************************************)
(* Loading the entity and changing it in memory.                           *)
(***************************************************************************)

\* The login filter queries the user by its name.  The query answers with the
\* entity the context holds already, as old as it is; without a row the user of
\* the principal is taken.  Language and time zone are set on it.
LoginTarget(r) ==
  IF row = NoRow \/ (user[r] = <<r, 1>> /\ heap[<<r, 1>>].id = row.id)
  THEN user[r] ELSE <<r, 2>>

LoginLoad(r) ==
  /\ pc[r] = "load" /\ kind[r] = "login"
  /\ LET o == LoginTarget(r)
         u == IF o = <<r, 2>> THEN row ELSE heap[o]
     IN /\ target' = [target EXCEPT ![r] = o]
        /\ heap' = [heap EXCEPT ![o] = [u EXCEPT !.lang = r]]
  /\ Goto(r, "commit")
  /\ UNCHANGED <<row, lastId, cache, kind, where, inside, user, grant, todo, faults, history>>

(* Mutant: null columns of the form are merged too. *)
Merge_Nulls(r, o, u) ==
  /\ target' = [target EXCEPT ![r] = o]
  /\ heap' = [heap EXCEPT ![o] = [u EXCEPT !.role = grant[r], !.profile = r, !.lang = Initial]]
  /\ Goto(r, BeforeCommit(kind[r]))

\* modifyUser: findOne by the id of the form, answered by the context when the
\* entity is managed, then BaseEntity.merge of the submitted columns.
Merge(r, o, u) ==
  /\ target' = [target EXCEPT ![r] = o]
  /\ heap' = [heap EXCEPT ![o] = [u EXCEPT !.role = grant[r], !.profile = r]]
  /\ Goto(r, BeforeCommit(kind[r]))

ProfileLoad(r) ==
  /\ pc[r] = "load" /\ kind[r] = "profile"
  /\ LET u == heap[user[r]]
     IN IF user[r] = <<r, 1>> THEN Merge(r, <<r, 1>>, u)
        ELSE IF row # NoRow /\ row.id = u.id THEN Merge(r, <<r, 2>>, row)
        ELSE Goto(r, "refused") /\ UNCHANGED <<heap, target>>
  /\ UNCHANGED <<row, lastId, cache, kind, where, inside, user, grant, todo, faults, history>>

(* Mutant: modifyUser takes the user from the cache. *)
EditLoad_FromCache(r) ==
  /\ pc[r] = "load" /\ kind[r] = "edit"
  /\ LET o == cache[where[r]]
     IN IF o # Absent /\ heap[o] # NoRow THEN Merge(r, o, heap[o])
        ELSE Goto(r, "refused") /\ UNCHANGED <<heap, target>>
  /\ UNCHANGED <<row, lastId, cache, kind, where, inside, user, grant, todo, faults, history>>

\* The form, or the session of who edits the own account, may be of an earlier row.
EditLoad(r) ==
  /\ pc[r] = "load" /\ kind[r] = "edit"
  /\ \E id \in 1..lastId :
       IF row # NoRow /\ row.id = id THEN Merge(r, <<r, 2>>, row)
       ELSE Goto(r, "refused") /\ UNCHANGED <<heap, target>>
  /\ UNCHANGED <<row, lastId, cache, kind, where, inside, user, grant, todo, faults, history>>

\* deleteUsers calls its own getUserById, past the cache.
DeleteLoad(r) ==
  /\ pc[r] = "load" /\ kind[r] = "delete"
  /\ IF row = NoRow THEN Goto(r, "refused") /\ UNCHANGED heap
     ELSE /\ heap' = [heap EXCEPT ![<<r, 2>>] = row]
          /\ Goto(r, BeforeCommit("delete"))
  /\ UNCHANGED <<row, lastId, cache, kind, where, inside, user, grant, target, todo, faults, history>>

(***************************************************************************)
(* Flush and commit.                                                       *)
(***************************************************************************)

\* The statement finds the row it is for: by its id, or, for an insert, none.
RowIsThere(r) == row # NoRow /\ row.id = heap[target[r]].id
Inserts(r) == kind[r] = "create" \/ target[r][1] # r
Possible(r) == IF Inserts(r) THEN row = NoRow ELSE RowIsThere(r)

\* A writer other than r that has read the row and not yet written it.
HasRead(q) == \/ pc[q] \in {"put", "load"} /\ kind[q] \in {"login", "profile"}
              \/ pc[q] = "commit" /\ kind[q] # "create"
              \/ pc[q] = "evict" /\ inside /\ kind[q] # "create"

InCache(q) == \E n \in Nodes : cache[n] = <<q, 1>>

Written(r) ==
  /\ pc[r] = "commit" /\ Possible(r)
  /\ Goto(r, AfterCommit(kind[r]))
  /\ overlapped' = (overlapped \/ \E q \in Requests \ {r} : HasRead(q))
  /\ outdated' = outdated \cup {q \in Requests : pc[q] = "put" \/ (inside /\ InCache(q))}
  /\ UNCHANGED <<cache, heap, kind, where, inside, user, grant, target, todo, faults>>

Submitted(r) ==
  [latest EXCEPT !.lang = IF kind[r] = "login" THEN r ELSE @,
                 !.profile = IF kind[r] = "login" THEN @ ELSE r,
                 !.role = IF kind[r] = "edit" THEN r ELSE @]

\* UPDATE of all columns.
Update(r) ==
  /\ Written(r) /\ ~Inserts(r) /\ kind[r] # "delete"
  /\ row' = heap[target[r]]
  /\ latest' = IF latest = NoRow THEN NoRow ELSE Submitted(r)
  /\ granted' = IF kind[r] = "edit" THEN granted \cup {r} ELSE granted
  /\ UNCHANGED lastId

Delete(r) ==
  /\ Written(r) /\ kind[r] = "delete"
  /\ row' = NoRow /\ latest' = NoRow
  /\ UNCHANGED <<lastId, granted>>

\* saveUser of a new user.
Create(r) ==
  /\ Written(r) /\ kind[r] = "create"
  /\ lastId' = lastId + 1
  /\ row' = [id |-> lastId + 1, role |-> r, profile |-> r, lang |-> Initial]
  /\ latest' = row' /\ granted' = granted \cup {r}

\* The login of a user whose row is gone: the principal came from the cache, and
\* merging that detached object inserts it as a new row.
Reinsert(r) ==
  /\ Written(r) /\ kind[r] = "login" /\ Inserts(r)
  /\ lastId' = lastId + 1
  /\ row' = [heap[target[r]] EXCEPT !.id = lastId + 1]
  /\ UNCHANGED <<latest, granted>>

\* The statement finds no row, or a row that should not be there, or the database
\* fails; the transaction is rolled back and nothing more is evicted.
CommitFails(r) ==
  /\ pc[r] = "commit"
  /\ Possible(r) => faults < MaxFaults
  /\ faults' = IF Possible(r) THEN faults + 1 ELSE faults
  /\ Goto(r, "failed")
  /\ UNCHANGED <<data, kind, where, inside, user, grant, target, todo, history>>

(***************************************************************************)
(* The cache.                                                              *)
(***************************************************************************)

(* Mutant: the eviction is not replicated. *)
AfterEvict_LocalOnly(r, m) ==
  /\ todo' = [todo EXCEPT ![r] = {}]
  /\ Goto(r, IF inside THEN "commit" ELSE "done")

AfterEvict(r, m) ==
  /\ todo' = [todo EXCEPT ![r] = @ \ {m}]
  /\ pc' = IF todo[r] # {m} THEN pc
           ELSE [pc EXCEPT ![r] = IF inside THEN "commit" ELSE "done"]

\* The local cache drops the entry, then the replicator tells the peers one by one.
Evict(r, m) ==
  /\ pc[r] = "evict" /\ m \in todo[r]
  /\ where[r] \in todo[r] => m = where[r]
  /\ cache' = [cache EXCEPT ![m] = Absent]
  /\ AfterEvict(r, m)
  /\ UNCHANGED <<row, lastId, heap, kind, where, inside, user, grant, target, faults, history>>

\* A peer cannot be reached; the replicator only logs it.
EvictLost(r, m) ==
  /\ pc[r] = "evict" /\ m \in todo[r] /\ where[r] \notin todo[r]
  /\ faults < MaxFaults /\ faults' = faults + 1
  /\ AfterEvict(r, m)
  /\ UNCHANGED <<data, kind, where, inside, user, grant, target, history>>

\* The time to live of an entry is over, or the cache is full.
Expire(n) ==
  /\ cache[n] # Absent
  /\ cache' = [cache EXCEPT ![n] = Absent]
  /\ UNCHANGED <<row, lastId, heap, request, faults, history>>

Finished == {"done", "refused", "failed"}

Crash(n) ==
  /\ faults < MaxFaults /\ faults' = faults + 1
  /\ cache' = [cache EXCEPT ![n] = Absent]
  /\ pc' = [r \in Requests |-> IF where[r] = n /\ pc[r] \notin Finished THEN "failed" ELSE pc[r]]
  /\ UNCHANGED <<row, lastId, heap, kind, where, inside, user, grant, target, todo, history>>

Step(r) ==
  \/ Hit(r) \/ Miss(r) \/ Put(r)
  \/ LoginLoad(r) \/ ProfileLoad(r) \/ EditLoad(r) \/ DeleteLoad(r)
  \/ Update(r) \/ Delete(r) \/ Create(r) \/ Reinsert(r) \/ CommitFails(r)
  \/ \E m \in Nodes : Evict(r, m) \/ EvictLost(r, m)

Next == (\E r \in Requests : Step(r)) \/ (\E n \in Nodes : Expire(n) \/ Crash(n))

Spec == Init /\ [][Next]_vars
------------------------------------------------------------------------------
\* Every variable keeps its type.
TypeOK ==
  /\ row \in Rows \cup {NoRow} /\ lastId \in Nat /\ inside \in BOOLEAN
  /\ cache \in [Nodes -> Objects \cup {Absent}]
  /\ heap \in [Objects -> Rows \cup {NoRow}]
  /\ pc \in [Requests -> {"lookup", "put", "load", "commit", "evict"} \cup Finished]
  /\ kind \in [Requests -> Kinds] /\ where \in [Requests -> Nodes]
  /\ user \in [Requests -> Objects] /\ target \in [Requests -> Objects]
  /\ grant \in [Requests -> Values]
  /\ todo \in [Requests -> SUBSET Nodes]
  /\ faults \in 0..MaxFaults
  /\ latest \in Rows \cup {NoRow}
  /\ granted \subseteq Values /\ overlapped \in BOOLEAN /\ outdated \subseteq Requests

\* Roles in the row and in the caches were committed by a request that may submit
\* one, a creation or an edit by somebody other than a general user: no general
\* user's edit or login, no edit that fails or is under way and no stale cache
\* brings another one in, although entities are changed in memory before they are
\* committed.
RolesWereGranted ==
  /\ row # NoRow => row.role \in granted
  /\ \A n \in Nodes : cache[n] # Absent /\ heap[cache[n]] # NoRow => heap[cache[n]].role \in granted

\* Nobody wrote what another writer had read, nothing failed, and no fill of a
\* cache was overtaken by a write.
Undisturbed == ~overlapped /\ faults = 0 /\ outdated = {}

\* Undisturbed writers lose nothing: every column holds what was last submitted
\* for it, and the row is there or gone as was last asked for.
NothingLost == Undisturbed => row = latest

\* u says what the row says, but for the language, which logins write past the cache.
SameAccount(u, v) ==
  u = v \/ (u # NoRow /\ v # NoRow /\ u.id = v.id /\ u.role = v.role /\ u.profile = v.profile)

\* An entry of a cache that differs from the row is about to be evicted, or was
\* outdated when it was put, or is changed by a writer who has not committed.
CacheIsRow ==
  ~inside /\ ~overlapped /\ faults = 0 /\ row = latest => \A n \in Nodes :
    \/ cache[n] = Absent
    \/ SameAccount(heap[cache[n]], row)
    \/ cache[n][1] \in outdated
    \/ cache[n][2] = 1 /\ pc[cache[n][1]] \in {"commit", "failed"}
    \/ \E r \in Requests : ToEvict(r, n)

\* UserController: "General user can not change their role."  What a general user
\* submits leaves the role of the row as it is.
GeneralUserKeepsRole ==
  [][\A r \in Requests : kind[r] = "profile" /\ Update(r) => row'.role = row.role]_vars
==============================================================================
