--------------------------- MODULE UserStoreProofs ---------------------------
(***************************************************************************)
(* What the requests of UserStore keep true of the account, what writers    *)
(* that are not disturbed keep of it, and what the caches hold, for any     *)
(* number of nodes, requests and faults.                                    *)
(***************************************************************************)
EXTENDS UserStore, TLAPS

Writers == {"login", "profile", "edit", "delete"}

\* Who refers to which object, and which objects hold a row.
References ==
  /\ \A n \in Nodes : cache[n] # Absent => cache[n][2] = 1
  /\ \A r \in Requests :
       /\ user[r][2] = 1
       /\ target[r][2] = 2 => target[r] = <<r, 2>>
       /\ kind[r] \in {"edit", "delete", "create"} => target[r] = <<r, 2>>
       /\ pc[r] = "lookup" => heap[<<r, 1>>] = NoRow
       /\ pc[r] = "load" /\ kind[r] \in {"login", "profile"} => heap[user[r]] # NoRow
       /\ pc[r] \in {"commit", "evict"} /\ kind[r] \in Writers => heap[target[r]] # NoRow

\* Where a role that was not committed may be: in the entity that the edit which
\* submits it is changing, and which no cache refers to.
Roles ==
  /\ row # NoRow => row.role \in granted
  /\ \A o \in Objects : heap[o] # NoRow =>
       \/ heap[o].role \in granted
       \/ o[2] = 2 /\ kind[o[1]] = "edit" /\ heap[o].role = o[1]
  /\ \A r \in Requests :
       /\ kind[r] = "edit" => grant[r] = r
       /\ kind[r] = "profile" /\ pc[r] \in {"load", "commit", "evict"} => grant[r] \in granted

UserInv == TypeOK /\ References /\ Roles

\* A commit changes the row, the history and the place of its request only.
LEMMA WrittenFrame ==
  ASSUME TypeOK, NEW r \in Requests, Written(r)
  PROVE  /\ UNCHANGED <<cache, heap, kind, where, inside, user, grant, target, todo, faults>>
         /\ pc[r] = "commit"
         /\ pc' \in [Requests -> {"lookup", "put", "load", "commit", "evict"} \cup Finished]
         /\ \A q \in Requests : pc'[q] = pc[q] \/ (q = r /\ pc'[q] \in {"evict", "done"})
         /\ overlapped' \in BOOLEAN /\ outdated' \subseteq Requests
  BY DEF Written, AfterCommit, Finished, Goto, TypeOK

\* An entity is loaded into one of the request's own objects, or into the one its
\* user is, and changed there.
LEMMA LoadKeeps ==
  ASSUME UserInv, NEW r \in Requests, NEW o \in Objects, NEW u \in Rows,
         NEW l \in {"commit", "evict"},
         pc[r] = "load", kind[r] \in Writers,
         o = <<r, 2>> \/ (o = user[r] /\ kind[r] \in {"login", "profile"}),
         u.role \in granted \/ (kind[r] = "edit" /\ o = <<r, 2>> /\ u.role = r),
         heap' = [heap EXCEPT ![o] = u],
         target' = [target EXCEPT ![r] = o],
         pc' = [pc EXCEPT ![r] = l],
         UNCHANGED <<row, lastId, cache, kind, where, inside, user, grant, todo, faults, history>>
  PROVE  UserInv'
<1> USE DEF history
<1>1. TypeOK'
  BY DEF UserInv, TypeOK
<1>2. \/ o = <<r, 2>> /\ o[2] = 2
      \/ o[2] = 1 /\ heap[o] # NoRow
  <2>1. CASE o = <<r, 2>>
    BY <2>1
  <2>2. CASE o = user[r] /\ kind[r] \in {"login", "profile"}
    BY <2>2 DEF UserInv, References
  <2> QED
    BY <2>1, <2>2
<1>3. u # NoRow
  BY Names DEF Rows, Values
<1>4. \A p \in Objects : heap'[p] = IF p = o THEN u ELSE heap[p]
  BY DEF UserInv, TypeOK
<1>5. \A q \in Requests : /\ pc'[q] = IF q = r THEN l ELSE pc[q]
                          /\ target'[q] = IF q = r THEN o ELSE target[q]
  BY DEF UserInv, TypeOK
<1>6. \A q \in Requests : <<q, 1>> \in Objects /\ user[q] \in Objects /\ target[q] \in Objects
  BY DEF UserInv, TypeOK, Objects
<1>7. References'
  <2>1. \A q \in Requests : pc'[q] = "lookup" => heap'[<<q, 1>>] = NoRow
    BY <1>2, <1>4, <1>5, <1>6 DEF UserInv, References
  <2>2. ASSUME NEW q \in Requests, pc'[q] = "load", kind[q] \in {"login", "profile"}
        PROVE  heap'[user[q]] # NoRow
    <3>0. pc[q] = "load"
      BY <1>5, <2>2
    <3>1. heap[user[q]] # NoRow
      BY <2>2, <3>0 DEF UserInv, References
    <3> QED
      BY <1>3, <1>4, <1>6, <3>1
  <2>3. ASSUME NEW q \in Requests, pc'[q] \in {"commit", "evict"}, kind[q] \in Writers
        PROVE  heap'[target'[q]] # NoRow
    <3>1. CASE q = r
      BY <1>3, <1>4, <1>5, <3>1
    <3>2. CASE q # r
      <4>1. heap[target[q]] # NoRow
        BY <1>5, <2>3, <3>2 DEF UserInv, References
      <4> QED
        BY <1>3, <1>4, <1>5, <1>6, <3>2, <4>1
    <3> QED
      BY <3>1, <3>2
  <2>4. ASSUME NEW q \in Requests, target'[q][2] = 2
        PROVE  target'[q] = <<q, 2>>
    <3>1. CASE q = r
      BY <1>2, <1>5, <2>4, <3>1
    <3>2. CASE q # r
      <4>1. target'[q] = target[q] /\ target[q][2] = 2
        BY <1>5, <2>4, <3>2
      <4>2. target[q][2] = 2 => target[q] = <<q, 2>>
        BY DEF UserInv, References
      <4> QED
        BY <4>1, <4>2
    <3> QED
      BY <3>1, <3>2
  <2>5. \A q \in Requests : kind[q] \in {"edit", "delete", "create"} => target'[q] = <<q, 2>>
    BY <1>5 DEF UserInv, References
  <2> QED
    BY <2>1, <2>2, <2>3, <2>4, <2>5 DEF UserInv, References
<1>8. Roles'
  <2>1. \A p \in Objects : heap'[p] # NoRow =>
          \/ heap'[p].role \in granted
          \/ p[2] = 2 /\ kind[p[1]] = "edit" /\ heap'[p].role = p[1]
    BY <1>4 DEF UserInv, Roles
  <2>2. \A q \in Requests : kind[q] = "profile" /\ pc'[q] \in {"load", "commit", "evict"} => grant[q] \in granted
    BY <1>5 DEF UserInv, Roles
  <2> QED
    BY <2>1, <2>2 DEF UserInv, Roles
<1> QED
  BY <1>1, <1>7, <1>8 DEF UserInv

\* A request that ends changes nothing the invariant is about.
LEMMA EndKeeps ==
  ASSUME UserInv, NEW r \in Requests, pc' = [pc EXCEPT ![r] = "refused"],
         UNCHANGED <<data, kind, where, inside, user, grant, target, todo, faults, history>>
  PROVE  UserInv'
  BY DEF UserInv, TypeOK, References, Roles, data, history, Finished

\* A commit: the new row has a granted role.
LEMMA CommitKeeps ==
  ASSUME UserInv, NEW r \in Requests, Written(r),
         row' \in Rows \cup {NoRow}, lastId' \in Nat, latest' \in Rows \cup {NoRow},
         granted \subseteq granted', granted' \subseteq Values,
         row' # NoRow => row'.role \in granted'
  PROVE  UserInv'
<1>1. TypeOK'
  BY WrittenFrame DEF UserInv, TypeOK
<1>2. References'
  <2>1. \A q \in Requests : kind[q] \in Writers /\ pc'[q] \in {"commit", "evict"} => heap[target[q]] # NoRow
    BY WrittenFrame DEF UserInv, References
  <2> QED
    BY <2>1, WrittenFrame DEF UserInv, References
<1>3. Roles'
  <2>1. \A q \in Requests : pc'[q] \in {"load", "commit", "evict"} => pc[q] \in {"load", "commit", "evict"}
    BY WrittenFrame DEF UserInv
  <2> QED
    BY <2>1, WrittenFrame DEF UserInv, Roles
<1> QED
  BY <1>1, <1>2, <1>3 DEF UserInv

THEOREM UserInvariant == Spec => []UserInv
<1>1. Init => UserInv
  <2> SUFFICES ASSUME Init PROVE UserInv
    OBVIOUS
  <2> USE DEF Objects, Rows, Values, Finished, Kinds
  <2>1. row \in Rows /\ latest \in Rows
    BY DEF Init, First
  <2>2. /\ pc \in [Requests -> {"lookup", "put", "load", "commit", "evict"} \cup Finished]
        /\ kind \in [Requests -> Kinds] /\ where \in [Requests -> Nodes]
    BY DEF Init, BeforeCommit
  <2>3. /\ user \in [Requests -> Objects] /\ target \in [Requests -> Objects]
        /\ cache \in [Nodes -> Objects \cup {Absent}] /\ heap \in [Objects -> Rows \cup {NoRow}]
    BY DEF Init
  <2>4. TypeOK
    <3>1. grant \in [Requests -> Values] /\ todo \in [Requests -> SUBSET Nodes]
      BY DEF Init
    <3>2. granted \subseteq Values /\ overlapped \in BOOLEAN /\ outdated \subseteq Requests
      BY DEF Init
    <3>3. lastId \in Nat /\ faults \in 0..MaxFaults /\ inside \in BOOLEAN
      BY Params DEF Init
    <3> HIDE DEF Objects, Rows, Values, Kinds
    <3> QED
      BY <2>1, <2>2, <2>3, <3>1, <3>2, <3>3 DEF TypeOK
  <2>5. References
    BY Names DEF Init, BeforeCommit, Cached, Evicting, References, Writers
  <2>6. Roles
    BY Names DEF Init, BeforeCommit, Cached, Evicting, Roles, First
  <2> QED
    BY <2>4, <2>5, <2>6 DEF UserInv
<1>2. UserInv /\ [Next]_vars => UserInv'
  <2> SUFFICES ASSUME UserInv, [Next]_vars PROVE UserInv'
    OBVIOUS
  <2>1. ASSUME NEW r \in Requests, Hit(r) PROVE UserInv'
    <3> USE <2>1 DEF Hit, Got, Finished, Kinds, Goto, data, request, history, Objects, Rows, Values
    <3>1. TypeOK'
      BY Names, Params DEF UserInv, TypeOK
    <3>2. References'
      BY <3>1, Names DEF UserInv, TypeOK, References, Writers
    <3>3. Roles'
      BY <3>1, <3>2, Names DEF UserInv, TypeOK, References, Roles
    <3> QED
      BY <3>1, <3>2, <3>3 DEF UserInv
  <2>2. ASSUME NEW r \in Requests, Miss(r) PROVE UserInv'
    <3> USE <2>2 DEF Miss, Finished, Kinds, Goto, data, request, history, Objects, Rows, Values
    <3>1. TypeOK'
      BY Names, Params DEF UserInv, TypeOK
    <3>2. References'
      BY <3>1, Names DEF UserInv, TypeOK, References, Writers
    <3>3. Roles'
      BY <3>1, <3>2, Names DEF UserInv, TypeOK, References, Roles
    <3> QED
      BY <3>1, <3>2, <3>3 DEF UserInv
  <2>3. ASSUME NEW r \in Requests, Put(r) PROVE UserInv'
    <3> USE <2>3 DEF Put, Got, Finished, Kinds, Goto, data, request, history, Objects, Rows, Values
    <3>1. TypeOK'
      BY Names, Params DEF UserInv, TypeOK
    <3>2. References'
      BY <3>1, Names DEF UserInv, TypeOK, References, Writers
    <3>3. Roles'
      BY <3>1, <3>2, Names DEF UserInv, TypeOK, References, Roles
    <3> QED
      BY <3>1, <3>2, <3>3 DEF UserInv
  <2>4. ASSUME NEW r \in Requests, CommitFails(r) PROVE UserInv'
    <3> USE <2>4 DEF CommitFails, Finished, Kinds, Goto, data, request, history, Objects, Rows, Values
    <3>1. TypeOK'
      BY Names, Params DEF UserInv, TypeOK
    <3>2. References'
      BY <3>1, Names DEF UserInv, TypeOK, References, Writers
    <3>3. Roles'
      BY <3>1, <3>2, Names DEF UserInv, TypeOK, References, Roles
    <3> QED
      BY <3>1, <3>2, <3>3 DEF UserInv
  <2>5. ASSUME NEW r \in Requests, NEW m \in Nodes, Evict(r, m) PROVE UserInv'
    <3> USE <2>5 DEF Evict, AfterEvict, Finished, Kinds, Goto, data, request, history, Objects, Rows, Values
    <3>1. TypeOK'
      BY Names, Params DEF UserInv, TypeOK
    <3>2. References'
      BY <3>1, Names DEF UserInv, TypeOK, References, Writers
    <3>3. Roles'
      BY <3>1, <3>2, Names DEF UserInv, TypeOK, References, Roles
    <3> QED
      BY <3>1, <3>2, <3>3 DEF UserInv
  <2>6. ASSUME NEW r \in Requests, NEW m \in Nodes, EvictLost(r, m) PROVE UserInv'
    <3> USE <2>6 DEF EvictLost, AfterEvict, Finished, Kinds, Goto, data, request, history, Objects, Rows, Values
    <3>1. TypeOK'
      BY Names, Params DEF UserInv, TypeOK
    <3>2. References'
      BY <3>1, Names DEF UserInv, TypeOK, References, Writers
    <3>3. Roles'
      BY <3>1, <3>2, Names DEF UserInv, TypeOK, References, Roles
    <3> QED
      BY <3>1, <3>2, <3>3 DEF UserInv
  <2>7. ASSUME NEW n \in Nodes, Expire(n) PROVE UserInv'
    <3> USE <2>7 DEF Expire, Finished, Kinds, Goto, data, request, history, Objects, Rows, Values
    <3>1. TypeOK'
      BY Names, Params DEF UserInv, TypeOK
    <3>2. References'
      BY <3>1, Names DEF UserInv, TypeOK, References, Writers
    <3>3. Roles'
      BY <3>1, <3>2, Names DEF UserInv, TypeOK, References, Roles
    <3> QED
      BY <3>1, <3>2, <3>3 DEF UserInv
  <2>8. ASSUME NEW n \in Nodes, Crash(n) PROVE UserInv'
    <3> USE <2>8 DEF Crash, Finished, Kinds, Goto, data, request, history, Objects, Rows, Values
    <3>1. TypeOK'
      BY Names, Params DEF UserInv, TypeOK
    <3>2. References'
      BY <3>1, Names DEF UserInv, TypeOK, References, Writers
    <3>3. Roles'
      BY <3>1, <3>2, Names DEF UserInv, TypeOK, References, Roles
    <3> QED
      BY <3>1, <3>2, <3>3 DEF UserInv
  <2>9. ASSUME NEW r \in Requests, LoginLoad(r) PROVE UserInv'
    <3> DEFINE o == LoginTarget(r)
               u == [(IF o = <<r, 2>> THEN row ELSE heap[o]) EXCEPT !.lang = r]
    <3>1. o \in Objects /\ (o = <<r, 2>> \/ o = user[r])
      BY DEF LoginTarget, UserInv, TypeOK, Objects
    <3>2. o # <<r, 2>> => heap[o] # NoRow /\ heap[o] \in Rows
      BY <2>9, <3>1 DEF LoginLoad, UserInv, TypeOK, References
    <3>3. o = <<r, 2>> => row # NoRow /\ row \in Rows
      BY <2>9 DEF LoginTarget, UserInv, TypeOK, References, LoginLoad
    <3>4. u \in Rows
      BY <3>2, <3>3 DEF Rows, Values
    <3>5. u.role \in granted
      <4>1. o[2] # 2 \/ o = <<r, 2>>
        <5>1. user[r][2] = 1
          BY DEF UserInv, References
        <5> HIDE DEF o
        <5> QED
          BY <3>1, <5>1
      <4>2. o # <<r, 2>> => heap[o].role \in granted
        BY <4>1, <3>1, <3>2, <2>9 DEF UserInv, Roles, LoginLoad
      <4> QED
        BY <4>2, <3>2, <3>3 DEF UserInv, Roles, Rows
    <3> HIDE DEF o, u
    <3>6. heap' = [heap EXCEPT ![o] = u] /\ target' = [target EXCEPT ![r] = o]
      BY <2>9 DEF LoginLoad, o, u
    <3> QED
      BY <2>9, <3>1, <3>4, <3>5, <3>6, LoadKeeps DEF LoginLoad, Goto, Writers
  <2>10. ASSUME NEW r \in Requests, NEW o \in Objects, NEW u \in Rows, Merge(r, o, u),
                pc[r] = "load", kind[r] \in {"profile", "edit"}, u.role \in granted,
                o = <<r, 2>> \/ (o = user[r] /\ kind[r] = "profile"),
                UNCHANGED <<row, lastId, cache, kind, where, inside, user, grant, todo, faults, history>>
         PROVE  UserInv'
    <3> DEFINE v == [u EXCEPT !.role = grant[r], !.profile = r]
    <3>1. v \in Rows /\ v.role = grant[r]
      BY DEF Rows, Values, UserInv, TypeOK
    <3>2. v.role \in granted \/ (kind[r] = "edit" /\ o = <<r, 2>> /\ v.role = r)
      BY <2>10, <3>1 DEF UserInv, Roles
    <3>3. BeforeCommit(kind[r]) \in {"commit", "evict"}
      BY DEF BeforeCommit
    <3>4. heap' = [heap EXCEPT ![o] = v] /\ target' = [target EXCEPT ![r] = o]
      BY <2>10 DEF Merge
    <3> HIDE DEF v
    <3> QED
      BY <2>10, <3>1, <3>2, <3>3, <3>4, LoadKeeps DEF Merge, Goto, Writers
  <2>11. ASSUME NEW r \in Requests, ProfileLoad(r) PROVE UserInv'
    <3>1. user[r] \in Objects /\ <<r, 2>> \in Objects
      BY DEF UserInv, TypeOK, Objects
    <3>2. heap[user[r]] \in Rows /\ heap[user[r]].role \in granted
      BY <2>11, <3>1 DEF ProfileLoad, UserInv, TypeOK, References, Roles
    <3>3. CASE Merge(r, <<r, 1>>, heap[user[r]]) /\ user[r] = <<r, 1>>
      BY <2>11, <2>10, <3>1, <3>2, <3>3 DEF ProfileLoad
    <3>4. CASE Merge(r, <<r, 2>>, row) /\ row # NoRow
      BY <2>11, <2>10, <3>1, <3>4 DEF ProfileLoad, UserInv, TypeOK, Roles
    <3>5. CASE Goto(r, "refused") /\ UNCHANGED <<heap, target>>
      BY <2>11, <3>5, EndKeeps DEF ProfileLoad, Goto, data
    <3> QED
      BY <2>11, <3>3, <3>4, <3>5 DEF ProfileLoad
  <2>12. ASSUME NEW r \in Requests, EditLoad(r) PROVE UserInv'
    <3>1. <<r, 2>> \in Objects
      BY DEF Objects
    <3>2. CASE Merge(r, <<r, 2>>, row) /\ row # NoRow
      BY <2>12, <2>10, <3>1, <3>2 DEF EditLoad, UserInv, TypeOK, Roles
    <3>3. CASE Goto(r, "refused") /\ UNCHANGED <<heap, target>>
      BY <2>12, <3>3, EndKeeps DEF EditLoad, Goto, data
    <3> QED
      BY <2>12, <3>2, <3>3 DEF EditLoad
  <2>13. ASSUME NEW r \in Requests, DeleteLoad(r) PROVE UserInv'
    <3>1. <<r, 2>> \in Objects /\ target' = [target EXCEPT ![r] = <<r, 2>>]
      BY <2>13 DEF Objects, DeleteLoad, UserInv, TypeOK, References
    <3>2. CASE row = NoRow
      BY <2>13, <3>2, EndKeeps DEF DeleteLoad, Goto, data
    <3>3. CASE row # NoRow
      <4>1. BeforeCommit("delete") \in {"commit", "evict"}
        BY DEF BeforeCommit
      <4>2. row \in Rows /\ row.role \in granted /\ kind[r] \in Writers
        BY <2>13, <3>3 DEF DeleteLoad, UserInv, TypeOK, Roles, Writers
      <4>3. /\ heap' = [heap EXCEPT ![<<r, 2>>] = row]
            /\ pc' = [pc EXCEPT ![r] = BeforeCommit("delete")] /\ pc[r] = "load"
            /\ UNCHANGED <<row, lastId, cache, kind, where, inside, user, grant, todo, faults, history>>
        BY <2>13, <3>3 DEF DeleteLoad, Goto
      <4> QED
        BY <3>1, <4>1, <4>2, <4>3, LoadKeeps
    <3> QED
      BY <3>2, <3>3
  <2>14. ASSUME NEW r \in Requests, Update(r) PROVE UserInv'
    <3>1. target[r] \in Objects /\ target[r][1] = r /\ row # NoRow /\ kind[r] \notin {"delete", "create"}
      BY <2>14 DEF Update, Written, Possible, Inserts, RowIsThere, UserInv, TypeOK
    <3>2. /\ row' \in Rows \cup {NoRow}
          /\ granted \subseteq granted' /\ granted' \subseteq Values
          /\ kind[r] = "edit" => r \in granted'
      BY <2>14, <3>1 DEF Update, UserInv, TypeOK, Values
    <3>3. row' # NoRow => row'.role \in granted'
      BY <2>14, <3>1, <3>2 DEF Update, UserInv, Roles
    <3>4. latest' \in Rows \cup {NoRow} /\ lastId' \in Nat
      BY <2>14 DEF Update, Submitted, UserInv, TypeOK, Rows, Values
    <3> QED
      BY <2>14, <3>2, <3>3, <3>4, CommitKeeps DEF Update
  <2>15. ASSUME NEW r \in Requests, Delete(r) PROVE UserInv'
    BY <2>15, CommitKeeps DEF Delete, UserInv, TypeOK
  <2>16. ASSUME NEW r \in Requests, Create(r) PROVE UserInv'
    <3>1. row' \in Rows /\ row'.role = r /\ lastId' \in Nat
      BY <2>16 DEF Create, UserInv, TypeOK, Rows, Values
    <3> QED
      BY <2>16, <3>1, CommitKeeps DEF Create, UserInv, TypeOK, Values
  <2>17. ASSUME NEW r \in Requests, Reinsert(r) PROVE UserInv'
    <3>1. target[r] \in Objects /\ target[r][1] # r /\ target[r][2] # 2
      <4>1. target[r] \in Objects /\ target[r][1] # r
        BY <2>17 DEF Reinsert, Inserts, UserInv, TypeOK
      <4>2. target[r][2] = 2 => target[r] = <<r, 2>>
        BY DEF UserInv, References
      <4> QED
        BY <4>1, <4>2
    <3>2. heap[target[r]] \in Rows /\ heap[target[r]].role \in granted
      BY <2>17, <3>1 DEF Reinsert, Written, Writers, UserInv, TypeOK, References, Roles
    <3>3. row' \in Rows /\ row'.role \in granted /\ lastId' \in Nat
      BY <2>17, <3>2 DEF Reinsert, Rows, UserInv, TypeOK
    <3> QED
      BY <2>17, <3>3, CommitKeeps DEF Reinsert, UserInv, TypeOK
  <2>18. CASE UNCHANGED vars
    BY <2>18 DEF vars, data, request, history, UserInv, TypeOK, References, Roles
  <2> QED
    BY <2>1, <2>2, <2>3, <2>4, <2>5, <2>6, <2>7, <2>8, <2>9, <2>11, <2>12, <2>13,
       <2>14, <2>15, <2>16, <2>17, <2>18 DEF Next, Step
<1> QED
  BY <1>1, <1>2, PTL DEF Spec

\* The types hold for any number of nodes, requests and faults.
THEOREM TypeCorrect == Spec => []TypeOK
<1>1. UserInv => TypeOK
  BY DEF UserInv
<1> QED
  BY <1>1, UserInvariant, PTL

\* Only roles are stored or cached that a committed creation submitted, or a
\* committed edit by somebody other than a general user (UserController:138), for
\* any number of nodes, requests and faults and either order of eviction.
THEOREM RolesGranted == Spec => []RolesWereGranted
<1>1. UserInv => RolesWereGranted
  <2> SUFFICES ASSUME UserInv, NEW n \in Nodes, cache[n] # Absent, heap[cache[n]] # NoRow
               PROVE heap[cache[n]].role \in granted
    BY DEF UserInv, Roles, RolesWereGranted
  <2>1. cache[n] \in Objects /\ cache[n][2] = 1
    BY DEF UserInv, TypeOK, References
  <2> QED
    BY <2>1 DEF UserInv, Roles
<1> QED
  BY <1>1, UserInvariant, PTL

-----------------------------------------------------------------------------
(* Undisturbed writers, and the caches. *)
\* What writers have read and what the caches hold.  Everything rests on one fact:
\* a row that a request has read and not yet written is still the row, or else
\* overlapped is set.

LookUp == {"login", "profile"}
Writing(r) == pc[r] = "commit" \/ (pc[r] = "evict" /\ inside)

\* The row u with what r changes in it.
Change(r, u) ==
  [u EXCEPT !.lang = IF kind[r] = "login" THEN r ELSE @,
            !.profile = IF kind[r] = "login" THEN @ ELSE r,
            !.role = IF kind[r] = "login" THEN @ ELSE grant[r]]

\* An entry of a cache is an object its request has put there.
Places ==
  /\ \A n \in Nodes, r \in Requests :
       cache[n] = <<r, 1>> => pc[r] \notin {"lookup", "put"} /\ user[r] = <<r, 1>>
  /\ \A r \in Requests : ~inside /\ pc[r] \in {"lookup", "put", "load", "commit"} => todo[r] = Nodes
  /\ \A r \in Requests : pc[r] = "put" => heap[<<r, 1>>] = row \/ r \in outdated
  /\ \A r \in Requests : pc[r] = "evict" => kind[r] \in Evicting
  /\ \A r \in Requests : pc[r] \in {"load", "commit"} => kind[r] # "view"
  /\ row = NoRow => latest = NoRow

\* What a writer has read, and what it will write, as long as writers do not overlap.
Read(r) ==
  /\ pc[r] = "put" /\ kind[r] \in LookUp => heap[<<r, 1>>] = row
  /\ pc[r] = "load" /\ kind[r] \in LookUp /\ user[r] = <<r, 1>> => heap[<<r, 1>>] = row
  /\ Writing(r) /\ kind[r] \in {"login", "profile", "edit"} /\ target[r][1] = r =>
       row # NoRow /\ heap[target[r]] = Change(r, row)
  /\ pc[r] = "commit" /\ kind[r] = "login" /\ user[r] = <<r, 1>> => target[r] = <<r, 1>>
Reads == ~overlapped /\ faults = 0 => \A r \in Requests : Read(r)

\* u is the account v with the same role, though perhaps with another profile.
Alike(u, v) == u = v \/ (u # NoRow /\ v # NoRow /\ u.id = v.id /\ u.role = v.role)

\* Undisturbed requests find the role of the row in the caches, but for entries
\* that are about to be evicted and which no writer hits.
Calm ==
  Undisturbed =>
    /\ row = latest
    /\ \A n \in Nodes :
         \/ cache[n] = Absent
         \/ Alike(heap[cache[n]], row)
         \/ ~inside /\ \E q \in Requests : ToEvict(q, n)
    /\ \A r \in Requests :
         /\ pc[r] = "load" /\ kind[r] \in LookUp => row # NoRow
         /\ kind[r] = "profile" /\ (pc[r] = "load" \/ Writing(r)) => grant[r] = row.role
         /\ kind[r] = "login" /\ pc[r] = "commit" => target[r][1] = r

\* The entries CacheIsRow allows.  They also hold when the row is not latest, but
\* for an account that was deleted and then inserted again by a login.
Explained(n) ==
  \/ cache[n] = Absent
  \/ SameAccount(heap[cache[n]], row)
  \/ cache[n][1] \in outdated
  \/ pc[cache[n][1]] \in {"commit", "failed"}
  \/ \E r \in Requests : ToEvict(r, n)
Entries ==
  ~inside /\ ~overlapped /\ faults = 0 /\ (row = NoRow \/ latest # NoRow) =>
    \A n \in Nodes : Explained(n)

KeptInv == Places /\ Reads /\ Calm /\ Entries

------------------------------------------------------------------------------
\* The objects of a request.
LEMMA Own ==
  ASSUME TypeOK, NEW r \in Requests
  PROVE  /\ <<r, 1>> \in Objects /\ <<r, 2>> \in Objects /\ user[r] \in Objects /\ target[r] \in Objects
         /\ target[r][1] = r => target[r] \in {<<r, 1>>, <<r, 2>>}
         /\ \A q \in Requests \ {r}, i, j \in {1, 2} : <<r, i>> # <<q, j>>
         /\ <<r, 1>> # <<r, 2>>
BY DEF TypeOK, Objects

\* What a cache refers to.
LEMMA Cached1 ==
  ASSUME TypeOK, References, NEW n \in Nodes, cache[n] # Absent
  PROVE  \E q \in Requests : cache[n] = <<q, 1>> /\ cache[n][1] = q
BY DEF TypeOK, References, Objects

\* What a request has read stays as long as it and its objects do.
LEMMA ReadKeeps ==
  ASSUME TypeOK, NEW q \in Requests, Read(q), UNCHANGED <<row, kind, inside>>,
         pc'[q] = pc[q], user'[q] = user[q], target'[q] = target[q], grant'[q] = grant[q],
         heap'[<<q, 1>>] = heap[<<q, 1>>], heap'[<<q, 2>>] = heap[<<q, 2>>]
  PROVE  Read(q)'
BY Own DEF Read, Change, Writing

\* A request without a part in the account says nothing of it.
LEMMA ReadIdle ==
  ASSUME NEW q \in Requests, pc'[q] \notin {"put", "load", "commit", "evict"}
  PROVE  Read(q)'
BY DEF Read, Writing

\* Of a step that leaves row and objects where they are, only the caches and the
\* request itself are to be looked at.
LEMMA QuietStep ==
  ASSUME UserInv, KeptInv, NEW r \in Requests,
         UNCHANGED <<row, heap, kind, inside, target, faults, latest, outdated>>,
         \A q \in Requests \ {r} : pc'[q] = pc[q] /\ user'[q] = user[q] /\ grant'[q] = grant[q],
         overlapped => overlapped',
         ~overlapped' /\ faults = 0 => Read(r)'
  PROVE  Reads'
<1> SUFFICES ASSUME ~overlapped', faults = 0, NEW q \in Requests PROVE Read(q)'
  BY DEF Reads
<1>1. CASE q = r
  BY <1>1
<1>2. CASE q # r
  BY <1>2, ReadKeeps DEF UserInv, KeptInv, Reads
<1> QED
  BY <1>1, <1>2

\* A hit refers to the entry of another request, whose role is that of the row.
LEMMA HitKeeps == ASSUME UserInv, KeptInv, NEW r \in Requests, Hit(r) PROVE KeptInv'
<1> DEFINE o == cache[where[r]]
<1>1. /\ pc[r] = "lookup" /\ o # Absent /\ where[r] \in Nodes
      /\ user' = [user EXCEPT ![r] = o]
      /\ pc' = [pc EXCEPT ![r] = IF kind[r] = "view" THEN "done" ELSE IF heap[o] = NoRow THEN "refused" ELSE "load"]
      /\ grant' = IF kind[r] = "profile" /\ heap[o] # NoRow THEN [grant EXCEPT ![r] = heap[o].role] ELSE grant
      /\ overlapped' = (overlapped \/ (kind[r] # "view" /\ \E q \in Requests : ToEvict(q, where[r])))
      /\ UNCHANGED <<row, lastId, cache, heap, kind, where, inside, target, todo, faults, latest, granted, outdated>>
  BY DEF Hit, Got, Goto, data, UserInv, TypeOK
<1>2. o # <<r, 1>>
  BY <1>1 DEF KeptInv, Places
<1>3. /\ \A q \in Requests \ {r} : pc'[q] = pc[q] /\ user'[q] = user[q] /\ grant'[q] = grant[q]
      /\ pc'[r] \in {"done", "refused", "load"} /\ user'[r] = o
      /\ pc'[r] = "load" => kind[r] # "view" /\ heap[o] # NoRow
      /\ pc'[r] = "load" /\ kind[r] = "profile" => grant'[r] = heap[o].role
  BY <1>1 DEF UserInv, TypeOK
<1> HIDE DEF o
<1>4. Places'
  <2>1. \A n \in Nodes : cache[n] # <<r, 1>>
    BY <1>1 DEF KeptInv, Places
  <2> QED
    BY <1>1, <1>3, <2>1 DEF KeptInv, Places
<1>5. Reads'
  <2>1. Read(r)'
    BY <1>1, <1>2, <1>3 DEF Read, Writing
  <2> QED
    BY <1>1, <1>3, <2>1, QuietStep
<1>6. \A q \in Requests, n \in Nodes : ToEvict(q, n) => ToEvict(q, n)'
  BY <1>1, <1>3 DEF ToEvict
<1>7. Calm'
  <2> SUFFICES ASSUME Undisturbed' PROVE Calm'
    BY DEF Calm
  <2>1. Undisturbed /\ (kind[r] # "view" => ~\E q \in Requests : ToEvict(q, where[r]))
    BY <1>1 DEF Undisturbed
  <2>2. kind[r] # "view" => Alike(heap[o], row)
    BY <1>1, <2>1 DEF KeptInv, Calm, o
  <2>3. ASSUME NEW q \in Requests
        PROVE  /\ pc'[q] = "load" /\ kind[q] \in LookUp => row # NoRow
               /\ kind[q] = "profile" /\ (pc'[q] = "load" \/ Writing(q)') => grant'[q] = row.role
               /\ kind[q] = "login" /\ pc'[q] = "commit" => target[q][1] = q
    <3>1. CASE q = r
      BY <1>1, <1>3, <2>2, <3>1 DEF Alike, Writing
    <3>2. CASE q # r
      BY <1>1, <1>3, <2>1, <3>2 DEF KeptInv, Calm, Writing
    <3> QED
      BY <3>1, <3>2
  <2> QED
    BY <1>1, <1>6, <2>1, <2>3 DEF KeptInv, Calm, Alike
<1>8. Entries'
  <2> SUFFICES ASSUME ~inside, ~overlapped', faults = 0, row = NoRow \/ latest # NoRow, NEW n \in Nodes
               PROVE  Explained(n)'
    BY <1>1 DEF Entries
  <2>1. Explained(n)
    BY <1>1 DEF KeptInv, Entries
  <2>2. pc[cache[n][1]] \in {"commit", "failed"} => pc'[cache[n][1]] \in {"commit", "failed"}
    BY <1>1 DEF UserInv, TypeOK
  <2> QED
    BY <1>1, <1>6, <2>1, <2>2 DEF Explained, SameAccount
<1> QED
  BY <1>4, <1>5, <1>7, <1>8 DEF KeptInv

\* A miss reads the row into an object no cache refers to.
LEMMA MissKeeps == ASSUME UserInv, KeptInv, NEW r \in Requests, Miss(r) PROVE KeptInv'
<1>1. /\ pc[r] = "lookup" /\ heap' = [heap EXCEPT ![<<r, 1>>] = row] /\ pc' = [pc EXCEPT ![r] = "put"]
      /\ UNCHANGED <<row, lastId, cache, kind, where, inside, user, grant, target, todo, faults,
                     latest, granted, overlapped, outdated>>
  BY DEF Miss, Goto, history
<1>2. /\ \A q \in Requests \ {r} : pc'[q] = pc[q]
      /\ pc'[r] = "put" /\ heap'[<<r, 1>>] = row
      /\ \A p \in Objects \ {<<r, 1>>} : heap'[p] = heap[p]
  BY <1>1, Own DEF UserInv, TypeOK
<1>3. \A n \in Nodes : cache[n] # Absent => cache[n] # <<r, 1>> /\ heap'[cache[n]] = heap[cache[n]]
  BY <1>1, <1>2 DEF KeptInv, Places, UserInv, TypeOK
<1>4. Places'
  <2>1. ASSUME NEW n \in Nodes, NEW q \in Requests, cache[n] = <<q, 1>>
        PROVE  pc'[q] \notin {"lookup", "put"} /\ user'[q] = <<q, 1>>
    <3>1. q # r
      BY <1>1, <2>1 DEF KeptInv, Places
    <3> QED
      BY <1>1, <1>2, <2>1, <3>1 DEF KeptInv, Places
  <2>2. ASSUME NEW q \in Requests, pc'[q] = "put" PROVE heap'[<<q, 1>>] = row \/ q \in outdated
    BY <1>2, <2>2, Own DEF KeptInv, Places, UserInv
  <2>3. \A q \in Requests : pc'[q] \in {"lookup", "put", "load", "commit"} => pc[q] \in {"lookup", "put", "load", "commit"}
    BY <1>1, <1>2
  <2> QED
    BY <1>1, <2>1, <2>2, <2>3 DEF KeptInv, Places
<1>5. Reads'
  <2> SUFFICES ASSUME ~overlapped, faults = 0, NEW q \in Requests PROVE Read(q)'
    BY <1>1 DEF Reads
  <2>1. CASE q = r
    BY <1>1, <1>2, <2>1 DEF Read, Writing
  <2>2. CASE q # r
    BY <1>1, <1>2, <2>2, Own, ReadKeeps DEF UserInv, KeptInv, Reads
  <2> QED
    BY <2>1, <2>2
<1>6. \A q \in Requests, n \in Nodes : ToEvict(q, n) => ToEvict(q, n)'
  BY <1>1, <1>2 DEF ToEvict
<1>7. Calm'
  <2>1. \A q \in Requests : (pc'[q] = "load" => pc[q] = "load") /\ (pc'[q] = "commit" => pc[q] = "commit")
                            /\ (Writing(q)' => Writing(q))
    BY <1>1, <1>2 DEF Writing
  <2> QED
    BY <1>1, <1>3, <1>6, <2>1 DEF KeptInv, Calm, Alike, Undisturbed
<1>8. Entries'
  <2> SUFFICES ASSUME ~inside, ~overlapped, faults = 0, row = NoRow \/ latest # NoRow, NEW n \in Nodes
               PROVE  Explained(n)'
    BY <1>1 DEF Entries
  <2>1. Explained(n)
    BY <1>1 DEF KeptInv, Entries
  <2>2. pc[cache[n][1]] \in {"commit", "failed"} => pc'[cache[n][1]] \in {"commit", "failed"}
    BY <1>1 DEF UserInv, TypeOK
  <2> QED
    BY <1>1, <1>3, <1>6, <2>1, <2>2 DEF Explained, SameAccount
<1> QED
  BY <1>4, <1>5, <1>7, <1>8 DEF KeptInv

\* A put caches the row, or one that has been outdated since it was read.
LEMMA PutKeeps == ASSUME UserInv, KeptInv, NEW r \in Requests, Put(r) PROVE KeptInv'
<1> DEFINE u == heap[<<r, 1>>]
<1>1. /\ pc[r] = "put" /\ cache' = [cache EXCEPT ![where[r]] = <<r, 1>>] /\ where[r] \in Nodes
      /\ user' = [user EXCEPT ![r] = <<r, 1>>]
      /\ pc' = [pc EXCEPT ![r] = IF kind[r] = "view" THEN "done" ELSE IF u = NoRow THEN "refused" ELSE "load"]
      /\ grant' = IF kind[r] = "profile" /\ u # NoRow THEN [grant EXCEPT ![r] = u.role] ELSE grant
      /\ UNCHANGED <<row, lastId, heap, kind, where, inside, target, todo, faults,
                     latest, granted, overlapped, outdated>>
  BY DEF Put, Got, Goto, history, UserInv, TypeOK
<1>3. /\ \A q \in Requests \ {r} : pc'[q] = pc[q] /\ user'[q] = user[q] /\ grant'[q] = grant[q]
      /\ pc'[r] \in {"done", "refused", "load"} /\ user'[r] = <<r, 1>>
      /\ pc'[r] = "load" => kind[r] # "view" /\ u # NoRow
      /\ pc'[r] = "load" /\ kind[r] = "profile" => grant'[r] = u.role
      /\ \A n \in Nodes : cache'[n] = IF n = where[r] THEN <<r, 1>> ELSE cache[n]
  BY <1>1, Own DEF UserInv, TypeOK
<1>4. u = row \/ r \in outdated
  BY <1>1 DEF KeptInv, Places
<1>5. ~overlapped /\ faults = 0 /\ kind[r] \in LookUp => u = row
  BY <1>1 DEF KeptInv, Reads, Read
<1> HIDE DEF u
<1>6. Places'
  <2>1. ASSUME NEW n \in Nodes, NEW q \in Requests, cache'[n] = <<q, 1>>
        PROVE  pc'[q] \notin {"lookup", "put"} /\ user'[q] = <<q, 1>>
    <3>1. CASE q = r
      BY <1>3, <3>1
    <3>2. CASE q # r
      <4>1. cache[n] = <<q, 1>>
        BY <1>3, <2>1, <3>2, Own DEF UserInv
      <4> QED
        BY <1>3, <3>2, <4>1 DEF KeptInv, Places
    <3> QED
      BY <3>1, <3>2
  <2>2. \A q \in Requests : (pc'[q] = "put" => pc[q] = "put") /\ (pc'[q] = "evict" => pc[q] = "evict")
    BY <1>3
  <2>3. \A q \in Requests : pc'[q] \in {"lookup", "put", "load", "commit"} => pc[q] \in {"lookup", "put", "load", "commit"}
    BY <1>1, <1>3
  <2>4. \A q \in Requests : pc'[q] \in {"load", "commit"} => kind[q] # "view"
    BY <1>1, <1>3 DEF KeptInv, Places
  <2> QED
    BY <1>1, <2>1, <2>2, <2>3, <2>4 DEF KeptInv, Places
<1>7. Reads'
  <2>1. ~overlapped /\ faults = 0 => Read(r)'
    BY <1>1, <1>3, <1>5 DEF Read, Writing, u
  <2> QED
    BY <1>1, <1>3, <2>1, QuietStep
<1>8. \A q \in Requests, n \in Nodes : ToEvict(q, n) => ToEvict(q, n)'
  BY <1>1, <1>3 DEF ToEvict
<1>9. Calm'
  <2> SUFFICES ASSUME Undisturbed' PROVE Calm'
    BY DEF Calm
  <2>1. Undisturbed /\ u = row
    BY <1>1, <1>4 DEF Undisturbed
  <2>2. ASSUME NEW q \in Requests
        PROVE  /\ pc'[q] = "load" /\ kind[q] \in LookUp => row # NoRow
               /\ kind[q] = "profile" /\ (pc'[q] = "load" \/ Writing(q)') => grant'[q] = row.role
               /\ kind[q] = "login" /\ pc'[q] = "commit" => target[q][1] = q
    <3>1. CASE q = r
      BY <1>1, <1>3, <2>1, <3>1 DEF Writing
    <3>2. CASE q # r
      BY <1>1, <1>3, <2>1, <3>2 DEF KeptInv, Calm, Writing
    <3> QED
      BY <3>1, <3>2
  <2>3. ASSUME NEW n \in Nodes
        PROVE  \/ cache'[n] = Absent \/ Alike(heap[cache'[n]], row)
               \/ (~inside /\ \E q \in Requests : ToEvict(q, n)')
    <3>1. CASE n = where[r]
      BY <1>3, <2>1, <3>1 DEF Alike, u
    <3>2. CASE n # where[r]
      BY <1>3, <1>8, <2>1, <3>2 DEF KeptInv, Calm
    <3> QED
      BY <3>1, <3>2
  <2> QED
    BY <1>1, <2>1, <2>2, <2>3 DEF KeptInv, Calm, Alike
<1>10. Entries'
  <2> SUFFICES ASSUME ~inside, ~overlapped, faults = 0, row = NoRow \/ latest # NoRow, NEW n \in Nodes
               PROVE  Explained(n)'
    BY <1>1 DEF Entries
  <2>1. CASE n = where[r]
    BY <1>1, <1>3, <1>4, <2>1 DEF Explained, SameAccount, u
  <2>2. CASE n # where[r]
    <3>1. Explained(n) /\ cache'[n] = cache[n]
      BY <1>1, <1>3, <2>2 DEF KeptInv, Entries
    <3>2. pc[cache[n][1]] \in {"commit", "failed"} => pc'[cache[n][1]] \in {"commit", "failed"}
      BY <1>1 DEF UserInv, TypeOK
    <3> QED
      BY <1>1, <1>8, <3>1, <3>2 DEF Explained, SameAccount
  <2> QED
    BY <2>1, <2>2
<1> QED
  BY <1>6, <1>7, <1>9, <1>10 DEF KeptInv

\* Neither a login nor a view evicts anything.
LEMMA EvictsNoLogin ==
  ASSUME KeptInv, NEW r \in Requests, pc[r] = "evict"
  PROVE  kind[r] # "login" /\ kind[r] # "view"
BY DEF KeptInv, Places, Evicting

\* A request ends without having changed anything.
LEMMA EndsQuietly ==
  ASSUME UserInv, KeptInv, NEW r \in Requests, pc[r] \in {"load", "commit"},
         NEW l \in {"refused", "failed"}, pc' = [pc EXCEPT ![r] = l],
         pc[r] = "commit" => l = "failed",
         faults' = 0 => faults = 0,
         UNCHANGED <<row, cache, heap, kind, inside, user, grant, target, todo, history>>
  PROVE  KeptInv'
<1> USE DEF history
<1>1. /\ \A q \in Requests \ {r} : pc'[q] = pc[q]
      /\ pc'[r] = l
  BY DEF UserInv, TypeOK
<1>2. \A q \in Requests : pc'[q] \in {"lookup", "put", "load", "commit", "evict"} => pc'[q] = pc[q]
  BY <1>1
<1>3. Places'
  BY <1>1, <1>2 DEF KeptInv, Places
<1>4. Reads'
  <2> SUFFICES ASSUME ~overlapped, faults = 0, NEW q \in Requests PROVE Read(q)'
    BY DEF Reads
  <2>1. CASE q = r
    BY <1>1, <2>1, ReadIdle
  <2>2. CASE q # r
    BY <1>1, <2>2, ReadKeeps DEF UserInv, KeptInv, Reads
  <2> QED
    BY <2>1, <2>2
<1>5. \A q \in Requests, n \in Nodes : ToEvict(q, n) => ToEvict(q, n)'
  BY <1>1 DEF ToEvict
<1>6. Calm'
  BY <1>2, <1>5 DEF KeptInv, Calm, Alike, Undisturbed, Writing
<1>7. Entries'
  <2> SUFFICES ASSUME ~inside, ~overlapped, faults = 0, row = NoRow \/ latest # NoRow, NEW n \in Nodes
               PROVE  Explained(n)'
    BY DEF Entries
  <2>1. Explained(n)
    BY DEF KeptInv, Entries
  <2>2. pc[cache[n][1]] \in {"commit", "failed"} => pc'[cache[n][1]] \in {"commit", "failed"}
    BY DEF UserInv, TypeOK
  <2> QED
    BY <1>5, <2>1, <2>2 DEF Explained, SameAccount
<1> QED
  BY <1>3, <1>4, <1>6, <1>7 DEF KeptInv

\* A commit that is impossible, or fails.
LEMMA CommitFailsKeeps == ASSUME UserInv, KeptInv, NEW r \in Requests, CommitFails(r) PROVE KeptInv'
<1>1. faults' = 0 => faults = 0
  BY Params DEF CommitFails, UserInv, TypeOK
<1> QED
  BY <1>1, EndsQuietly DEF CommitFails, Goto, data

\* Entries go, and with them the need to evict them.
LEMMA EvictKeeps == ASSUME UserInv, KeptInv, NEW r \in Requests, NEW m \in Nodes, Evict(r, m) PROVE KeptInv'
<1>1. /\ pc[r] = "evict" /\ m \in todo[r] /\ cache' = [cache EXCEPT ![m] = Absent]
      /\ todo' = [todo EXCEPT ![r] = @ \ {m}]
      /\ pc' = IF todo[r] # {m} THEN pc ELSE [pc EXCEPT ![r] = IF inside THEN "commit" ELSE "done"]
      /\ UNCHANGED <<row, lastId, heap, kind, where, inside, user, grant, target, faults,
                     latest, granted, overlapped, outdated>>
  BY DEF Evict, AfterEvict, history
<1>2. /\ \A q \in Requests \ {r} : pc'[q] = pc[q] /\ todo'[q] = todo[q]
      /\ pc'[r] \in {"evict", "commit", "done"} /\ (pc'[r] = "commit" => inside)
      /\ pc'[r] # "evict" => todo[r] = {m}
      /\ todo'[r] = todo[r] \ {m}
      /\ \A n \in Nodes : cache'[n] = IF n = m THEN Absent ELSE cache[n]
  BY <1>1 DEF UserInv, TypeOK
<1>3. Places'
  <2>1. \A n \in Nodes, q \in Requests : cache'[n] = <<q, 1>> => cache[n] = <<q, 1>>
    BY <1>2, Own, Names DEF Objects, UserInv
  <2>2. \A q \in Requests : pc'[q] \in {"lookup", "put", "load"} => pc'[q] = pc[q] /\ q # r
    BY <1>2
  <2>3. \A q \in Requests : pc'[q] \in {"load", "commit"} => kind[q] # "view"
    BY <1>1, <1>2, EvictsNoLogin DEF KeptInv, Places
  <2>4. \A q \in Requests : ~inside /\ pc'[q] \in {"lookup", "put", "load", "commit"} => todo'[q] = Nodes
    BY <1>2 DEF KeptInv, Places
  <2>5. \A n \in Nodes, q \in Requests : cache[n] = <<q, 1>> => pc'[q] \notin {"lookup", "put"} /\ user[q] = <<q, 1>>
    BY <2>2 DEF KeptInv, Places
  <2>6. \A q \in Requests : pc'[q] = "evict" => pc[q] = "evict"
    BY <1>1, <1>2
  <2> QED
    BY <1>1, <2>1, <2>2, <2>3, <2>4, <2>5, <2>6 DEF KeptInv, Places
<1>4. Reads'
  <2>1. ASSUME ~overlapped, faults = 0 PROVE Read(r)'
    <3>1. Writing(r)' => Writing(r)
      BY <1>1, <1>2 DEF Writing
    <3>2. Read(r)
      BY <2>1 DEF KeptInv, Reads
    <3>3. pc'[r] = "commit" => kind[r] # "login"
      BY <1>1, <1>2, EvictsNoLogin
    <3> QED
      BY <1>1, <1>2, <3>1, <3>2, <3>3 DEF Read, Change
  <2> QED
    BY <1>1, <1>2, <2>1, QuietStep
<1>5. \A q \in Requests, n \in Nodes : ToEvict(q, n) /\ n # m => ToEvict(q, n)'
  BY <1>1, <1>2 DEF ToEvict
<1>6. Calm'
  <2>1. \A q \in Requests : /\ pc'[q] = "load" => pc[q] = "load"
                            /\ Writing(q)' => Writing(q)
                            /\ pc'[q] = "commit" /\ kind[q] = "login" => pc[q] = "commit"
    BY <1>1, <1>2, EvictsNoLogin DEF Writing
  <2>2. \A n \in Nodes : n # m => cache'[n] = cache[n]
    BY <1>2
  <2> QED
    BY <1>1, <1>2, <1>5, <2>1, <2>2 DEF KeptInv, Calm, Alike, Undisturbed
<1>7. Entries'
  <2> SUFFICES ASSUME ~inside, ~overlapped, faults = 0, row = NoRow \/ latest # NoRow, NEW n \in Nodes
               PROVE  Explained(n)'
    BY <1>1 DEF Entries
  <2>1. CASE n = m
    BY <1>2, <2>1 DEF Explained
  <2>2. CASE n # m
    <3>1. Explained(n) /\ cache'[n] = cache[n]
      BY <1>1, <1>2, <2>2 DEF KeptInv, Entries
    <3>2. pc[cache[n][1]] \in {"commit", "failed"} => pc'[cache[n][1]] \in {"commit", "failed"}
      BY <1>1 DEF UserInv, TypeOK
    <3> QED
      BY <1>1, <1>5, <2>2, <3>1, <3>2 DEF Explained, SameAccount
  <2> QED
    BY <2>1, <2>2
<1> QED
  BY <1>3, <1>4, <1>6, <1>7 DEF KeptInv

\* After a fault nothing is claimed but what requests and caches refer to.
LEMMA FaultKeeps ==
  ASSUME UserInv, KeptInv, faults' # 0, UNCHANGED <<row, heap, kind, inside, user, history>>,
         \A n \in Nodes : cache'[n] \in {cache[n], Absent},
         \A q \in Requests : pc'[q] \in {"lookup", "put", "load", "evict"} => pc'[q] = pc[q],
         \A q \in Requests : pc'[q] = "commit" => pc[q] = "commit" \/ (inside /\ pc[q] = "evict"),
         \A q \in Requests : pc'[q] \in {"lookup", "put", "load", "commit"} => todo'[q] = todo[q] \/ inside
  PROVE  KeptInv'
<1> USE DEF history
<1>1. Places'
  <2>1. \A n \in Nodes, q \in Requests : cache'[n] = <<q, 1>> => cache[n] = <<q, 1>>
    BY Own, Names DEF Objects, UserInv
  <2>2. \A q \in Requests : pc'[q] \in {"load", "commit"} => kind[q] # "view"
    BY EvictsNoLogin DEF KeptInv, Places
  <2> QED
    BY <2>1, <2>2 DEF KeptInv, Places
<1> QED
  BY <1>1 DEF KeptInv, Reads, Calm, Undisturbed, Entries

\* A peer that keeps its entry.
LEMMA EvictLostKeeps == ASSUME UserInv, KeptInv, NEW r \in Requests, NEW m \in Nodes, EvictLost(r, m) PROVE KeptInv'
<1>1. faults' # 0
  BY DEF EvictLost, UserInv, TypeOK
<1>2. \A q \in Requests \ {r} : pc'[q] = pc[q] /\ todo'[q] = todo[q]
  BY DEF EvictLost, AfterEvict, UserInv, TypeOK
<1>3. pc'[r] \in {"evict", "done", "commit"} /\ (pc'[r] = "commit" => inside)
  BY DEF EvictLost, AfterEvict, UserInv, TypeOK
<1>4. /\ UNCHANGED <<row, heap, kind, inside, user, history, cache>>
      /\ pc[r] = "evict"
  BY DEF EvictLost, data
<1>5. \A q \in Requests : /\ pc'[q] \in {"lookup", "put", "load", "evict"} => pc'[q] = pc[q]
                          /\ pc'[q] = "commit" => pc[q] = "commit" \/ (inside /\ pc[q] = "evict")
                          /\ pc'[q] \in {"lookup", "put", "load", "commit"} => todo'[q] = todo[q] \/ inside
  BY <1>2, <1>3, <1>4
<1>6. \A n \in Nodes : cache'[n] \in {cache[n], Absent}
  BY <1>4
<1> QED
  BY <1>1, <1>4, <1>5, <1>6, FaultKeeps

\* A crash ends the requests of its node.
LEMMA CrashKeeps == ASSUME UserInv, KeptInv, NEW m \in Nodes, Crash(m) PROVE KeptInv'
<1>1. faults' # 0
  BY DEF Crash, UserInv, TypeOK
<1>2. \A n \in Nodes : cache'[n] \in {cache[n], Absent}
  BY DEF Crash, UserInv, TypeOK
<1>3. \A q \in Requests : pc'[q] \in {pc[q], "failed"}
  BY DEF Crash, UserInv, TypeOK
<1> QED
  BY <1>1, <1>2, <1>3, FaultKeeps DEF Crash

\* An entry that expires needs no explanation.
LEMMA ExpireKeeps == ASSUME UserInv, KeptInv, NEW m \in Nodes, Expire(m) PROVE KeptInv'
<1>1. /\ cache' = [cache EXCEPT ![m] = Absent]
      /\ UNCHANGED <<row, heap, pc, kind, inside, user, grant, target, todo, faults, history>>
  BY DEF Expire, request
<1> USE <1>1 DEF history
<1>2. \A n \in Nodes : cache'[n] = IF n = m THEN Absent ELSE cache[n]
  BY DEF UserInv, TypeOK
<1>3. Places'
  <2>1. \A n \in Nodes, q \in Requests : cache'[n] = <<q, 1>> => cache[n] = <<q, 1>>
    BY <1>2, Own, Names DEF Objects, UserInv
  <2> QED
    BY <2>1 DEF KeptInv, Places
<1>4. Reads'
  BY DEF KeptInv, Reads, Read, Writing, Change
<1>5. Calm'
  BY <1>2 DEF KeptInv, Calm, Undisturbed, Alike, Writing, ToEvict
<1>6. Entries'
  BY <1>2 DEF KeptInv, Entries, Explained, SameAccount, ToEvict
<1> QED
  BY <1>3, <1>4, <1>5, <1>6 DEF KeptInv

\* A writer goes from reading to writing: it holds the row with its change, in an
\* object of its own, or in one of the cache when the row is gone.
LEMMA LoadsKeep ==
  ASSUME UserInv, KeptInv, NEW r \in Requests, pc[r] = "load",
         NEW o \in Objects, NEW u \in Rows, heap' = [heap EXCEPT ![o] = u],
         o = <<r, 2>> \/ (o = user[r] /\ kind[r] = "login" /\ row = NoRow) \/ o = <<r, 1>>,
         o = <<r, 1>> => user[r] = o /\ kind[r] \in LookUp,
         target' = [target EXCEPT ![r] = IF kind[r] = "delete" THEN @ ELSE o],
         NEW l \in {"commit", "evict"}, pc' = [pc EXCEPT ![r] = l],
         l = "evict" => inside /\ kind[r] \in Evicting,
         ~overlapped /\ faults = 0 /\ kind[r] # "delete" /\ o[1] = r => row # NoRow /\ u = Change(r, row),
         ~overlapped /\ faults = 0 /\ kind[r] = "login" /\ user[r] = <<r, 1>> => o = <<r, 1>>,
         kind[r] = "login" /\ row # NoRow => o[1] = r,
         UNCHANGED <<row, lastId, cache, kind, where, inside, user, grant, todo, faults, history>>
  PROVE  KeptInv'
<1> USE DEF history
<1>1. /\ \A q \in Requests \ {r} : pc'[q] = pc[q] /\ target'[q] = target[q]
      /\ pc'[r] = l /\ target'[r] = (IF kind[r] = "delete" THEN target[r] ELSE o)
      /\ \A p \in Objects : heap'[p] = IF p = o THEN u ELSE heap[p]
      /\ u # NoRow
  BY Names DEF UserInv, TypeOK, Rows, Values
<1>2. o[1] # r => row = NoRow /\ heap[o] # NoRow /\ o = user[r] /\ kind[r] = "login"
  <2>1. o = <<r, 2>> \/ o = <<r, 1>> => o[1] = r
    OBVIOUS
  <2>2. kind[r] = "login" => heap[user[r]] # NoRow
    BY DEF UserInv, References
  <2> QED
    BY <2>1, <2>2
<1>3. ASSUME NEW q \in Requests, q # r, o = <<q, 1>> \/ o = <<q, 2>>
      PROVE  row = NoRow /\ heap[o] # NoRow /\ o = <<q, 1>>
  <2>1. o[1] # r
    BY <1>3
  <2>2. o[2] = 1
    BY <1>2, <2>1 DEF UserInv, References
  <2>3. o = <<q, 1>>
    BY <1>3, <2>2
  <2> QED
    BY <1>2, <2>1, <2>3
<1>4. Places'
  <2>1. ASSUME NEW q \in Requests, pc'[q] = "put" PROVE heap'[<<q, 1>>] = row \/ q \in outdated
    <3>1. q # r /\ pc[q] = "put"
      BY <1>1, <2>1
    <3>2. heap[<<q, 1>>] = row \/ q \in outdated
      BY <3>1 DEF KeptInv, Places
    <3>3. o = <<q, 1>> => heap[<<q, 1>>] # row
      BY <1>3, <3>1
    <3> QED
      BY <1>1, <3>2, <3>3, Own DEF UserInv
  <2>2. \A q \in Requests : pc'[q] \in {"lookup", "put", "load", "commit"} => pc[q] \in {"lookup", "put", "load", "commit"}
    BY <1>1
  <2>3. \A q \in Requests : pc'[q] = "evict" => kind[q] \in Evicting
    BY <1>1 DEF KeptInv, Places
  <2>4. \A n \in Nodes, q \in Requests : cache[n] = <<q, 1>> => pc'[q] \notin {"lookup", "put"} /\ user[q] = <<q, 1>>
    BY <1>1 DEF KeptInv, Places
  <2>5. \A q \in Requests : pc'[q] \in {"load", "commit"} => kind[q] # "view"
    BY <1>1 DEF KeptInv, Places
  <2> QED
    BY <2>1, <2>2, <2>3, <2>4, <2>5 DEF KeptInv, Places
<1>5. Reads'
  <2> SUFFICES ASSUME ~overlapped, faults = 0, NEW q \in Requests PROVE Read(q)'
    BY DEF Reads
  <2>0. Read(q)
    BY DEF KeptInv, Reads
  <2>1. CASE q = r
    <3>1. kind[r] # "delete" /\ o[1] = r => heap'[target'[r]] = Change(r, row) /\ row # NoRow
      BY <1>1
    <3>2. target'[r][1] = r /\ kind[r] \in {"login", "profile", "edit"} => o[1] = r
      BY <1>1
    <3>3. Change(r, row)' = Change(r, row)
      BY DEF Change
    <3>4. kind[r] = "login" /\ user[r] = <<r, 1>> => target'[r] = <<r, 1>>
      BY <1>1
    <3> QED
      BY <1>1, <2>1, <3>1, <3>2, <3>3, <3>4 DEF Read
  <2>2. CASE q # r /\ o # <<q, 1>> /\ o # <<q, 2>>
    BY <1>1, <2>0, <2>2, ReadKeeps, Own DEF UserInv
  <2>3. CASE q # r /\ (o = <<q, 1>> \/ o = <<q, 2>>)
    <3>1. row = NoRow /\ heap[<<q, 1>>] # NoRow /\ pc'[q] = pc[q] /\ target'[q] = target[q]
      BY <1>1, <1>3, <2>3
    <3> QED
      BY <2>0, <3>1 DEF Read, Writing
  <2> QED
    BY <2>1, <2>2, <2>3
<1>6. \A q \in Requests, n \in Nodes : ToEvict(q, n) => ToEvict(q, n)'
  BY <1>1 DEF ToEvict
<1>7. Calm'
  <2> SUFFICES ASSUME Undisturbed PROVE Calm'
    BY DEF Calm, Undisturbed
  <2>1. /\ row = latest
        /\ kind[r] \in LookUp => row # NoRow
        /\ kind[r] = "profile" => grant[r] = row.role
    BY DEF KeptInv, Calm
  <2>2. o[1] = r /\ (kind[r] # "delete" => row # NoRow /\ u = Change(r, row))
    BY <1>2, <2>1 DEF LookUp, Undisturbed
  <2>3. ASSUME NEW q \in Requests
        PROVE  /\ pc'[q] = "load" /\ kind[q] \in LookUp => row # NoRow
               /\ kind[q] = "profile" /\ (pc'[q] = "load" \/ Writing(q)') => grant[q] = row.role
               /\ kind[q] = "login" /\ pc'[q] = "commit" => target'[q][1] = q
    <3>1. CASE q = r
      BY <1>1, <2>1, <2>2, <3>1
    <3>2. CASE q # r
      BY <1>1, <3>2 DEF KeptInv, Calm, Writing
    <3> QED
      BY <3>1, <3>2
  <2>4. ASSUME NEW n \in Nodes, cache[n] # Absent
        PROVE  Alike(heap'[cache[n]], row) \/ (~inside /\ \E q \in Requests : ToEvict(q, n)')
    <3>1. CASE cache[n] # o
      <4>1. heap'[cache[n]] = heap[cache[n]]
        BY <1>1, <2>4, <3>1 DEF UserInv, TypeOK
      <4> QED
        BY <1>6, <2>4, <4>1 DEF KeptInv, Calm
    <3>2. CASE cache[n] = o
      <4>1. o = <<r, 1>>
        BY <2>2, <2>4, <3>2, Cached1 DEF UserInv
      <4>2. row \in Rows /\ u = Change(r, row) /\ kind[r] \in LookUp
        BY <2>1, <2>2, <4>1 DEF UserInv, TypeOK, LookUp
      <4>3. u.id = row.id /\ u.role = row.role
        BY <2>1, <4>2 DEF Change, LookUp, Rows
      <4> QED
        BY <1>1, <2>2, <3>2, <4>2, <4>3 DEF Alike, LookUp
    <3> QED
      BY <3>1, <3>2
  <2> QED
    BY <2>1, <2>3, <2>4 DEF Calm, Alike
<1>8. Entries'
  <2> SUFFICES ASSUME ~inside, ~overlapped, faults = 0, row = NoRow \/ latest # NoRow,
                      NEW n \in Nodes, cache[n] # Absent
               PROVE  Explained(n)'
    BY DEF Entries, Explained
  <2>1. Explained(n)
    BY DEF KeptInv, Entries
  <2>2. pc[cache[n][1]] \in {"commit", "failed"} => pc'[cache[n][1]] \in {"commit", "failed"}
    BY <1>1, Cached1 DEF UserInv
  <2>3. CASE cache[n] # o
    <3>1. heap'[cache[n]] = heap[cache[n]]
      BY <1>1, <2>3 DEF UserInv, TypeOK
    <3> QED
      BY <1>6, <2>1, <2>2, <3>1 DEF Explained, SameAccount
  <2>4. CASE cache[n] = o /\ o[1] = r
    BY <1>1, <2>4 DEF Explained
  <2>5. CASE cache[n] = o /\ o[1] # r
    <3>1. ~SameAccount(heap[cache[n]], row)
      BY <1>2, <2>5 DEF SameAccount
    <3> QED
      BY <1>6, <2>1, <2>2, <3>1 DEF Explained
  <2> QED
    BY <2>3, <2>4, <2>5
<1> QED
  BY <1>4, <1>5, <1>7, <1>8 DEF KeptInv

\* A writer who looked the user up and whose row is still there reads that row.
LEMMA OwnUserIsRow ==
  ASSUME UserInv, KeptInv, ~overlapped, faults = 0, NEW r \in Requests, pc[r] = "load",
         kind[r] \in LookUp, user[r] = <<r, 1>>
  PROVE  heap[<<r, 1>>] = row /\ row \in Rows
<1>1. heap[<<r, 1>>] = row
  BY DEF KeptInv, Reads, Read
<1>2. heap[user[r]] # NoRow
  BY DEF UserInv, References, LookUp
<1> QED
  BY <1>1, <1>2 DEF UserInv, TypeOK

\* A login changes the entity of the context, or the row, or without a row the
\* user of the principal.
LEMMA LoginLoadKeeps == ASSUME UserInv, KeptInv, NEW r \in Requests, LoginLoad(r) PROVE KeptInv'
<1> DEFINE o == LoginTarget(r)
           v == IF o = <<r, 2>> THEN row ELSE heap[o]
           u == [v EXCEPT !.lang = r]
<1>1. /\ pc[r] = "load" /\ kind[r] = "login" /\ heap[user[r]] # NoRow
      /\ user[r] \in Objects /\ user[r][2] = 1 /\ row \in Rows \cup {NoRow}
  BY DEF LoginLoad, UserInv, References, TypeOK
<1>2. \/ o = user[r] /\ row = NoRow
      \/ o = user[r] /\ user[r] = <<r, 1>>
      \/ o = <<r, 2>> /\ row # NoRow
  BY DEF LoginTarget
<1>3. user[r] # <<r, 2>> /\ (user[r][1] = r => user[r] = <<r, 1>>)
  BY <1>1 DEF Objects
<1>4. o \in Objects /\ v \in Rows
  <2>1. CASE o = user[r]
    BY <1>1, <1>3, <2>1 DEF UserInv, TypeOK
  <2>2. CASE o = <<r, 2>> /\ row # NoRow
    BY <1>1, <2>2, Own DEF UserInv
  <2> QED
    BY <1>2, <2>1, <2>2
<1>5. u \in Rows
  BY <1>4 DEF Rows, Values
<1>6. ~overlapped /\ faults = 0 /\ o[1] = r => row \in Rows /\ v = row
  <2>1. CASE o = user[r]
    BY <1>1, <1>3, <2>1, OwnUserIsRow DEF LookUp
  <2>2. CASE o = <<r, 2>> /\ row # NoRow
    BY <1>1, <2>2
  <2> QED
    BY <1>2, <2>1, <2>2
<1>7. ~overlapped /\ faults = 0 /\ user[r] = <<r, 1>> => o = <<r, 1>>
  BY <1>1, OwnUserIsRow DEF LookUp, LoginTarget
<1>8. row \in Rows => row # NoRow /\ Change(r, row) = [row EXCEPT !.lang = r]
  BY <1>1, Names DEF Change, Rows, Values
<1>9. /\ heap' = [heap EXCEPT ![o] = u] /\ target' = [target EXCEPT ![r] = o]
      /\ pc' = [pc EXCEPT ![r] = "commit"]
      /\ UNCHANGED <<row, lastId, cache, kind, where, inside, user, grant, todo, faults, history>>
  BY DEF LoginLoad, Goto
<1>10. \/ o = <<r, 2>>
       \/ o = user[r] /\ kind[r] = "login" /\ row = NoRow
       \/ o = <<r, 1>>
  BY <1>1, <1>2
<1>11. o = <<r, 1>> => user[r] = o
  BY <1>2
<1>12. row # NoRow => o[1] = r
  BY <1>2
<1>13. ~overlapped /\ faults = 0 /\ o[1] = r => row # NoRow /\ u = Change(r, row)
  BY <1>6, <1>8
<1> HIDE DEF o, u, v
<1> QED
  BY <1>1, <1>4, <1>5, <1>7, <1>9, <1>10, <1>11, <1>12, <1>13, LoadsKeep DEF LookUp

\* An edit of the row, in an object of the request.
LEMMA MergeKeeps ==
  ASSUME UserInv, KeptInv, NEW r \in Requests, pc[r] = "load", kind[r] \in {"profile", "edit"},
         NEW o \in {<<r, 1>>, <<r, 2>>}, NEW u \in Rows, Merge(r, o, u),
         o = <<r, 1>> => kind[r] = "profile" /\ user[r] = <<r, 1>>,
         ~overlapped /\ faults = 0 => row # NoRow /\ u = row,
         UNCHANGED <<row, lastId, cache, kind, where, inside, user, grant, todo, faults, history>>
  PROVE  KeptInv'
<1> DEFINE v == [u EXCEPT !.role = grant[r], !.profile = r]
           l == BeforeCommit(kind[r])
<1>1. o \in Objects /\ o[1] = r
  BY DEF Objects
<1>2. v \in Rows
  BY DEF Rows, Values, UserInv, TypeOK
<1>3. u = row => v = Change(r, row)
  BY DEF Change, Rows
<1>4. l \in {"commit", "evict"} /\ (l = "evict" => inside /\ kind[r] \in Evicting)
  BY DEF BeforeCommit
<1>5. heap' = [heap EXCEPT ![o] = v] /\ target' = [target EXCEPT ![r] = o] /\ pc' = [pc EXCEPT ![r] = l]
  BY DEF Merge, Goto
<1> HIDE DEF v, l
<1>6. o = <<r, 1>> => user[r] = o /\ kind[r] \in LookUp
  BY <1>1 DEF LookUp
<1> QED
  BY <1>1, <1>2, <1>3, <1>4, <1>5, <1>6, LoadsKeep

\* A user's edit changes the entity of the context, or the row.
LEMMA ProfileLoadKeeps == ASSUME UserInv, KeptInv, NEW r \in Requests, ProfileLoad(r) PROVE KeptInv'
<1>1. /\ pc[r] = "load" /\ kind[r] = "profile" /\ heap[user[r]] \in Rows
      /\ UNCHANGED <<row, lastId, cache, kind, where, inside, user, grant, todo, faults, history>>
  BY DEF ProfileLoad, UserInv, TypeOK, References
<1>2. CASE user[r] = <<r, 1>> /\ Merge(r, <<r, 1>>, heap[user[r]])
  <2>1. ~overlapped /\ faults = 0 => heap[user[r]] = row /\ row # NoRow
    BY <1>1, <1>2, OwnUserIsRow, Names DEF LookUp, Rows, Values
  <2> QED
    BY <1>1, <1>2, <2>1, MergeKeeps
<1>3. CASE row # NoRow /\ Merge(r, <<r, 2>>, row)
  <2>1. row \in Rows /\ <<r, 2>> # <<r, 1>>
    BY <1>3 DEF UserInv, TypeOK
  <2> QED
    BY <1>1, <1>3, <2>1, MergeKeeps
<1>4. CASE Goto(r, "refused") /\ UNCHANGED <<heap, target>>
  BY <1>1, <1>4, EndsQuietly DEF Goto
<1> QED
  BY <1>2, <1>3, <1>4 DEF ProfileLoad

\* An edit that submits a role changes the entity.
LEMMA EditLoadKeeps == ASSUME UserInv, KeptInv, NEW r \in Requests, EditLoad(r) PROVE KeptInv'
<1>1. /\ pc[r] = "load" /\ kind[r] = "edit"
      /\ UNCHANGED <<row, lastId, cache, kind, where, inside, user, grant, todo, faults, history>>
  BY DEF EditLoad
<1>2. CASE row # NoRow /\ Merge(r, <<r, 2>>, row)
  <2>1. row \in Rows /\ <<r, 2>> # <<r, 1>>
    BY <1>2 DEF UserInv, TypeOK
  <2> QED
    BY <1>1, <1>2, <2>1, MergeKeeps
<1>3. CASE Goto(r, "refused") /\ UNCHANGED <<heap, target>>
  BY <1>1, <1>3, EndsQuietly DEF Goto
<1> QED
  BY <1>2, <1>3 DEF EditLoad

\* A deletion reads the row.
LEMMA DeleteLoadKeeps == ASSUME UserInv, KeptInv, NEW r \in Requests, DeleteLoad(r) PROVE KeptInv'
<1>1. /\ pc[r] = "load" /\ kind[r] = "delete"
      /\ UNCHANGED <<row, lastId, cache, kind, where, inside, user, grant, target, todo, faults, history>>
  BY DEF DeleteLoad
<1>2. CASE row = NoRow
  BY <1>1, <1>2, EndsQuietly DEF DeleteLoad, Goto
<1>3. CASE row # NoRow
  <2> DEFINE o == <<r, 2>>
             l == BeforeCommit("delete")
  <2>1. o \in Objects /\ o # <<r, 1>> /\ row \in Rows
    BY <1>3 DEF Objects, UserInv, TypeOK
  <2>2. l \in {"commit", "evict"} /\ (l = "evict" => inside /\ kind[r] \in Evicting)
    BY <1>1 DEF BeforeCommit
  <2>3. heap' = [heap EXCEPT ![o] = row] /\ pc' = [pc EXCEPT ![r] = l]
    BY <1>3 DEF DeleteLoad, Goto
  <2>4. target' = [target EXCEPT ![r] = IF kind[r] = "delete" THEN @ ELSE o]
    BY <1>1 DEF UserInv, TypeOK
  <2>5. o = <<r, 2>>
    OBVIOUS
  <2> HIDE DEF o, l
  <2> QED
    BY <1>1, <2>1, <2>2, <2>3, <2>4, <2>5, LoadsKeep
<1> QED
  BY <1>2, <1>3

\* A commit keeps what is claimed, when it writes what was read and what was asked for.
LEMMA CommitsKeep ==
  ASSUME UserInv, KeptInv, NEW r \in Requests, Written(r),
         row' = NoRow => latest' = NoRow,
         Undisturbed' => row' = latest',
         kind[r] = "login" /\ ~overlapped /\ faults = 0 /\ (row' = NoRow \/ latest' # NoRow) =>
           /\ row \in Rows /\ row' = Change(r, row) /\ latest # NoRow
           /\ target[r][1] = r /\ row' = heap[target[r]]
  PROVE  KeptInv'
<1>1. /\ UNCHANGED <<cache, heap, kind, where, inside, user, grant, target, todo, faults>>
      /\ pc[r] = "commit" /\ kind[r] # "view" /\ kind[r] \in Kinds
      /\ overlapped' = (overlapped \/ \E q \in Requests \ {r} : HasRead(q))
      /\ outdated' = outdated \cup {q \in Requests : pc[q] = "put" \/ (inside /\ InCache(q))}
  BY DEF Written, UserInv, TypeOK, KeptInv, Places
<1>2. /\ \A q \in Requests \ {r} : pc'[q] = pc[q]
      /\ pc'[r] = IF ~inside /\ kind[r] \in Evicting THEN "evict" ELSE "done"
  BY DEF Written, AfterCommit, Goto, UserInv, TypeOK
<1>3. kind[r] # "login" => kind[r] \in Evicting
  BY <1>1 DEF Kinds, Evicting
<1>4. Places'
  <2>1. /\ \A q \in Requests : pc'[q] = "put" => q \in outdated'
        /\ \A q \in Requests : pc'[q] \in {"lookup", "put", "load", "commit"} => pc'[q] = pc[q]
        /\ \A q \in Requests : pc'[q] = "evict" => kind[q] \in Evicting
    BY <1>1, <1>2 DEF KeptInv, Places
  <2>2. ASSUME NEW n \in Nodes, NEW q \in Requests, cache[n] = <<q, 1>>
        PROVE  pc'[q] \notin {"lookup", "put"} /\ user[q] = <<q, 1>>
    BY <2>1, <2>2 DEF KeptInv, Places
  <2> QED
    BY <1>1, <2>1, <2>2 DEF KeptInv, Places
<1>5. ASSUME ~overlapped', NEW q \in Requests
      PROVE  /\ pc'[q] \in {"put", "load"} => kind[q] \notin LookUp
             /\ Writing(q)' => kind[q] = "create"
  <2>1. q # r => ~HasRead(q)
    BY <1>1, <1>5
  <2> QED
    BY <1>1, <1>2, <2>1 DEF HasRead, Writing, LookUp
<1>6. Reads'
  <2> SUFFICES ASSUME ~overlapped', NEW q \in Requests PROVE Read(q)'
    BY DEF Reads
  <2>1. kind'[q] = kind[q] /\ (pc'[q] = "commit" => Writing(q)')
    BY <1>1 DEF Writing
  <2> QED
    BY <1>5, <2>1 DEF Read
<1>7. \A q \in Requests, n \in Nodes : ToEvict(q, n) => ToEvict(q, n)'
  BY <1>1, <1>2 DEF ToEvict
<1>8. ~inside /\ kind[r] \in Evicting => \A n \in Nodes : ToEvict(r, n)'
  BY <1>1, <1>2 DEF KeptInv, Places, ToEvict
<1>9. Calm'
  <2> SUFFICES ASSUME Undisturbed' PROVE Calm'
    BY DEF Calm
  <2>1. Undisturbed /\ outdated' = {} /\ ~overlapped' /\ row' = latest'
    BY <1>1 DEF Undisturbed
  <2>2. ASSUME NEW q \in Requests
        PROVE  /\ pc'[q] = "load" => kind[q] \notin LookUp
               /\ ~(kind[q] = "profile" /\ (pc'[q] = "load" \/ Writing(q)'))
               /\ ~(kind[q] = "login" /\ pc'[q] = "commit")
    BY <1>5, <2>1 DEF LookUp, Writing
  <2>3. ASSUME NEW n \in Nodes, cache[n] # Absent
        PROVE  Alike(heap[cache[n]], row') \/ (~inside /\ \E q \in Requests : ToEvict(q, n)')
    <3>1. ~inside
      <4>1. PICK q \in Requests : cache[n] = <<q, 1>>
        BY <2>3, Cached1 DEF UserInv
      <4> QED
        BY <1>1, <2>1, <4>1 DEF InCache
    <3>2. CASE kind[r] # "login"
      BY <1>3, <1>8, <3>1, <3>2
    <3>3. CASE kind[r] = "login"
      <4>1. row \in Rows /\ row' = Change(r, row)
        BY <2>1, <3>3 DEF Undisturbed
      <4>2. row'.id = row.id /\ row'.role = row.role /\ row # NoRow /\ row' # NoRow
        BY <3>3, <4>1, Names DEF Change, Rows, Values
      <4>3. Alike(heap[cache[n]], row) \/ \E q \in Requests : ToEvict(q, n)
        BY <2>1, <2>3 DEF KeptInv, Calm
      <4> QED
        BY <1>7, <3>1, <4>2, <4>3 DEF Alike
    <3> QED
      BY <3>2, <3>3
  <2> QED
    BY <1>1, <2>1, <2>2, <2>3 DEF Calm, Alike
<1>10. Entries'
  <2> SUFFICES ASSUME ~inside, ~overlapped, faults = 0, row' = NoRow \/ latest' # NoRow,
                      NEW n \in Nodes, cache[n] # Absent
               PROVE  Explained(n)'
    BY <1>1 DEF Entries, Explained
  <2>1. CASE kind[r] # "login"
    BY <1>3, <1>8, <2>1 DEF Explained
  <2>2. CASE kind[r] = "login"
    <3>1. /\ row \in Rows /\ row' = Change(r, row) /\ latest # NoRow
          /\ target[r][1] = r /\ row' = heap[target[r]]
      BY <2>2
    <3>2. /\ row'.id = row.id /\ row'.role = row.role /\ row'.profile = row.profile
          /\ row # NoRow /\ row' # NoRow
      BY <2>2, <3>1, Names DEF Change, Rows, Values
    <3>3. Explained(n)
      BY <3>1 DEF KeptInv, Entries
    <3>4. PICK q \in Requests : cache[n] = <<q, 1>> /\ cache[n][1] = q
      BY Cached1 DEF UserInv
    <3>5. CASE q = r
      <4>1. user[r] = <<r, 1>>
        BY <3>4, <3>5 DEF KeptInv, Places
      <4>2. target[r] = cache[n]
        BY <1>1, <2>2, <3>4, <3>5, <4>1 DEF KeptInv, Reads, Read
      <4> QED
        BY <1>1, <3>1, <4>2 DEF Explained, SameAccount
    <3>6. CASE q # r
      <4>1. pc[cache[n][1]] \in {"commit", "failed"} => pc'[cache[n][1]] \in {"commit", "failed"}
        BY <1>2, <3>4, <3>6
      <4>2. SameAccount(heap[cache[n]], row) => SameAccount(heap[cache[n]], row')
        BY <3>2 DEF SameAccount
      <4> QED
        BY <1>1, <1>7, <3>3, <4>1, <4>2 DEF Explained, SameAccount
    <3> QED
      BY <3>5, <3>6
  <2> QED
    BY <2>1, <2>2
<1> QED
  BY <1>4, <1>6, <1>9, <1>10 DEF KeptInv

\* An update writes the row as it was read, with the change of the request.
LEMMA UpdateKeeps == ASSUME UserInv, KeptInv, NEW r \in Requests, Update(r) PROVE KeptInv'
<1>1. /\ Written(r) /\ pc[r] = "commit" /\ row' = heap[target[r]]
      /\ target[r][1] = r /\ kind[r] \in {"login", "profile", "edit"}
      /\ latest' = IF latest = NoRow THEN NoRow ELSE Submitted(r)
  BY DEF Update, Written, Inserts, KeptInv, Places, UserInv, TypeOK, Kinds
<1>2. row' # NoRow
  BY <1>1 DEF UserInv, References, Writers
<1>3. ~overlapped /\ faults = 0 => row # NoRow /\ row \in Rows /\ row' = Change(r, row)
  BY <1>1 DEF KeptInv, Reads, Read, Writing, UserInv, TypeOK
<1>4. Undisturbed' => row' = latest'
  <2> SUFFICES ASSUME Undisturbed' PROVE row' = latest'
    OBVIOUS
  <2>1. Undisturbed
    BY <1>1 DEF Undisturbed, Written
  <2>2. row = latest /\ (kind[r] = "profile" => grant[r] = row.role)
    BY <1>1, <2>1 DEF KeptInv, Calm, Writing
  <2>3. row # NoRow /\ row \in Rows /\ row' = Change(r, row)
    BY <1>3, <2>1 DEF Undisturbed
  <2>4. kind[r] = "edit" => grant[r] = r
    BY DEF UserInv, Roles
  <2>5. Change(r, row) = Submitted(r)
    BY <1>1, <2>2, <2>3, <2>4 DEF Change, Submitted, Rows
  <2> QED
    BY <1>1, <2>2, <2>3, <2>5
<1>5. latest' # NoRow => latest # NoRow
  BY <1>1
<1> QED
  BY <1>1, <1>2, <1>3, <1>4, <1>5, CommitsKeep

\* A deletion is what was asked for last.
LEMMA DeleteKeeps == ASSUME UserInv, KeptInv, NEW r \in Requests, Delete(r) PROVE KeptInv'
BY CommitsKeep DEF Delete

\* So is a new account.
LEMMA CreateKeeps == ASSUME UserInv, KeptInv, NEW r \in Requests, Create(r) PROVE KeptInv'
BY CommitsKeep DEF Create

\* An account that is inserted again was deleted: that login lost the deletion, so
\* it was not undisturbed.
LEMMA ReinsertKeeps == ASSUME UserInv, KeptInv, NEW r \in Requests, Reinsert(r) PROVE KeptInv'
<1>1. /\ Written(r) /\ pc[r] = "commit" /\ kind[r] = "login" /\ target[r][1] # r
      /\ row = NoRow /\ latest' = latest
  BY DEF Reinsert, Written, Possible, Inserts
<1>2. latest' = NoRow
  BY <1>1 DEF KeptInv, Places
<1>3. row' # NoRow
  <2>1. heap[target[r]] \in Rows
    BY <1>1 DEF UserInv, TypeOK, References, Writers
  <2>2. lastId + 1 \in Nat
    BY DEF UserInv, TypeOK
  <2> QED
    BY <2>1, <2>2, Names DEF Reinsert, Rows, Values
<1>4. ~Undisturbed'
  BY <1>1 DEF Undisturbed, Written, KeptInv, Calm
<1> QED
  BY <1>1, <1>2, <1>3, <1>4, CommitsKeep

\* The requests of every node keep all of this.
LEMMA KeptInvariant == Spec => []KeptInv
<1>1. Init => KeptInv
  <2> SUFFICES ASSUME Init PROVE KeptInv
    OBVIOUS
  <2>1. /\ \A r \in Requests : pc[r] \in {"lookup", "load"} \/ (kind[r] = "create" /\ pc[r] \in {"commit", "evict"})
        /\ \A r \in Requests : pc[r] = "load" => kind[r] \notin Cached
        /\ \A n \in Nodes : cache[n] = Absent
        /\ \A r \in Requests : todo[r] = Nodes
        /\ row = latest /\ row # NoRow
    BY Names DEF Init, BeforeCommit, First, Values
  <2>2. Places
    <3>1. \A r \in Requests : pc[r] \notin {"put"} /\ (pc[r] = "evict" => kind[r] = "create")
      BY <2>1
    <3>2. \A r \in Requests : pc[r] \in {"load", "commit"} => kind[r] # "view"
      BY <2>1 DEF Cached
    <3>3. \A n \in Nodes, r \in Requests : cache[n] # <<r, 1>>
      <4>1. \A r \in Requests : <<r, 1>> \in Requests \X {1, 2}
        OBVIOUS
      <4> QED
        BY <2>1, <4>1, Names
    <3> QED
      BY <2>1, <3>1, <3>2, <3>3 DEF Places, Evicting
  <2>3. Reads
    BY <2>1 DEF Reads, Read, Writing, LookUp, Cached
  <2>4. Calm
    BY <2>1 DEF Calm, Writing, LookUp, Cached
  <2>5. Entries
    BY <2>1 DEF Entries, Explained
  <2> QED
    BY <2>2, <2>3, <2>4, <2>5 DEF KeptInv
<1>2. UserInv /\ KeptInv /\ [Next]_vars => KeptInv'
  <2> SUFFICES ASSUME UserInv, KeptInv, [Next]_vars PROVE KeptInv'
    OBVIOUS
  <2>1. CASE UNCHANGED vars
    BY <2>1 DEF vars, data, request, history, KeptInv, Places, Reads, Read, Writing, Change,
       Calm, Undisturbed, Alike, ToEvict, Entries, Explained, SameAccount
  <2>2. ASSUME NEW r \in Requests, Step(r) PROVE KeptInv'
    BY <2>2, HitKeeps, MissKeeps, PutKeeps, LoginLoadKeeps, ProfileLoadKeeps, EditLoadKeeps,
       DeleteLoadKeeps, UpdateKeeps, DeleteKeeps, CreateKeeps, ReinsertKeeps, CommitFailsKeeps,
       EvictKeeps, EvictLostKeeps DEF Step
  <2> QED
    BY <2>1, <2>2, ExpireKeeps, CrashKeeps DEF Next
<1> QED
  BY <1>1, <1>2, UserInvariant, PTL DEF Spec

\* Writers that do not overlap lose nothing, whatever else the requests do: for any
\* number of nodes, requests and faults, either order of eviction and commit.
THEOREM NothingIsLost == Spec => []NothingLost
<1>1. KeptInv => NothingLost
  BY DEF KeptInv, Calm, NothingLost
<1> QED
  BY <1>1, KeptInvariant, PTL

\* With eviction after the commit an entry that differs from the row is about to be
\* evicted, was outdated when it was put, or is of a writer who has not committed,
\* for any number of nodes and requests.
THEOREM CachesAreRows == Spec => []CacheIsRow
<1>1. UserInv /\ KeptInv => CacheIsRow
  <2> SUFFICES ASSUME UserInv, KeptInv, ~inside, ~overlapped, faults = 0, row = latest,
                      NEW n \in Nodes, cache[n] # Absent
               PROVE  \/ SameAccount(heap[cache[n]], row)
                      \/ cache[n][1] \in outdated
                      \/ cache[n][2] = 1 /\ pc[cache[n][1]] \in {"commit", "failed"}
                      \/ \E r \in Requests : ToEvict(r, n)
    BY DEF CacheIsRow
  <2>1. Explained(n)
    BY DEF KeptInv, Entries
  <2>2. cache[n][2] = 1
    BY DEF UserInv, References
  <2> QED
    BY <2>1, <2>2 DEF Explained
<1> QED
  BY <1>1, UserInvariant, KeptInvariant, PTL
==============================================================================
