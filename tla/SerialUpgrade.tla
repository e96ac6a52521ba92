---------------------------- MODULE SerialUpgrade ----------------------------
(***************************************************************************)
(* What the changelog lock promises its users: the schema is upgraded by   *)
(* at most one node at a time, and while it upgrades, that node records    *)
(* the change sets in the order of the changelog file.                     *)
(***************************************************************************)
EXTENDS Integers

CONSTANTS
  Nodes,      \* the servers that share one database
  ChangeSets  \* positions of the change sets in db.changelog.xml

VARIABLES
  upgrading,  \* the nodes that run change sets now
  ran         \* the change sets recorded as executed

vars == <<upgrading, ran>>

Init ==
  /\ upgrading = {}
  /\ ran = {}

(* A node starts to upgrade: only when nobody else does. *)
Enter(n) ==
  /\ upgrading = {}
  /\ upgrading' = {n}
  /\ UNCHANGED ran

(* The upgrading node records the first change set not recorded yet. *)
Record(n) ==
  /\ upgrading = {n}
  /\ \E c \in ChangeSets \ ran :
       /\ \A d \in ChangeSets \ ran : c <= d
       /\ ran' = ran \cup {c}
  /\ UNCHANGED upgrading

(* It finishes, gives up or dies. *)
Leave(n) ==
  /\ upgrading = {n}
  /\ upgrading' = {}
  /\ UNCHANGED ran

Next == \E n \in Nodes : Enter(n) \/ Record(n) \/ Leave(n)

Spec == Init /\ [][Next]_vars
==============================================================================
