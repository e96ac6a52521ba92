------------------------------ MODULE FileWatch ------------------------------
(***************************************************************************)
(* One configuration file in the home directory the nodes share, the       *)
(* administrators who save it, and the watchdog thread by which every node  *)
(* keeps its own copy up to date (Config, AnnouncementService,              *)
(* SystemConfigService; the watchdog is log4j's FileWatchdog).              *)
(*                                                                         *)
(* reload, which never changes, tells the two files apart.  A save of       *)
(* announcement.conf (TRUE) loads the file again on the node that saved it, *)
(* and any text is an announcement.  A save of system.conf (FALSE) leaves   *)
(* the load to the watchdogs, and Properties.load throws at the texts in    *)
(* BadTexts (a malformed unicode escape).                                  *)
(*                                                                         *)
(* Time is counted in the unit of File.lastModified, a second.  A file is   *)
(* read and written in one system call: its text is far below the size of   *)
(* a buffer.                                                               *)
(***************************************************************************)
EXTENDS Integers, FiniteSets

CONSTANTS
  Nodes,          \* the nodes that share the home directory
  Savers,         \* the saves, each named by the text it submits
  Original,       \* the text copied from home_template
  Empty,          \* the text of a file that was opened for writing
  Garbled,        \* the tail of a longer text below a shorter one, or half a text
  BadTexts,       \* the texts Properties.load rejects
  MaxTime,        \* bound on the clock
  MaxCrashes      \* bound on crashes of nodes

ASSUME DisjointNames ==
  /\ Nodes \cap Savers = {}
  /\ Savers \cap {Original, Empty, Garbled} = {}
  /\ Original # Empty /\ Original # Garbled /\ Empty # Garbled
  /\ BadTexts \subseteq Savers \cup {Garbled}
ASSUME Bounds == MaxTime \in Nat /\ MaxCrashes \in Nat

Texts == Savers \cup {Original, Empty, Garbled}
Threads == Nodes \cup Savers      \* a watchdog goes by the name of its node
Copies == [text : Texts, at : 0..MaxTime]   \* a text and when it was read

VARIABLES
  now,       \* the clock of the file server, in seconds
  content,   \* the text in the file
  mtime,     \* File.lastModified
  pc,        \* what every thread does next
  where,     \* the node a save runs on
  reload,    \* TRUE: the file is announcement.conf, FALSE: system.conf
  up,        \* nodes whose Config.init has finished
  seen,      \* FileWatchdog.lastModif of every node
  got,       \* what a thread inside the synchronized load has read
  shown,     \* the copy a node shows: Config.announcement, systemProperties
  crashes    \* crashes so far

NotRead == [text |-> Original, at |-> 0]
vars == <<now, content, mtime, pc, where, reload, up, seen, got, shown, crashes>>

NodeOf(t) == IF t \in Nodes THEN t ELSE where[t]

Init ==
  /\ now = 0 /\ content = Original /\ mtime = 0
  /\ pc = [t \in Threads |-> IF t \in Nodes THEN "off" ELSE "idle"]
  /\ where \in [Savers -> Nodes]
  /\ reload \in BOOLEAN
  /\ up = {}
  /\ seen = [n \in Nodes |-> 0]
  /\ got = [t \in Threads |-> NotRead]
  /\ shown = [n \in Nodes |-> NotRead]
  /\ crashes = 0

(***************************************************************************)
(* The watchdog.                                                           *)
(***************************************************************************)

\* Config.init builds the watchdog, whose constructor checks the file for the
\* first time and loads it.  (init has loaded system.conf once before that;
\* nobody sees that copy.)
Start(n) ==
  /\ pc[n] = "off"
  /\ seen' = [seen EXCEPT ![n] = mtime]
  /\ pc' = [pc EXCEPT ![n] = "load"]
  /\ UNCHANGED <<now, content, mtime, where, reload, up, got, shown, crashes>>

\* The watchdog wakes up and finds the file changed since it last looked.
Check(n) ==
  /\ pc[n] = "sleep"
  /\ mtime > seen[n]
  /\ seen' = [seen EXCEPT ![n] = mtime]
  /\ pc' = [pc EXCEPT ![n] = "load"]
  /\ UNCHANGED <<now, content, mtime, where, reload, up, got, shown, crashes>>

(* Mutant: the load methods are not synchronized. *)
MonitorFree_NotSynchronized(t) == TRUE

\* loadAnnouncement and loadSystemProperties are synchronized methods of the
\* one Config of a node.
MonitorFree(t) == \A u \in Threads \ {t} : pc[u] = "publish" => NodeOf(u) # NodeOf(t)

Parses(text) == reload \/ text \notin BadTexts

\* A thread enters the load and reads the file.
ReadFile(t) ==
  /\ pc[t] = "load"
  /\ MonitorFree(t)
  /\ Parses(content)
  /\ got' = [got EXCEPT ![t] = [text |-> content, at |-> now]]
  /\ pc' = [pc EXCEPT ![t] = "publish"]
  /\ UNCHANGED <<now, content, mtime, where, reload, up, seen, shown, crashes>>

\* Home.getProperties throws.  In the constructor of the watchdog that ends the
\* boot; later it ends the watchdog's thread.
Rejected(n) ==
  /\ pc[n] = "load"
  /\ MonitorFree(n)
  /\ ~Parses(content)
  /\ pc' = [pc EXCEPT ![n] = IF n \in up THEN "dead" ELSE "off"]
  /\ UNCHANGED <<now, content, mtime, where, reload, up, seen, got, shown, crashes>>

(* Mutant: the time stamp is taken when the load has ended. *)
Publish_StampsLate(t) ==
  /\ pc[t] = "publish"
  /\ shown' = [shown EXCEPT ![NodeOf(t)] = got[t]]
  /\ pc' = [pc EXCEPT ![t] = IF t \in Nodes THEN "sleep" ELSE "done"]
  /\ up' = up \cup {NodeOf(t)}
  /\ got' = [got EXCEPT ![t] = NotRead]
  /\ seen' = IF t \in Nodes THEN [seen EXCEPT ![t] = mtime] ELSE seen
  /\ UNCHANGED <<now, content, mtime, where, reload, crashes>>

(* Mutant: the watchdog ends after its first change. *)
Publish_StopsWatching(t) ==
  /\ pc[t] = "publish"
  /\ shown' = [shown EXCEPT ![NodeOf(t)] = got[t]]
  /\ pc' = [pc EXCEPT ![t] = IF t \in Nodes /\ t \notin up THEN "sleep" ELSE "done"]
  /\ up' = up \cup {NodeOf(t)}
  /\ got' = [got EXCEPT ![t] = NotRead]
  /\ UNCHANGED <<now, content, mtime, where, reload, seen, crashes>>

\* The thread sets the field and leaves the load; a watchdog goes to sleep,
\* a save returns true.
Publish(t) ==
  /\ pc[t] = "publish"
  /\ shown' = [shown EXCEPT ![NodeOf(t)] = got[t]]
  /\ pc' = [pc EXCEPT ![t] = IF t \in Nodes THEN "sleep" ELSE "done"]
  /\ up' = up \cup {NodeOf(t)}
  /\ got' = [got EXCEPT ![t] = NotRead]
  /\ UNCHANGED <<now, content, mtime, where, reload, seen, crashes>>

(***************************************************************************)
(* A save: FileUtils.writeStringToFile, then the load of an announcement.  *)
(***************************************************************************)

\* The FileOutputStream truncates the file.
Open(s) ==
  /\ pc[s] = "idle" /\ where[s] \in up
  /\ content' = Empty
  /\ mtime' = now
  /\ pc' = [pc EXCEPT ![s] = "write"]
  /\ UNCHANGED <<now, where, reload, up, seen, got, shown, crashes>>

\* The text goes to the start of the file; when another save has written since
\* this one opened the file, a longer text of that save stands out below it.
Write(s) ==
  /\ pc[s] = "write"
  /\ content' \in IF content = Empty THEN {s} ELSE {s, Garbled}
  /\ mtime' = now
  /\ pc' = [pc EXCEPT ![s] = IF reload THEN "load" ELSE "done"]
  /\ UNCHANGED <<now, where, reload, up, seen, got, shown, crashes>>

(* Mutant: the save returns true after an IOException. *)
SaveFails_SaysDone(s) ==
  /\ pc[s] = "write"
  /\ \/ UNCHANGED <<content, mtime>>
     \/ content' = Garbled /\ mtime' = now
  /\ pc' = [pc EXCEPT ![s] = "done"]
  /\ UNCHANGED <<now, where, reload, up, seen, got, shown, crashes>>

\* An IOException while writing: the save returns false and leaves the file as
\* it is, empty or with half a text.
SaveFails(s) ==
  /\ pc[s] = "write"
  /\ \/ UNCHANGED <<content, mtime>>
     \/ content' = Garbled /\ mtime' = now
  /\ pc' = [pc EXCEPT ![s] = "failed"]
  /\ UNCHANGED <<now, where, reload, up, seen, got, shown, crashes>>

(***************************************************************************)
(* The environment.                                                        *)
(***************************************************************************)

\* The saves under way on a node.
Running(n) == {s \in Savers : where[s] = n /\ pc[s] \in {"write", "load", "publish"}}

\* A node dies with its watchdog and with the saves under way on it.
Crash(n) ==
  /\ crashes < MaxCrashes
  /\ n \in up
  /\ pc' = [t \in Threads |-> IF t = n THEN "off"
                               ELSE IF t \in Running(n) THEN "failed" ELSE pc[t]]
  /\ up' = up \ {n}
  /\ got' = [t \in Threads |-> IF t \in Running(n) \cup {n} THEN NotRead ELSE got[t]]
  /\ seen' = [seen EXCEPT ![n] = 0]
  /\ shown' = [shown EXCEPT ![n] = NotRead]
  /\ crashes' = crashes + 1
  /\ UNCHANGED <<now, content, mtime, where, reload>>

Tick ==
  /\ now < MaxTime
  /\ now' = now + 1
  /\ UNCHANGED <<content, mtime, pc, where, reload, up, seen, got, shown, crashes>>

Next ==
  \/ \E n \in Nodes : Start(n) \/ Check(n) \/ Rejected(n) \/ Crash(n)
  \/ \E t \in Threads : ReadFile(t) \/ Publish(t)
  \/ \E s \in Savers : Open(s) \/ Write(s) \/ SaveFails(s)
  \/ Tick

Spec == Init /\ [][Next]_vars

\* Threads that have begun go on, and time passes.  Nobody has to start a node
\* or to save, and nothing has to fail.
Fairness ==
  /\ \A n \in Nodes : WF_vars(Check(n)) /\ WF_vars(Rejected(n))
  /\ \A t \in Threads : WF_vars(ReadFile(t)) /\ WF_vars(Publish(t))
  /\ \A s \in Savers : WF_vars(Write(s))
  /\ WF_vars(Tick)

FairSpec == Spec /\ Fairness
------------------------------------------------------------------------------
\* Every variable keeps its type.
TypeOK ==
  /\ now \in 0..MaxTime /\ mtime \in 0..MaxTime
  /\ content \in Texts
  /\ pc \in [Threads -> {"off", "sleep", "dead", "idle", "write", "load", "publish", "done", "failed"}]
  /\ \A n \in Nodes : pc[n] \in {"off", "load", "publish", "sleep", "dead"}
  /\ \A s \in Savers : pc[s] \in {"idle", "write", "load", "publish", "done", "failed"}
  /\ where \in [Savers -> Nodes]
  /\ reload \in BOOLEAN
  /\ up \subseteq Nodes
  /\ seen \in [Nodes -> 0..MaxTime]
  /\ got \in [Threads -> Copies]
  /\ shown \in [Nodes -> Copies]
  /\ crashes \in 0..MaxCrashes

\* A watchdog at rest whose time stamp is up to date guards a current copy,
\* unless the copy was read in the very second of the last write: the check of
\* lastModified, the read and the writes of others interleave, and loads by a
\* save replace the watchdog's copy.
MissedOnlyInSameSecond ==
  \A n \in up :
    pc[n] = "sleep" /\ mtime <= seen[n] /\ shown[n].text # content => shown[n].at = mtime

\* Who has saved an announcement sees it on the node it was saved on for as long
\* as it is the one in the file: a watchdog that read the file earlier does not
\* put the old text back (AnnouncementService.saveAnnouncement, Config's
\* synchronized loads).
SaverShowsItsFile ==
  \A s \in Savers :
    reload /\ pc[s] = "done" /\ content = s /\ where[s] \in up => shown[where[s]].text = s

\* With no save under way the file is empty only after a save that failed or died:
\* a save that answered true never leaves the truncated file behind.
EmptyOnlyAfterFailure ==
  content = Empty /\ (\A s \in Savers : pc[s] # "write") => \E s \in Savers : pc[s] = "failed"

\* A running node never replaces its copy by one that was read earlier.
NeverOlder ==
  [][\A n \in up \cap up' : shown'[n].at >= shown[n].at]_vars

\* In the end every running node shows the text in the file, but for one it
\* cannot load or one written in the second of its last read.
EventuallyShown ==
  <>[](\A n \in up : shown[n].text = content \/ shown[n].at = mtime \/ ~Parses(content))

\* What Config.getAnnouncement promises ("loaded from announcement.conf"): in the
\* end every running node shows the announcement in the file.
ShownInTheEnd == <>[](reload => \A n \in up : shown[n].text = content)
==============================================================================
