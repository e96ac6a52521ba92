--------------------------- MODULE FileWatchProofs ---------------------------
(***************************************************************************)
(* What the watchdogs and the saves of FileWatch keep true for any number   *)
(* of nodes and saves, whichever file they share.                           *)
(***************************************************************************)
EXTENDS FileWatch, TLAPS

\* Types, for every value of the constants.
THEOREM TypeCorrect == Spec => []TypeOK
<1> USE DEF TypeOK, Threads, Texts, Copies, NotRead
<1>1. Init => TypeOK
  BY DisjointNames, Bounds DEF Init
<1>2. TypeOK /\ [Next]_vars => TypeOK'
  <2> SUFFICES ASSUME TypeOK, [Next]_vars PROVE TypeOK'
    OBVIOUS
  <2> USE DisjointNames, Bounds
  <2>1. ASSUME NEW n \in Nodes, Start(n) PROVE TypeOK'
    BY <2>1 DEF Start
  <2>2. ASSUME NEW n \in Nodes, Check(n) PROVE TypeOK'
    BY <2>2 DEF Check
  <2>3. ASSUME NEW n \in Nodes, Rejected(n) PROVE TypeOK'
    BY <2>3 DEF Rejected
  <2>4. ASSUME NEW n \in Nodes, Crash(n) PROVE TypeOK'
    BY <2>4 DEF Crash, Running
  <2>5. ASSUME NEW t \in Threads, ReadFile(t) PROVE TypeOK'
    BY <2>5 DEF ReadFile
  <2>6. ASSUME NEW t \in Threads, Publish(t) PROVE TypeOK'
    BY <2>6 DEF Publish, NodeOf
  <2>7. ASSUME NEW s \in Savers, Open(s) PROVE TypeOK'
    BY <2>7 DEF Open
  <2>8. ASSUME NEW s \in Savers, Write(s) PROVE TypeOK'
    BY <2>8 DEF Write
  <2>9. ASSUME NEW s \in Savers, SaveFails(s) PROVE TypeOK'
    BY <2>9 DEF SaveFails
  <2>10. CASE Tick
    BY <2>10 DEF Tick
  <2>11. CASE UNCHANGED vars
    BY <2>11 DEF vars
  <2> QED
    BY <2>1, <2>2, <2>3, <2>4, <2>5, <2>6, <2>7, <2>8, <2>9, <2>10, <2>11 DEF Next
<1> QED
  BY <1>1, <1>2, PTL DEF Spec

-----------------------------------------------------------------------------
\* No time stamp lies in the future, and no watchdog is ahead of the file.
Clocks ==
  /\ mtime <= now
  /\ \A n \in Nodes : shown[n].at <= now /\ seen[n] <= mtime
  /\ \A t \in Threads : got[t].at <= now

\* At most one thread of a node is inside a load.
Alone ==
  \A t, u \in Threads :
    pc[t] = "publish" /\ pc[u] = "publish" /\ NodeOf(t) = NodeOf(u) => t = u

\* A text that is no longer the file's was read no later than the last write.
OldTextsAreOld ==
  /\ \A n \in Nodes : shown[n].text # content => shown[n].at <= mtime
  /\ \A t \in Threads : pc[t] = "publish" /\ got[t].text # content => got[t].at <= mtime

\* What is about to be shown was read after what is shown.
ReadsInOrder ==
  \A t \in Threads : pc[t] = "publish" => shown[NodeOf(t)].at <= got[t].at

\* The time stamp of a watchdog was taken before the read it stands for.
StampBeforeRead ==
  \A n \in Nodes :
    /\ pc[n] = "sleep" => seen[n] <= shown[n].at
    /\ pc[n] = "publish" => seen[n] <= got[n].at

\* After an announcement was saved, whoever loads it on that node loads the saved
\* text for as long as it is in the file.
SaversText ==
  \A s \in Savers : reload /\ content = s =>
    /\ pc[s] = "publish" => got[s].text = s
    /\ pc[s] = "done" =>
         /\ where[s] \in up => shown[where[s]].text = s
         /\ \A t \in Threads : pc[t] = "publish" /\ NodeOf(t) = where[s] => got[t].text = s

\* An empty file belongs to a save that is under way or failed.
EmptyHasOwner == content = Empty => \E s \in Savers : pc[s] \in {"write", "failed"}

WatchInv ==
  /\ TypeOK /\ Clocks /\ Alone /\ OldTextsAreOld /\ ReadsInOrder /\ StampBeforeRead
  /\ SaversText /\ EmptyHasOwner

THEOREM WatchInvariant == Spec => []WatchInv
<1> USE DEF Clocks, Alone, OldTextsAreOld, ReadsInOrder, StampBeforeRead, SaversText,
            EmptyHasOwner, Threads, Texts, Copies, NotRead, NodeOf
<1>1. Init /\ TypeOK => WatchInv
  BY DisjointNames, Bounds DEF Init, WatchInv, TypeOK
<1>2. TypeOK' /\ WatchInv /\ [Next]_vars => WatchInv'
  <2> SUFFICES ASSUME TypeOK', WatchInv, [Next]_vars PROVE WatchInv'
    OBVIOUS
  <2> USE DisjointNames, Bounds DEF WatchInv, TypeOK
  <2>1. ASSUME NEW n \in Nodes, Start(n) PROVE WatchInv'
    BY <2>1 DEF Start
  <2>2. ASSUME NEW n \in Nodes, Check(n) PROVE WatchInv'
    BY <2>2 DEF Check
  <2>3. ASSUME NEW n \in Nodes, Rejected(n) PROVE WatchInv'
    BY <2>3 DEF Rejected
  <2>4. ASSUME NEW n \in Nodes, Crash(n) PROVE WatchInv'
    BY <2>4 DEF Crash, Running
  <2>5. ASSUME NEW t \in Threads, ReadFile(t) PROVE WatchInv'
    BY <2>5 DEF ReadFile, MonitorFree
  <2>6. ASSUME NEW t \in Threads, Publish(t) PROVE WatchInv'
    BY <2>6 DEF Publish
  <2>7. ASSUME NEW s \in Savers, Open(s) PROVE WatchInv'
    BY <2>7 DEF Open
  <2>8. ASSUME NEW s \in Savers, Write(s) PROVE WatchInv'
    BY <2>8 DEF Write
  <2>9. ASSUME NEW s \in Savers, SaveFails(s) PROVE WatchInv'
    BY <2>9 DEF SaveFails
  <2>10. CASE Tick
    BY <2>10 DEF Tick
  <2>11. CASE UNCHANGED vars
    BY <2>11 DEF vars
  <2> QED
    BY <2>1, <2>2, <2>3, <2>4, <2>5, <2>6, <2>7, <2>8, <2>9, <2>10, <2>11 DEF Next
<1> QED
  BY <1>1, <1>2, TypeCorrect, PTL DEF Spec

\* The copy a resting watchdog guards is current, but for a write in the second
\* of its read, for any number of nodes and saves.
THEOREM Watched == Spec => []MissedOnlyInSameSecond
<1>1. WatchInv => MissedOnlyInSameSecond
  <2> SUFFICES ASSUME WatchInv, NEW n \in up, pc[n] = "sleep", mtime <= seen[n],
                      shown[n].text # content
               PROVE shown[n].at = mtime
    BY DEF MissedOnlyInSameSecond
  <2>1. n \in Nodes /\ shown[n].at \in Nat /\ seen[n] \in Nat /\ mtime \in Nat
    BY Bounds DEF WatchInv, TypeOK, Copies
  <2>2. seen[n] <= shown[n].at /\ shown[n].at <= mtime
    BY <2>1 DEF WatchInv, StampBeforeRead, OldTextsAreOld
  <2> QED
    BY <2>1, <2>2
<1> QED
  BY <1>1, WatchInvariant, PTL

\* Who saved the announcement in the file sees it: no watchdog puts the old text
\* back.
THEOREM SaverSees == Spec => []SaverShowsItsFile
<1>1. WatchInv => SaverShowsItsFile
  BY DEF WatchInv, SaversText, SaverShowsItsFile
<1> QED
  BY <1>1, WatchInvariant, PTL

\* An empty file with no save under way is the work of a save that failed.
THEOREM EmptyFile == Spec => []EmptyOnlyAfterFailure
<1>1. WatchInv => EmptyOnlyAfterFailure
  BY DEF WatchInv, EmptyHasOwner, EmptyOnlyAfterFailure
<1> QED
  BY <1>1, WatchInvariant, PTL

\* A running node never goes back to a copy read earlier.
THEOREM Monotone == Spec => NeverOlder
<1>1. WatchInv /\ [Next]_vars => [\A n \in up \cap up' : shown'[n].at >= shown[n].at]_vars
  <2> SUFFICES ASSUME WatchInv, Next, NEW n \in up \cap up' PROVE shown'[n].at >= shown[n].at
    BY DEF vars
  <2> n \in Nodes /\ shown[n].at \in 0..MaxTime
    BY DEF WatchInv, TypeOK, Copies
  <2>1. CASE shown'[n] = shown[n]
    BY <2>1, Bounds
  <2>2. ASSUME NEW t \in Threads, Publish(t) PROVE shown'[n].at >= shown[n].at
    BY <2>2, Bounds DEF Publish, WatchInv, ReadsInOrder, TypeOK, Copies
  <2>3. ASSUME NEW m \in Nodes, Crash(m) PROVE shown'[n].at >= shown[n].at
    BY <2>3, Bounds DEF Crash, WatchInv, TypeOK
  <2> QED
    BY <2>1, <2>2, <2>3
       DEF Next, Start, Check, Rejected, ReadFile, Open, Write, SaveFails, Tick
<1> QED
  BY <1>1, WatchInvariant, PTL DEF Spec, NeverOlder
==============================================================================
