----------------------------- MODULE PageProofs -----------------------------
(* Proofs about three parts of a page.                                       *)
(*                                                                           *)
(* That an upload is reported once and that the busy indicator has a cause,  *)
(* for any number of uploads and any options.                                *)
(*                                                                           *)
(* SettlesOnce is nearly inductive; it needs that an upload has no timers    *)
(* and no listener before it is sent, and that a retry and a listener are    *)
(* never there at a time.  The indicator needs a count: $.active is the      *)
(* number of the uploads in a set, those that were counted and not taken     *)
(* back, and one that is not in it any more cannot be settled again.         *)
(*                                                                           *)
(* That the date picker shows the month it views, picks what it shows and    *)
(* reads what it wrote, for any years, formats and starts of the week.  Most *)
(* of it is about the carrying of days and months: which dates the 42 cells  *)
(* are, and that every date comes back from the numbers written of it.       *)
(*                                                                           *)
(* That a form sends what a browser would send, for any form and whatever    *)
(* users and scripts do to it.  Most of it is about the lists formToArray    *)
(* gathers: what they hold, and how often, in the plain order and in the     *)
(* semantic one.                                                             *)
EXTENDS UploadForm, DatePicker, FormFields, ListFacts, FiniteSetTheorems, SequenceTheorems, TLAPS


Callbacks == {"clear", "success", "error", "complete"}
Error == <<"error", "complete">>
Reported(u) == Success(u) \o <<"complete">>

Types ==
  /\ at \in [Uploads -> {"idle", "vetoed", "closing", "queued", "sent", "refused"}]
  /\ opt \in [Uploads -> Options] /\ called \in [Uploads -> Seq(Callbacks)]
  /\ active \in Nat /\ busy \in BOOLEAN
  /\ hears \in [Uploads -> BOOLEAN] /\ deadline \in [Uploads -> BOOLEAN] /\ probe \in [Uploads -> BOOLEAN]
  /\ retry \in [Uploads -> BOOLEAN] /\ aborted \in [Uploads -> BOOLEAN] /\ processed \in [Uploads -> BOOLEAN]
  /\ late \in [Uploads -> BOOLEAN] /\ threw \in [Uploads -> BOOLEAN]

(* What is the case before an upload starts, and before it is sent. *)
NotStarted(u) ==
  at[u] \in {"idle", "vetoed", "closing"} =>
    called[u] = <<>> /\ ~aborted[u] /\ ~threw[u] /\ ~late[u]
NotSent(u) ==
  at[u] # "sent" => ~hears[u] /\ ~deadline[u] /\ ~probe[u] /\ ~retry[u] /\ ~processed[u]
OneCaller(u) == hears[u] => ~retry[u]
Once(u) ==
  \/ threw[u] \/ late[u]
  \/ /\ called[u] = <<>> \/ called[u] = Error \/ called[u] = Reported(u)
     /\ (called[u] = <<>>) = Open(u)
Own(u) == NotStarted(u) /\ NotSent(u) /\ OneCaller(u) /\ Once(u)

(* The uploads jQuery counted, and what is known of those taken back. *)
Counted(u) == opt[u].global /\ (at[u] \in {"queued", "sent"} \/ (at[u] = "refused" /\ aborted[u]))
Over(u) == at[u] = "sent" /\ ~hears[u] /\ ~retry[u] /\ (processed[u] \/ threw[u])
Counts(C) ==
  /\ C \subseteq {u \in Uploads : Counted(u)} /\ IsFiniteSet(C) /\ active = Cardinality(C)
  /\ \A u \in Uploads : IF u \in C THEN ~processed[u] ELSE Counted(u) => Over(u)
Refusals == \E u \in Uploads : opt[u].global /\ at[u] = "refused"
Indicator == (active > 0 => busy) /\ (busy /\ active = 0 => Refusals)

UploadInv == Types /\ (\A u \in Uploads : Own(u)) /\ (\E C : Counts(C)) /\ Indicator

-----------------------------------------------------------------------------
(* What the callbacks add to the list of an upload that was not reported.    *)
LEMMA Added ==
  /\ Error \in Seq(Callbacks) /\ <<"error">> \in Seq(Callbacks) /\ <<>> \in Seq(Callbacks)
  /\ \A u : Success(u) \in Seq(Callbacks) /\ Reported(u) \in Seq(Callbacks) /\ Reported(u) # <<>>
  /\ Error # <<>> /\ <<"error">> \o <<"complete">> = Error
  /\ \A s \in Seq(Callbacks) : <<>> \o s = s /\ s \o <<>> = s /\ \A t \in Seq(Callbacks) : s \o t \in Seq(Callbacks)
<1>1. /\ Error \in Seq(Callbacks) /\ <<"error">> \in Seq(Callbacks) /\ <<>> \in Seq(Callbacks)
      /\ <<"clear">> \in Seq(Callbacks) /\ <<"success">> \in Seq(Callbacks) /\ <<"complete">> \in Seq(Callbacks)
  BY DEF Error, Callbacks
<1>2. \A s \in Seq(Callbacks) : <<>> \o s = s /\ s \o <<>> = s /\ \A t \in Seq(Callbacks) : s \o t \in Seq(Callbacks)
  BY ConcatEmptySeq, ConcatProperties
<1>3. ASSUME NEW u PROVE Success(u) \in Seq(Callbacks)
  <2>1. CASE opt[u].clears
    <3>1. Success(u) = <<"clear">> \o <<"success">> BY <2>1 DEF Success
    <3> QED BY <1>1, <1>2, <3>1
  <2>2. CASE ~opt[u].clears
    <3>1. Success(u) = <<>> \o <<"success">> BY <2>2 DEF Success
    <3> QED BY <1>1, <1>2, <3>1
  <2> QED BY <2>1, <2>2
<1>4. ASSUME NEW u PROVE Reported(u) \in Seq(Callbacks) /\ Reported(u) # <<>>
  <2>1. Success(u) \in Seq(Callbacks) BY <1>3
  <2>2. Reported(u) \in Seq(Callbacks) BY <1>1, <1>2, <2>1 DEF Reported
  <2>3. Len(Success(u)) \in Nat /\ Len(<<"complete">>) = 1 BY <2>1
  <2>4. Len(Reported(u)) = Len(Success(u)) + 1 BY <1>1, <2>1, <2>3, ConcatProperties DEF Reported
  <2>5. Len(Reported(u)) # 0 BY <2>3, <2>4
  <2> QED BY <2>2, <2>5
<1>5. Error # <<>> /\ <<"error">> \o <<"complete">> = Error
  <2> DEFINE both == <<"error">> \o <<"complete">>
  <2>1. Len(<<"error">>) = 1 /\ Len(<<"complete">>) = 1 /\ <<"error">>[1] = "error" /\ <<"complete">>[1] = "complete"
    OBVIOUS
  <2>2. /\ both \in Seq(Callbacks) /\ Len(both) = 1 + 1
        /\ \A i \in 1..1 + 1 : both[i] = IF i <= 1 THEN <<"error">>[i] ELSE <<"complete">>[i - 1]
    BY <1>1, <2>1, ConcatProperties
  <2> HIDE DEF both
  <2>3. Len(both) = 2 /\ both[1] = "error" /\ both[2] = "complete" BY <2>1, <2>2
  <2>4. Len(Error) = 2 /\ Error[1] = "error" /\ Error[2] = "complete" BY DEF Error
  <2>5. \A i \in 1..Len(both) : both[i] = Error[i] BY <2>3, <2>4
  <2>6. both = Error BY <1>1, <2>2, <2>3, <2>4, <2>5, SeqEqual
  <2> QED BY <2>4, <2>6 DEF both
<1> QED BY <1>1, <1>2, <1>3, <1>4, <1>5

(* A step that leaves everything of an upload leaves what is said of it. *)
LEMMA OwnKept ==
  ASSUME NEW u, Own(u),
         <<at[u], opt[u], called[u], hears[u], deadline[u], probe[u], retry[u], aborted[u], processed[u], late[u], threw[u]>>' =
         <<at[u], opt[u], called[u], hears[u], deadline[u], probe[u], retry[u], aborted[u], processed[u], late[u], threw[u]>>
  PROVE  Own(u)'
BY DEF Own, NotStarted, NotSent, OneCaller, Once, Open, Error, Reported, Success

(* A step that takes nothing from and adds nothing to the count. *)
LEMMA CountKept ==
  ASSUME NEW C, Counts(C), Indicator, active' = active, busy' = busy, processed' = processed,
         \A u \in Uploads : Counted(u)' = Counted(u) /\ (Over(u) => Over(u)'), Refusals => Refusals'
  PROVE  Counts(C)' /\ Indicator'
BY DEF Counts, Indicator

(* doSubmit of a timer: the listener and the timers are set. *)
LEMMA DoSubmitKeeps == ASSUME UploadInv, NEW u \in Uploads, DoSubmit(u) PROVE UploadInv'
<1> USE DEF DoSubmit, Submit, settled, history
<1>1. Types' BY OptionsAssumption DEF UploadInv, Types
<1>2. ASSUME NEW v \in Uploads PROVE Own(v)'
  <2>1. CASE v = u
    <3>1. Own(u) BY DEF UploadInv
    <3>2. NotStarted(u)' /\ NotSent(u)' BY DEF UploadInv, Types, NotStarted, NotSent
    <3>3. OneCaller(u)' BY <3>1 DEF UploadInv, Types, Own, OneCaller, NotSent
    <3>4. Once(u)' BY <3>1 DEF Own, Once, Open, Reported, Success
    <3> QED BY <2>1, <3>2, <3>3, <3>4 DEF Own
  <2>2. CASE v # u BY <2>2, OwnKept DEF UploadInv, Types
  <2> QED BY <2>1, <2>2
<1>3. \A v \in Uploads : Counted(v)' = Counted(v) /\ (Over(v) => Over(v)')
  BY DEF UploadInv, Types, Counted, Over
<1>4. Refusals => Refusals' BY DEF UploadInv, Types, Refusals
<1>5. PICK C : Counts(C) BY DEF UploadInv
<1>6. Counts(C)' /\ Indicator' BY <1>3, <1>4, <1>5, CountKept DEF UploadInv
<1> QED BY <1>1, <1>2, <1>6 DEF UploadInv

(* The caller aborts: a report is missing or the abort is late. *)
LEMMA CallerAbortsKeeps == ASSUME UploadInv, NEW u \in Uploads, CallerAborts(u) PROVE UploadInv'
<1> USE DEF CallerAborts, frame, timers
<1>0. called' = [called EXCEPT ![u] = @ \o Error] BY DEF Error
<1>1. Types' BY <1>0, Added DEF UploadInv, Types
<1>2. ASSUME NEW v \in Uploads PROVE Own(v)'
  <2>1. CASE v = u
    <3>1. Own(u) BY DEF UploadInv
    <3>2. NotStarted(u)' /\ NotSent(u)' /\ OneCaller(u)'
      BY <3>1 DEF UploadInv, Types, Own, NotStarted, NotSent, OneCaller
    <3>3. Once(u)'
      <4>1. CASE threw[u] \/ aborted[u] \/ processed[u] BY <4>1 DEF UploadInv, Types, Once
      <4>2. CASE ~threw[u] /\ ~aborted[u] /\ ~processed[u] /\ ~late[u]
        <5>1. called[u] = <<>> BY <3>1, <4>2 DEF Own, Once, Open
        <5>2. called'[u] = Error /\ aborted'[u] BY <1>0, <5>1, Added DEF UploadInv, Types
        <5> QED BY <5>2, Added DEF Once, Open
      <4> QED BY <4>1, <4>2
    <3> QED BY <2>1, <3>2, <3>3 DEF Own
  <2>2. CASE v # u BY <2>2, OwnKept DEF UploadInv, Types
  <2> QED BY <2>1, <2>2
<1>3. \A v \in Uploads : Counted(v)' = Counted(v) /\ (Over(v) => Over(v)')
  BY DEF UploadInv, Types, Counted, Over
<1>4. Refusals => Refusals' BY DEF UploadInv, Types, Refusals
<1>5. PICK C : Counts(C) BY DEF UploadInv
<1>6. Counts(C)' /\ Indicator' BY <1>3, <1>4, <1>5, CountKept DEF UploadInv
<1> QED BY <1>1, <1>2, <1>6 DEF UploadInv

-----------------------------------------------------------------------------
(* What cb and the timers that call it leave alone. *)
Only(u) ==
  /\ UNCHANGED <<at, opt>>
  /\ hears' \in [Uploads -> BOOLEAN] /\ deadline' \in [Uploads -> BOOLEAN]
  /\ probe' \in [Uploads -> BOOLEAN] /\ retry' \in [Uploads -> BOOLEAN]
  /\ \A v \in Uploads \ {u} :
       hears'[v] = hears[v] /\ deadline'[v] = deadline[v] /\ probe'[v] = probe[v] /\ retry'[v] = retry[v]

(* cb finds the upload settled, or leaves it to another time. *)
LEMMA NothingKeeps ==
  ASSUME UploadInv, NEW u \in Uploads, at[u] = "sent", Only(u), UNCHANGED <<settled, history>>,
         ~(hears[u] /\ retry[u])', Over(u) => Over(u)'
  PROVE  UploadInv'
<1> USE DEF Only, settled, history
<1>1. Types' BY DEF UploadInv, Types
<1>2. ASSUME NEW v \in Uploads PROVE Own(v)'
  <2>1. CASE v = u
    <3>1. Own(u) BY DEF UploadInv
    <3>2. NotStarted(u)' /\ NotSent(u)' /\ OneCaller(u)' BY <3>1 DEF UploadInv, Types, NotStarted, NotSent, OneCaller
    <3>3. Once(u)' BY <3>1 DEF Own, Once, Open, Reported, Success
    <3> QED BY <2>1, <3>2, <3>3 DEF Own
  <2>2. CASE v # u BY <2>2, OwnKept DEF UploadInv, Types
  <2> QED BY <2>1, <2>2
<1>3. \A v \in Uploads : Counted(v)' = Counted(v) /\ (Over(v) => Over(v)')
  BY DEF UploadInv, Types, Counted, Over
<1>4. Refusals => Refusals' BY DEF UploadInv, Types, Refusals
<1>5. PICK C : Counts(C) BY DEF UploadInv
<1>6. Counts(C)' /\ Indicator' BY <1>3, <1>4, <1>5, CountKept DEF UploadInv
<1> QED BY <1>1, <1>2, <1>6 DEF UploadInv

(* cb aborts an open upload: its error is the only report. *)
LEMMA AbortKeeps ==
  ASSUME UploadInv, NEW u \in Uploads, at[u] = "sent", Open(u), Abort(u), Only(u),
         hears' = hears, retry'[u] => retry[u]
  PROVE  UploadInv'
<1> USE DEF Only
<1>0. PICK throws \in BOOLEAN :
        /\ called' = [called EXCEPT ![u] = @ \o IF throws THEN <<"error">> ELSE <<"error", "complete">>]
        /\ threw' = [threw EXCEPT ![u] = @ \/ throws]
  BY DEF Abort
<1>a. aborted' = [aborted EXCEPT ![u] = TRUE] /\ UNCHANGED <<processed, active, busy, late>> BY DEF Abort
<1>b. called' = [called EXCEPT ![u] = @ \o IF throws THEN <<"error">> ELSE Error] BY <1>0 DEF Error
<1>1. Types' BY <1>0, <1>a, <1>b, Added DEF UploadInv, Types
<1>2. ASSUME NEW v \in Uploads PROVE Own(v)'
  <2>1. CASE v = u
    <3>1. Own(u) BY DEF UploadInv
    <3>2. NotStarted(u)' /\ NotSent(u)' /\ OneCaller(u)'
      BY <1>a, <3>1 DEF UploadInv, Types, Own, NotStarted, NotSent, OneCaller
    <3>3. Once(u)'
      <4>1. CASE threw[u] \/ late[u] \/ throws BY <1>0, <1>a, <4>1 DEF UploadInv, Types, Once
      <4>2. CASE ~threw[u] /\ ~late[u] /\ ~throws
        <5>1. called[u] = <<>> BY <3>1, <4>2 DEF Own, Once
        <5>2. called'[u] = Error /\ aborted'[u] BY <1>a, <1>b, <4>2, <5>1, Added DEF UploadInv, Types
        <5> QED BY <5>2, Added DEF Once, Open
      <4> QED BY <4>1, <4>2
    <3> QED BY <2>1, <3>2, <3>3 DEF Own
  <2>2. CASE v # u BY <1>0, <1>a, <2>2, OwnKept DEF UploadInv, Types
  <2> QED BY <2>1, <2>2
<1>3. \A v \in Uploads : Counted(v)' = Counted(v) /\ (Over(v) => Over(v)')
  BY <1>0, <1>a DEF UploadInv, Types, Counted, Over
<1>4. Refusals => Refusals' BY DEF UploadInv, Types, Refusals
<1>5. PICK C : Counts(C) BY DEF UploadInv
<1>6. Counts(C)' /\ Indicator' BY <1>a, <1>3, <1>4, <1>5, CountKept DEF UploadInv
<1> QED BY <1>1, <1>2, <1>6 DEF UploadInv

(* cb settles an open upload that was heard of: it is taken back from the    *)
(* count, unless a callback threw before it came to that.                    *)
LEMMA SettleKeeps ==
  ASSUME UploadInv, NEW u \in Uploads, NEW d, at[u] = "sent", Open(u), hears[u] \/ retry[u],
         Settle(u, d), Only(u), ~hears'[u], ~retry'[u]
  PROVE  UploadInv'
<1> USE DEF Only
<1> DEFINE outcome == IF d \in {"ok", "unready"} THEN Success(u) ELSE <<"error">>
           g == IF opt[u].global THEN 1 ELSE 0
<1>0. PICK threwIn \in {"none", "outcome", "complete"} :
        /\ called' = [called EXCEPT ![u] = @ \o outcome \o IF threwIn # "outcome" THEN <<"complete">> ELSE <<>>]
        /\ active' = IF threwIn # "outcome" THEN active - g ELSE active
        /\ busy' = (busy /\ ~(threwIn # "outcome" /\ opt[u].global /\ active - g = 0))
        /\ threw' = [threw EXCEPT ![u] = @ \/ threwIn # "none"]
        /\ processed' = [processed EXCEPT ![u] = threwIn = "none"]
        /\ UNCHANGED <<aborted, late>>
  BY DEF Settle
<1>o. outcome \in Seq(Callbacks) BY Added
<1>c. <<"complete">> \in Seq(Callbacks) BY DEF Callbacks
<1>r. outcome \o <<"complete">> = Error \/ outcome \o <<"complete">> = Reported(u) BY Added DEF Reported
<1> HIDE DEF outcome
<1>5. PICK C : Counts(C) BY DEF UploadInv
<1>6. opt[u].global => u \in C BY <1>5 DEF Counts, Counted, Over
<1>7. active \in Nat /\ (opt[u].global => active > 0)
  <2>1. active \in Nat BY DEF UploadInv, Types
  <2>2. ASSUME opt[u].global PROVE active > 0
    <3>1. u \in C /\ IsFiniteSet(C) /\ active = Cardinality(C) BY <1>5, <1>6, <2>2 DEF Counts
    <3> QED BY <2>1, <3>1, FS_EmptySet
  <2> QED BY <2>1, <2>2
<1>1. Types'
  <2>1. called' \in [Uploads -> Seq(Callbacks)] BY <1>0, <1>o, <1>c, Added DEF UploadInv, Types
  <2>2. active' \in Nat /\ busy' \in BOOLEAN BY <1>0, <1>7 DEF UploadInv, Types
  <2> QED BY <1>0, <2>1, <2>2 DEF UploadInv, Types
<1>2. ASSUME NEW v \in Uploads PROVE Own(v)'
  <2>1. CASE v = u
    <3>1. Own(u) BY DEF UploadInv
    <3>2. NotStarted(u)' /\ NotSent(u)' /\ OneCaller(u)'
      BY <3>1 DEF UploadInv, Types, Own, NotStarted, NotSent, OneCaller
    <3>3. Once(u)'
      <4>1. CASE threw[u] \/ late[u] \/ threwIn # "none" BY <1>0, <4>1 DEF UploadInv, Types, Once
      <4>2. CASE ~threw[u] /\ ~late[u] /\ threwIn = "none"
        <5>1. called[u] = <<>> BY <3>1, <4>2 DEF Own, Once
        <5>2. called'[u] = outcome \o <<"complete">> /\ processed'[u]
          BY <1>0, <1>o, <4>2, <5>1, Added DEF UploadInv, Types
        <5>3. Reported(u)' = Reported(u) BY DEF Reported, Success
        <5>4. Open(u)' = FALSE /\ (called'[u] = <<>>) = FALSE BY <1>r, <5>2, Added DEF Open
        <5>5. called'[u] = Error \/ called'[u] = Reported(u)' BY <1>r, <5>2, <5>3
        <5>6. ((called[u] = <<>>) = Open(u))' BY <5>4
        <5>7. Error' = Error BY DEF Error
        <5> QED BY <5>5, <5>6, <5>7 DEF Once
      <4> QED BY <4>1, <4>2
    <3> QED BY <2>1, <3>2, <3>3 DEF Own
  <2>2. CASE v # u
    <3>1. UNCHANGED <<called[v], threw[v], processed[v]>> BY <1>0, <2>2 DEF UploadInv, Types
    <3> QED BY <1>0, <2>2, <3>1, OwnKept DEF UploadInv
  <2> QED BY <2>1, <2>2
<1>3. Refusals' = Refusals BY DEF Refusals
<1>4. \A v \in Uploads : Counted(v)' = Counted(v) /\ (v # u => (Over(v) => Over(v)') /\ processed'[v] = processed[v])
  BY <1>0 DEF UploadInv, Types, Counted, Over
<1>8. CASE threwIn # "outcome" /\ opt[u].global
  <2>1. active' = active - 1 /\ busy' = (busy /\ active # 1) BY <1>0, <1>7, <1>8
  <2>2. C \ {u} \subseteq {v \in Uploads : Counted(v)}' BY <1>4, <1>5 DEF Counts
  <2>3. IsFiniteSet(C \ {u}) /\ active' = Cardinality(C \ {u})
    BY <1>5, <1>6, <1>8, <2>1, FS_RemoveElement DEF Counts
  <2>4. Over(u)'
    BY <1>0, <1>8 DEF UploadInv, Types, Over
  <2>5. Counts(C \ {u})' BY <1>4, <1>5, <2>2, <2>3, <2>4 DEF Counts
  <2>6. busy BY <1>7, <1>8 DEF UploadInv, Indicator
  <2>7. busy' = (active # 1) BY <2>1, <2>6
  <2>8. (active' > 0) = (active # 1) /\ (active' = 0) = (active = 1)
    <3>1. active \in Nat /\ active > 0 /\ active' = active - 1 BY <1>7, <1>8, <2>1
    <3> QED BY <3>1
  <2>9. (active > 0 => busy)' /\ ~(busy /\ active = 0)' BY <2>7, <2>8
  <2>10. Indicator' BY <2>9 DEF Indicator
  <2> QED BY <1>1, <1>2, <2>5, <2>10 DEF UploadInv
<1>9. CASE ~(threwIn # "outcome" /\ opt[u].global)
  <2>1. active' = active /\ busy' = busy BY <1>0, <1>7, <1>9 DEF UploadInv, Types
  <2>2. u \in C => ~processed'[u]
    BY <1>0, <1>5, <1>9 DEF UploadInv, Types, Counts, Counted
  <2>3. u \notin C => ~Counted(u) BY <1>5 DEF Counts, Over, Open, UploadInv, Types
  <2>4. Counts(C)' BY <1>4, <1>5, <2>1, <2>2, <2>3 DEF Counts
  <2>5. Indicator' BY <1>3, <2>1 DEF UploadInv, Indicator
  <2> QED BY <1>1, <1>2, <2>4, <2>5 DEF UploadInv
<1> QED BY <1>8, <1>9

(* What the upload is judged by stays: a load event nobody hears, an answer. *)
LEMMA UploadKept ==
  ASSUME UploadInv, UNCHANGED <<at, opt, hears, deadline, probe, retry, settled, history>>
  PROVE  UploadInv'
<1> USE DEF settled, history
<1>1. Types' BY DEF UploadInv, Types
<1>2. \A v \in Uploads : Own(v)' BY OwnKept DEF UploadInv
<1>3. PICK C : Counts(C) BY DEF UploadInv
<1>4. \A v \in Uploads : Counted(v)' = Counted(v) /\ (Over(v) => Over(v)') BY DEF Counted, Over
<1>5. Refusals => Refusals' BY DEF Refusals
<1>6. Counts(C)' /\ Indicator' BY <1>3, <1>4, <1>5, CountKept DEF UploadInv
<1> QED BY <1>1, <1>2, <1>6 DEF UploadInv

(* cb settles, aborts or does nothing, and is called for what is there. *)
LEMMA CbKeeps ==
  ASSUME UploadInv, NEW u \in Uploads, NEW event \in {"load", "retry", "timeout", "server"}, at[u] = "sent",
         event = "load" => hears[u], event = "retry" => retry[u], Cb(u, event), UNCHANGED <<at, opt>>,
         probe' \in [Uploads -> BOOLEAN], \A v \in Uploads \ {u} : probe'[v] = probe[v]
  PROVE  UploadInv'
<1> DEFINE cause == IF docs[u] = "closed" THEN "server" ELSE event
           answer == Open(u) /\ cause \in {"load", "retry"} /\ docs[u] # "blank"
           again == answer /\ docs[u] = "unready" /\ TriesAfter(u) > 0
<1>1. /\ hears' = [hears EXCEPT ![u] = @ /\ ~answer]
      /\ retry' = [retry EXCEPT ![u] = again \/ (@ /\ event # "retry")]
      /\ \/ answer /\ ~again /\ Settle(u, docs[u])
         \/ Open(u) /\ cause \in {"timeout", "server"} /\ Abort(u) /\ deadline' = [deadline EXCEPT ![u] = @ /\ event \notin {"timeout", "server"}]
         \/ /\ IF Open(u) THEN cause \in {"load", "retry"} /\ (docs[u] = "blank" \/ again) ELSE TRUE
            /\ UNCHANGED <<settled, history>> /\ deadline' = [deadline EXCEPT ![u] = @ /\ event \notin {"timeout", "server"}]
  BY DEF Cb
<1>2. answer => Open(u) /\ event \in {"load", "retry"} OBVIOUS
<1>3. Open(u) /\ cause \in {"timeout", "server"} => ~answer OBVIOUS
<1>4. again => answer OBVIOUS
<1> HIDE DEF cause, answer, again
<1>5. hears[u] => ~retry[u] BY DEF UploadInv, Own, OneCaller
<1>6. Only(u)
  <2>1. \/ deadline' = [deadline EXCEPT ![u] = @ /\ event \notin {"timeout", "server"}]
        \/ \E t \in BOOLEAN : deadline' = [deadline EXCEPT ![u] = @ /\ t]
    BY <1>1 DEF Settle
  <2> QED BY <1>1, <2>1 DEF Only, UploadInv, Types
<1>7. /\ hears'[u] = (hears[u] /\ ~answer)
      /\ retry'[u] = (again \/ (retry[u] /\ event # "retry"))
  BY <1>1 DEF UploadInv, Types
<1>8. CASE answer /\ ~again /\ Settle(u, docs[u])
  <2>1. hears[u] \/ retry[u] BY <1>2, <1>8
  <2>2. ~hears'[u] /\ ~retry'[u] BY <1>2, <1>5, <1>7, <1>8
  <2> QED BY <1>2, <1>6, <1>8, <2>1, <2>2, SettleKeeps
<1>9. CASE Open(u) /\ cause \in {"timeout", "server"} /\ Abort(u)
  <2>1. ~answer /\ ~again BY <1>3, <1>4, <1>9
  <2>2. hears' = hears BY <1>1, <2>1 DEF UploadInv, Types
  <2>3. retry'[u] => retry[u] BY <1>7, <2>1
  <2> QED BY <1>6, <1>9, <2>2, <2>3, AbortKeeps
<1>10. CASE UNCHANGED <<settled, history>>
  <2>1. ~(hears[u] /\ retry[u])' BY <1>4, <1>5, <1>7
  <2>2. Over(u) => Over(u)'
    <3>1. ASSUME Over(u) PROVE ~again
      BY <1>2, <1>4, <3>1 DEF Over
    <3> QED BY <1>7, <1>10, <3>1 DEF Over, settled, history
  <2> QED BY <1>6, <1>10, <2>1, <2>2, NothingKeeps
<1> QED BY <1>1, <1>8, <1>9, <1>10

(* The timers and the load event find the upload sent. *)
LEMMA TimersKeep == ASSUME UploadInv, NEW u \in Uploads, Timers(u) PROVE UploadInv'
<1>0. \/ hears[u] \/ deadline[u] \/ probe[u] \/ retry[u] => at[u] = "sent" BY DEF UploadInv, Own, NotSent
<1>p. probe \in [Uploads -> BOOLEAN] BY DEF UploadInv, Types
<1>s. ASSUME hears' = hears, retry' = retry, deadline' = deadline, UNCHANGED <<settled, history>>,
             at' = at, opt' = opt, probe' \in [Uploads -> BOOLEAN],
             \A v \in Uploads : v = u \/ probe'[v] = probe[v], at[u] = "sent"
      PROVE  UploadInv'
  <2>1. Only(u) BY <1>s DEF Only, UploadInv, Types
  <2>2. ~(hears[u] /\ retry[u])' BY <1>s DEF UploadInv, Own, OneCaller
  <2>3. Over(u) => Over(u)' BY <1>s DEF Over, settled, history
  <2> QED BY <1>s, <2>1, <2>2, <2>3, NothingKeeps
<1>1. CASE DoSubmit(u) BY <1>1, DoSubmitKeeps
<1>2. CASE LoadEvent(u)
  <2>1. CASE hears[u]
    <3>1. Cb(u, "load") /\ UNCHANGED <<at, opt, probe>> BY <1>2, <2>1 DEF LoadEvent
    <3> QED BY <1>0, <1>p, <2>1, <3>1, CbKeeps
  <2>2. CASE ~hears[u] BY <1>2, <2>2, UploadKept DEF LoadEvent
  <2> QED BY <2>1, <2>2
<1>3. CASE Retry(u)
  <2>1. retry[u] /\ Cb(u, "retry") /\ UNCHANGED <<at, opt, probe>> BY <1>3 DEF Retry
  <2> QED BY <1>0, <1>p, <2>1, CbKeeps
<1>4. CASE Deadline(u)
  <2>1. deadline[u] /\ Cb(u, "timeout") /\ UNCHANGED <<at, opt, probe>> BY <1>4 DEF Deadline
  <2> QED BY <1>0, <1>p, <2>1, CbKeeps
<1>5. CASE CheckState(u)
  <2>1. probe[u] /\ at' = at /\ opt' = opt /\ probe' \in [Uploads -> BOOLEAN] /\ \A v \in Uploads : v = u \/ probe'[v] = probe[v]
    BY <1>5, <1>p DEF CheckState
  <2>2. CASE docs[u] = "closed"
    <3>1. Cb(u, "server") BY <1>5, <2>2 DEF CheckState
    <3> QED BY <1>0, <2>1, <3>1, CbKeeps
  <2>3. CASE docs[u] # "closed"
    <3>1. UNCHANGED <<hears, retry, deadline, settled, history>> BY <1>5, <2>3 DEF CheckState
    <3> QED BY <1>0, <1>s, <2>1, <3>1
  <2> QED BY <2>2, <2>3
<1> QED BY <1>1, <1>2, <1>3, <1>4, <1>5 DEF Timers

-----------------------------------------------------------------------------
(* An upload starts: counted if it is global and not simply refused. *)
LEMMA UploadKeeps ==
  ASSUME UploadInv, NEW u \in Uploads, at[u] \in {"idle", "closing"}, Upload(u)
  PROVE  UploadInv'
<1> DEFINE g == IF opt[u].global THEN 1 ELSE 0
           starts == /\ at'[u] \in {"queued", "sent"} /\ active' = active + g
                     /\ aborted' = aborted /\ called' = called
           refused == at'[u] = "refused" /\ active' = active /\ aborted' = aborted /\ called' = called
           abandoned == /\ at'[u] = "refused" /\ active' = active + g
                        /\ aborted' = [aborted EXCEPT ![u] = TRUE] /\ called' = [called EXCEPT ![u] = Error]
<1>0. /\ opt \in [Uploads -> Options] /\ opt' = opt /\ UNCHANGED <<retry, processed, late, threw>>
      /\ active \in Nat /\ busy \in BOOLEAN /\ busy' = (busy \/ (opt[u].global /\ active = 0))
      /\ opt[u].global \in BOOLEAN
  BY OptionsAssumption DEF Upload, UploadInv, Types, history
<1>a. /\ called[u] = <<>> /\ aborted[u] = FALSE /\ threw[u] = FALSE /\ late[u] = FALSE /\ processed[u] = FALSE
      /\ hears[u] = FALSE /\ retry[u] = FALSE /\ deadline[u] = FALSE /\ probe[u] = FALSE
  BY DEF UploadInv, Types, Own, NotStarted, NotSent
<1>b. /\ at' \in [Uploads -> {"idle", "vetoed", "closing", "queued", "sent", "refused"}]
      /\ hears' \in [Uploads -> BOOLEAN] /\ deadline' \in [Uploads -> BOOLEAN] /\ probe' \in [Uploads -> BOOLEAN]
      /\ \A v \in Uploads \ {u} : UNCHANGED <<at[v], hears[v], deadline[v], probe[v]>>
      /\ at'[u] # "sent" => UNCHANGED <<hears[u], deadline[u], probe[u]>>
  <2>1. \/ Submit(u)
        \/ \E how \in {"queued", "refused"} : at' = [at EXCEPT ![u] = how] /\ UNCHANGED <<deadline, hears, probe>>
    BY DEF Upload
  <2>2. opt[u].limited \in BOOLEAN /\ opt[u].named \in BOOLEAN BY <1>0, OptionsAssumption
  <2>3. CASE Submit(u) BY <2>2, <2>3 DEF Submit, UploadInv, Types
  <2>4. CASE \E how \in {"queued", "refused"} : at' = [at EXCEPT ![u] = how] /\ UNCHANGED <<deadline, hears, probe>>
    BY <2>4 DEF UploadInv, Types
  <2> QED BY <2>1, <2>3, <2>4
<1>c. starts \/ refused \/ abandoned
  <2>1. CASE at' = [at EXCEPT ![u] = "refused"]
    BY <2>1 DEF Upload, Submit, Error, UploadInv, Types
  <2>2. CASE starts BY <2>2
  <2> QED BY <2>1, <2>2 DEF Upload, Submit, UploadInv, Types
<1>d. \A v \in Uploads \ {u} : UNCHANGED <<aborted[v], called[v]>> BY <1>c DEF UploadInv, Types
<1>1. Types'
  <2>1. called' \in [Uploads -> Seq(Callbacks)] /\ aborted' \in [Uploads -> BOOLEAN]
    <3>1. Error \in Seq(Callbacks) BY Added
    <3>2. called' = called \/ called' = [called EXCEPT ![u] = Error] BY <1>c
    <3>3. aborted' = aborted \/ aborted' = [aborted EXCEPT ![u] = TRUE] BY <1>c
    <3>4. called' \in [Uploads -> Seq(Callbacks)] BY <3>1, <3>2 DEF UploadInv, Types
    <3>5. aborted' \in [Uploads -> BOOLEAN] BY <3>3 DEF UploadInv, Types
    <3> QED BY <3>4, <3>5
  <2>2. active' \in Nat BY <1>0, <1>c
  <2> QED BY <1>0, <1>b, <2>1, <2>2 DEF UploadInv, Types
<1>2. ASSUME NEW v \in Uploads PROVE Own(v)'
  <2>1. CASE v = u
    <3>1. NotStarted(u)' /\ NotSent(u)' /\ OneCaller(u)'
      BY <1>0, <1>a, <1>b, <1>c DEF UploadInv, Types, NotStarted, NotSent, OneCaller
    <3>2. (called'[u] = <<>> /\ ~aborted'[u]) \/ (called'[u] = Error /\ aborted'[u])
      BY <1>a, <1>c DEF UploadInv, Types
    <3>3. Once(u)' BY <1>0, <1>a, <3>2, Added DEF Once, Open, Error
    <3> QED BY <2>1, <3>1, <3>3 DEF Own
  <2>2. CASE v # u
    <3>1. UNCHANGED <<at[v], hears[v], deadline[v], probe[v], aborted[v], called[v]>> BY <1>b, <1>d, <2>2
    <3> QED BY <1>0, <3>1, OwnKept DEF UploadInv
  <2> QED BY <2>1, <2>2
<1>3. Refusals => Refusals'
  <2>1. ASSUME NEW v \in Uploads, opt[v].global, at[v] = "refused" PROVE Refusals'
    <3>1. v # u BY <2>1
    <3> QED BY <1>0, <1>b, <2>1, <3>1 DEF Refusals
  <2> QED BY <2>1 DEF Refusals
<1>4. \A v \in Uploads \ {u} : Counted(v)' = Counted(v) /\ Over(v)' = Over(v)
  BY <1>0, <1>b, <1>d DEF Counted, Over
<1>5. PICK C : Counts(C) BY DEF UploadInv
<1>6. u \notin C BY <1>5 DEF Counts, Counted
<1>7. CASE opt[u].global /\ (starts \/ abandoned)
  <2>1. Counted(u)' BY <1>0, <1>7 DEF UploadInv, Types, Counted
  <2>2. active' = active + 1 BY <1>7
  <2>3. IsFiniteSet(C \cup {u}) /\ active' = Cardinality(C \cup {u})
    BY <1>5, <1>6, <2>2, FS_AddElement DEF Counts
  <2>4. C \cup {u} \subseteq {v \in Uploads : Counted(v)}' BY <1>4, <1>5, <2>1 DEF Counts
  <2>5. Counts(C \cup {u})' BY <1>0, <1>a, <1>4, <1>5, <2>3, <2>4 DEF Counts
  <2>6. busy' /\ active' # 0
    <3>1. active > 0 => busy BY DEF UploadInv, Indicator
    <3>2. busy \/ active = 0 BY <1>0, <3>1
    <3>3. busy' BY <1>0, <1>7, <3>2
    <3>4. active' # 0 BY <1>0, <2>2
    <3> QED BY <3>3, <3>4
  <2>7. Indicator' BY <2>6 DEF Indicator
  <2> QED BY <1>1, <1>2, <2>5, <2>7 DEF UploadInv
<1>8. CASE ~(opt[u].global /\ (starts \/ abandoned))
  <2>1. active' = active BY <1>0, <1>c, <1>8
  <2>2. ~Counted(u)' BY <1>0, <1>a, <1>c, <1>8 DEF Counted
  <2>3. Counts(C)' BY <1>0, <1>4, <1>5, <1>6, <2>1, <2>2 DEF Counts
  <2>4. opt[u].global => Refusals' BY <1>0, <1>c, <1>8 DEF Refusals
  <2>5. Indicator' BY <1>0, <1>3, <2>1, <2>4 DEF UploadInv, Indicator
  <2> QED BY <1>1, <1>2, <2>3, <2>5 DEF UploadInv
<1> QED BY <1>7, <1>8

(* ajaxSubmit starts an upload, vetoes it or waits for another request. *)
LEMMA AjaxSubmitKeeps == ASSUME UploadInv, NEW u \in Uploads, AjaxSubmit(u) PROVE UploadInv'
<1>1. CASE ~opt[u].keepAlive /\ Upload(u) BY <1>1, UploadKeeps DEF AjaxSubmit
<1>2. CASE \E how \in {"vetoed", "closing"} :
             at' = [at EXCEPT ![u] = how] /\ UNCHANGED <<opt, frame, timers, settled, history>>
  <2> USE DEF frame, timers, settled, history
  <2>0. PICK how \in {"vetoed", "closing"} :
          at' = [at EXCEPT ![u] = how] /\ UNCHANGED <<opt, frame, timers, settled, history>>
    BY <1>2
  <2>i. at[u] = "idle" BY DEF AjaxSubmit
  <2>1. Types' BY <2>0 DEF UploadInv, Types
  <2>2. ASSUME NEW v \in Uploads PROVE Own(v)'
    <3>1. CASE v = u
      <4>1. Own(u) BY DEF UploadInv
      <4>2. NotStarted(u)' /\ NotSent(u)' /\ OneCaller(u)'
        BY <2>0, <2>i, <4>1 DEF UploadInv, Types, Own, NotStarted, NotSent, OneCaller
      <4>3. Once(u)' BY <2>0, <4>1 DEF Own, Once, Open, Error, Reported, Success
      <4> QED BY <3>1, <4>2, <4>3 DEF Own
    <3>2. CASE v # u BY <2>0, <3>2, OwnKept DEF UploadInv, Types
    <3> QED BY <3>1, <3>2
  <2>3. \A v \in Uploads : Counted(v)' = Counted(v) /\ (Over(v) => Over(v)')
    BY <2>0, <2>i DEF UploadInv, Types, Counted, Over
  <2>4. Refusals => Refusals' BY <2>0, <2>i DEF UploadInv, Types, Refusals
  <2>5. PICK C : Counts(C) BY DEF UploadInv
  <2>6. Counts(C)' /\ Indicator' BY <2>0, <2>3, <2>4, <2>5, CountKept DEF UploadInv
  <2> QED BY <2>1, <2>2, <2>6 DEF UploadInv
<1> QED BY <1>1, <1>2 DEF AjaxSubmit

(* At first nothing is counted and nothing reported. *)
LEMMA InitRight == Init => UploadInv
<1> SUFFICES ASSUME Init PROVE UploadInv OBVIOUS
<1>1. Types BY Added DEF Init, Types
<1>2. \A u \in Uploads : Own(u) BY DEF Init, Own, NotStarted, NotSent, OneCaller, Once, Open
<1>3. Counts({}) BY FS_EmptySet DEF Init, Counts, Counted
<1>4. Indicator BY DEF Init, Indicator
<1> QED BY <1>1, <1>2, <1>3, <1>4 DEF UploadInv

(* The invariant says what the page sees. *)
LEMMA SafeByInv == UploadInv => UploadSafe
<1> SUFFICES ASSUME UploadInv PROVE UploadSafe OBVIOUS
<1>1. SettlesOnce BY DEF UploadInv, SettlesOnce, Own, Once, Error, Reported
<1>2. PICK C : Counts(C) BY DEF UploadInv
<1>3. active \in Nat BY DEF UploadInv, Types
<1>4. ASSUME NEW u \in Uploads, opt[u].global, at[u] \in {"queued", "sent"}, Open(u), ~threw[u]
      PROVE  busy /\ active > 0
  <2>1. Counted(u) /\ ~Over(u) BY <1>4 DEF Counted, Over, Open
  <2>2. u \in C /\ IsFiniteSet(C) /\ active = Cardinality(C) BY <1>2, <2>1 DEF Counts
  <2>3. active > 0 BY <1>3, <2>2, FS_EmptySet
  <2> QED BY <2>3 DEF UploadInv, Indicator
<1>5. ASSUME busy \/ active > 0
      PROVE  \E u \in Uploads : /\ opt[u].global
                                /\ (at[u] \in {"queued", "sent"} /\ Open(u)) \/ aborted[u] \/ threw[u] \/ at[u] = "refused"
  <2>1. CASE active > 0
    <3>1. C # {} BY <1>2, <2>1, FS_EmptySet DEF Counts
    <3>2. PICK u \in C : TRUE BY <3>1
    <3>3. u \in Uploads /\ Counted(u) /\ ~processed[u] BY <1>2, <3>2 DEF Counts
    <3> QED BY <3>3 DEF Counted, Open
  <2>2. CASE active = 0 BY <1>5, <2>2 DEF UploadInv, Indicator, Refusals
  <2> QED BY <1>3, <2>1, <2>2
<1>6. IndicatorHasCause
  <2> DEFINE global == {u \in Uploads : opt[u].global}
             InFlight(u) == at[u] \in {"queued", "sent"} /\ Open(u)
  <2>1. (\E u \in global : InFlight(u) /\ ~threw[u]) => busy /\ active > 0 BY <1>4
  <2>2. busy \/ active > 0 =>
          \E u \in global : InFlight(u) \/ aborted[u] \/ threw[u] \/ at[u] = "refused"
    <3> SUFFICES ASSUME busy \/ active > 0
                 PROVE  \E u \in global : InFlight(u) \/ aborted[u] \/ threw[u] \/ at[u] = "refused"
      OBVIOUS
    <3>1. PICK v \in Uploads : /\ opt[v].global
                               /\ (at[v] \in {"queued", "sent"} /\ Open(v)) \/ aborted[v] \/ threw[v] \/ at[v] = "refused"
      BY <1>5
    <3>2. v \in global BY <3>1
    <3>3. InFlight(v) \/ aborted[v] \/ threw[v] \/ at[v] = "refused" BY <3>1
    <3> QED BY <3>2, <3>3
  <2> QED BY <2>1, <2>2 DEF IndicatorHasCause
<1> QED BY <1>1, <1>6 DEF UploadSafe

(* Whatever meets in the browser, an upload is reported once, and the busy   *)
(* indicator shows for a reason, for any number of uploads.                  *)
THEOREM UploadsAreSafe == Spec => []UploadSafe
<1>1. UploadInv /\ [Next]_vars => UploadInv'
  <2> SUFFICES ASSUME UploadInv, [Next]_vars PROVE UploadInv' OBVIOUS
  <2>1. ASSUME NEW u \in Uploads, AjaxSubmit(u) PROVE UploadInv' BY <2>1, AjaxSubmitKeeps
  <2>2. ASSUME NEW u \in Uploads, KeptAlive(u) PROVE UploadInv' BY <2>2, UploadKeeps DEF KeptAlive
  <2>3. ASSUME NEW u \in Uploads, Timers(u) PROVE UploadInv' BY <2>3, TimersKeep
  <2>4. ASSUME NEW u \in Uploads, CallerAborts(u) PROVE UploadInv' BY <2>4, CallerAbortsKeeps
  <2>5. ASSUME NEW u \in Uploads, NEW d \in Documents, Answer(u, d) PROVE UploadInv'
    BY <2>5, UploadKept DEF Answer, timers
  <2>6. CASE UNCHANGED vars BY <2>6, UploadKept DEF vars, frame, timers
  <2> QED BY <2>1, <2>2, <2>3, <2>4, <2>5, <2>6 DEF Next
<1> QED BY <1>1, InitRight, SafeByInv, PTL DEF Spec

-----------------------------------------------------------------------------
(* The date picker: dates, of years that the code reads as it wrote them.    *)
Dates == [y : Nat \ {0}, m : 0..11, d : 1..31]
IsDate(t) == t \in Dates /\ t.d <= DaysInMonth(t.y, t.m)

-----------------------------------------------------------------------------
(* Months.  A month has 28 to 31 days, and the ones around the new year 31.  *)
LEMMA MonthLengths ==
  ASSUME NEW y \in Int, NEW m \in 0..11
  PROVE  /\ DaysInMonth(y, m) \in 28..31
         /\ m \in {0, 11} => DaysInMonth(y, m) = 31
PROOF
<1>1. m = 0 \/ m = 1 \/ m = 2 \/ m = 3 \/ m = 4 \/ m = 5 \/ m = 6 \/ m = 7 \/ m = 8 \/ m = 9 \/ m = 10 \/ m = 11
  OBVIOUS
<1>2. CASE m \in 0..3 BY <1>2 DEF DaysInMonth
<1>3. CASE m \in 4..7 BY <1>3 DEF DaysInMonth
<1>4. CASE m \in 8..11 BY <1>4 DEF DaysInMonth
<1> QED BY <1>1, <1>2, <1>3, <1>4

LEMMA DaysBeforeIsInt ==
  ASSUME NEW y \in Int, NEW m \in 0..11
  PROVE  DaysBefore(y, m) \in Int
PROOF
<1>2. CASE m \in 0..3 BY <1>2 DEF DaysBefore
<1>3. CASE m \in 4..7 BY <1>3 DEF DaysBefore
<1>4. CASE m \in 8..11 BY <1>4 DEF DaysBefore
<1> QED BY <1>2, <1>3, <1>4

(* A month that is one of the year is the month itself, the ones next to the *)
(* year are those of the years next to it.                                   *)
LEMMA MonthMade ==
  ASSUME NEW y \in Int, NEW m \in Int, NEW d \in Int
  PROVE  /\ Month(y, m, d).y \in Int /\ Month(y, m, d).m \in 0..11
         /\ Month(y, m, d) = [y |-> Month(y, m, d).y, m |-> Month(y, m, d).m, d |-> d]
         /\ m \in 0..11 => Month(y, m, d) = [y |-> y, m |-> m, d |-> d]
         /\ m = -1 => Month(y, m, d) = [y |-> y - 1, m |-> 11, d |-> d]
         /\ m = 12 => Month(y, m, d) = [y |-> y + 1, m |-> 0, d |-> d]
         /\ m >= 0 => Month(y, m, d).y >= y
PROOF
<1>1. m \div 12 \in Int /\ m % 12 \in 0..11 /\ m = 12 * (m \div 12) + (m % 12)
  OBVIOUS
<1>2. /\ m \in 0..11 => m \div 12 = 0 /\ m % 12 = m
      /\ m = -1 => m \div 12 = -1 /\ m % 12 = 11
      /\ m = 12 => m \div 12 = 1 /\ m % 12 = 0
      /\ m >= 0 => m \div 12 >= 0
  BY <1>1
<1> QED BY <1>1, <1>2 DEF Month

(* One carry: the day that the month has stays, another one goes into the    *)
(* month after.                                                              *)
LEMMA CarryOne ==
  ASSUME NEW y \in Int, NEW m \in 0..11, NEW d \in Int
  PROVE  /\ d <= DaysInMonth(y, m) => Carry([y |-> y, m |-> m, d |-> d]) = [y |-> y, m |-> m, d |-> d]
         /\ d > DaysInMonth(y, m) /\ m # 11
              => Carry([y |-> y, m |-> m, d |-> d]) = [y |-> y, m |-> m + 1, d |-> d - DaysInMonth(y, m)]
         /\ d > DaysInMonth(y, m) /\ m = 11
              => Carry([y |-> y, m |-> m, d |-> d]) = [y |-> y + 1, m |-> 0, d |-> d - DaysInMonth(y, m)]
PROOF
<1> DEFINE n == DaysInMonth(y, m)
<1>0. n \in 28..31 BY MonthLengths
<1>1. Carry([y |-> y, m |-> m, d |-> d]) = IF d > n THEN Month(y, m + 1, d - n) ELSE [y |-> y, m |-> m, d |-> d]
  BY DEF Carry
<1>2. m # 11 => Month(y, m + 1, d - n) = [y |-> y, m |-> m + 1, d |-> d - n]
  <2>1. m + 1 \in Int /\ d - n \in Int /\ (m # 11 => m + 1 \in 0..11) BY <1>0
  <2> HIDE DEF n
  <2> QED BY <2>1, MonthMade
<1>3. m = 11 => Month(y, m + 1, d - n) = [y |-> y + 1, m |-> 0, d |-> d - n]
  <2>1. m + 1 \in Int /\ d - n \in Int /\ (m = 11 => m + 1 = 12) BY <1>0
  <2> HIDE DEF n
  <2> QED BY <2>1, MonthMade
<1> HIDE DEF n
<1>4. d <= n => Carry([y |-> y, m |-> m, d |-> d]) = [y |-> y, m |-> m, d |-> d] BY <1>0, <1>1
<1>5. d > n /\ m # 11 => Carry([y |-> y, m |-> m, d |-> d]) = [y |-> y, m |-> m + 1, d |-> d - n] BY <1>0, <1>1, <1>2
<1>6. d > n /\ m = 11 => Carry([y |-> y, m |-> m, d |-> d]) = [y |-> y + 1, m |-> 0, d |-> d - n] BY <1>0, <1>1, <1>3
<1> QED BY <1>4, <1>5, <1>6 DEF n

(* The day of a month that has it is that day. *)
LEMMA DateKept ==
  ASSUME NEW y \in Int, NEW m \in 0..11, NEW d \in Int, d <= DaysInMonth(y, m)
  PROVE  Date(y, m, d) = [y |-> y, m |-> m, d |-> d]
PROOF
<1>1. Month(y, m, d) = [y |-> y, m |-> m, d |-> d]
  <2>1. m \in Int OBVIOUS
  <2> QED BY <2>1, MonthMade
<1>2. Carry([y |-> y, m |-> m, d |-> d]) = [y |-> y, m |-> m, d |-> d] BY CarryOne
<1> QED BY <1>1, <1>2 DEF Date

(* The month after. *)
After(y, m) == IF m = 11 THEN [y |-> y + 1, m |-> 0] ELSE [y |-> y, m |-> m + 1]

(* A day beyond the month, the month after that and so on. *)
LEMMA DateCarried ==
  ASSUME NEW y \in Int, NEW m \in 0..11, NEW d \in Int, d > DaysInMonth(y, m)
  PROVE  \E a \in [y : {y, y + 1}, m : 0..11], b \in [y : {y, y + 1, y + 2}, m : 0..11] :
           LET rest == d - DaysInMonth(y, m)
           IN  /\ a = After(y, m) /\ b = After(a.y, a.m)
               /\ rest <= DaysInMonth(a.y, a.m) => Date(y, m, d) = [y |-> a.y, m |-> a.m, d |-> rest]
               /\ rest > DaysInMonth(a.y, a.m)
                    => Date(y, m, d) = [y |-> b.y, m |-> b.m, d |-> rest - DaysInMonth(a.y, a.m)]
PROOF
<1>0. PICK n \in Nat : n = DaysInMonth(y, m) BY MonthLengths
<1>1. PICK a \in [y : {y, y + 1}, m : 0..11] : a = After(y, m)
  <2>1. After(y, m) \in [y : {y, y + 1}, m : 0..11] BY DEF After
  <2> QED BY <2>1
<1>2. Month(y, m, d) = [y |-> y, m |-> m, d |-> d]
  <2>1. m \in Int OBVIOUS
  <2> QED BY <2>1, MonthMade
<1>3. Carry([y |-> y, m |-> m, d |-> d]) = [y |-> a.y, m |-> a.m, d |-> d - n]
  BY <1>0, <1>1, CarryOne DEF After
<1>4. Date(y, m, d) = Carry([y |-> a.y, m |-> a.m, d |-> d - n]) BY <1>2, <1>3 DEF Date
<1>9. a.y \in Int /\ a.m \in 0..11 /\ d - n \in Int BY <1>1
<1>5. PICK k \in Nat : k = DaysInMonth(a.y, a.m) BY <1>9, MonthLengths
<1>6. d - n <= k => Date(y, m, d) = [y |-> a.y, m |-> a.m, d |-> d - n] BY <1>9, <1>4, <1>5, CarryOne
<1>8. PICK b \in [y : {y, y + 1, y + 2}, m : 0..11] : b = After(a.y, a.m)
  <2>1. After(a.y, a.m) \in [y : {y, y + 1, y + 2}, m : 0..11] BY DEF After
  <2> QED BY <2>1
<1>7. d - n > k => Date(y, m, d) = [y |-> b.y, m |-> b.m, d |-> d - n - k]
  <2>1. CASE a.m # 11
    <3>1. b.y = a.y /\ b.m = a.m + 1 BY <1>8, <2>1 DEF After
    <3>2. d - n > k => Carry([y |-> a.y, m |-> a.m, d |-> d - n]) = [y |-> a.y, m |-> a.m + 1, d |-> d - n - k]
      BY <1>9, <1>5, <2>1, CarryOne
    <3> QED BY <1>4, <3>1, <3>2
  <2>2. CASE a.m = 11
    <3>1. b.y = a.y + 1 /\ b.m = 0 BY <1>8, <2>2 DEF After
    <3>2. d - n > k => Carry([y |-> a.y, m |-> a.m, d |-> d - n]) = [y |-> a.y + 1, m |-> 0, d |-> d - n - k]
      BY <1>9, <1>5, <2>2, CarryOne
    <3> QED BY <1>4, <3>1, <3>2
  <2> QED BY <2>1, <2>2
<1> QED BY <1>0, <1>1, <1>5, <1>6, <1>7, <1>8

(* Any numbers a user may type or an arrow lead to make a date. *)
LEMMA DateMade ==
  ASSUME NEW y \in Int, NEW m \in Int, NEW d \in 1..59
  PROVE  /\ Date(y, m, d) \in [y : Int, m : 0..11, d : 1..31]
         /\ Date(y, m, d).d <= DaysInMonth(Date(y, m, d).y, Date(y, m, d).m)
         /\ m >= 0 => Date(y, m, d).y >= y
PROOF
<1>1. PICK a \in Int, b \in 0..11 : Month(y, m, d) = [y |-> a, m |-> b, d |-> d] /\ (m >= 0 => a >= y)
  <2>1. d \in Int OBVIOUS
  <2> QED BY <2>1, MonthMade
<1>2. Month(a, b, d) = [y |-> a, m |-> b, d |-> d]
  <2>1. b \in Int /\ d \in Int OBVIOUS
  <2> QED BY <2>1, MonthMade
<1>3. Date(y, m, d) = Date(a, b, d) BY <1>1, <1>2 DEF Date
<1>4. PICK n \in 28..31 : n = DaysInMonth(a, b) BY MonthLengths
<1>5. CASE d <= n
  <2>1. d \in Int /\ d <= DaysInMonth(a, b) BY <1>4, <1>5
  <2>2. Date(a, b, d) = [y |-> a, m |-> b, d |-> d] BY <2>1, DateKept
  <2> QED BY <1>1, <1>3, <1>4, <1>5, <2>2
<1>6. CASE d > n
  <2>1. d \in Int /\ d > DaysInMonth(a, b) BY <1>4, <1>6
  <2>2. PICK e \in [y : {a, a + 1}, m : 0..11], g \in [y : {a, a + 1, a + 2}, m : 0..11] :
          /\ d - n <= DaysInMonth(e.y, e.m) => Date(a, b, d) = [y |-> e.y, m |-> e.m, d |-> d - n]
          /\ d - n > DaysInMonth(e.y, e.m)
               => Date(a, b, d) = [y |-> g.y, m |-> g.m, d |-> d - n - DaysInMonth(e.y, e.m)]
    BY <1>4, <2>1, DateCarried
  <2>3. e.y \in Int /\ e.m \in 0..11 /\ g.y \in Int /\ g.m \in 0..11 OBVIOUS
  <2>4. PICK k \in 28..31 : k = DaysInMonth(e.y, e.m) BY <2>3, MonthLengths
  <2>5. DaysInMonth(g.y, g.m) \in 28..31 BY <2>3, MonthLengths
  <2>6. CASE d - n <= k BY <1>1, <1>3, <1>4, <1>6, <2>2, <2>4, <2>6
  <2>7. CASE d - n > k BY <1>1, <1>3, <1>4, <1>6, <2>2, <2>4, <2>5, <2>7
  <2> QED BY <1>4, <2>4, <2>6, <2>7
<1> QED BY <1>4, <1>5, <1>6

-----------------------------------------------------------------------------
(* The cells of the month viewed. *)
LEMMA Weekdays ==
  ASSUME NEW y \in Int, NEW m \in 0..11
  PROVE  \E x \in Int : \A d \in Int : GetDay([y |-> y, m |-> m, d |-> d]) = (x + d) % 7
PROOF
<1> DEFINE past == y - 1
<1> DEFINE x == 365 * past + past \div 4 - past \div 100 + past \div 400 + DaysBefore(y, m)
<1>1. x \in Int
  <2>1. DaysBefore(y, m) \in Int BY DaysBeforeIsInt
  <2>2. past \div 4 \in Int /\ past \div 100 \in Int /\ past \div 400 \in Int /\ 365 * past \in Int OBVIOUS
  <2> QED BY <2>1, <2>2
<1>2. \A d \in Int : GetDay([y |-> y, m |-> m, d |-> d]) = (x + d) % 7 BY DEF GetDay
<1> QED BY <1>1, <1>2

(* Of a week that ends with some day, the day it starts with is found. *)
LEMMA WeekStartsThere ==
  ASSUME NEW x \in Int, NEW w \in 0..6
  PROVE  LET k == ((x % 7) - w + 7) % 7 IN k \in 0..6 /\ (x - k) % 7 = w
PROOF
<1> DEFINE r == x % 7
<1>1. r \in 0..6 /\ x = 7 * (x \div 7) + r OBVIOUS
<1>2. PICK q \in Int : q = x \div 7 OBVIOUS
<1>3. x = 7 * q + r BY <1>1, <1>2
<1> HIDE DEF r
<1> DEFINE k == (r - w + 7) % 7
<1>4. k = IF r >= w THEN r - w ELSE r - w + 7 BY <1>1
<1>5. k \in 0..6 BY <1>1, <1>4
<1>6. (x - k) % 7 = w
  <2>1. CASE r >= w
    <3>1. x - k = 7 * q + w BY <1>1, <1>3, <1>4, <2>1
    <3> QED BY <3>1
  <2>2. CASE ~(r >= w)
    <3>1. x - k = 7 * (q - 1) + w BY <1>1, <1>3, <1>4, <2>2
    <3> HIDE DEF k
    <3> QED BY <3>1
  <2> QED BY <2>1, <2>2
<1> QED BY <1>5, <1>6 DEF r

(* The year the cells are of, and the month before the one viewed. *)
YearShown == YearMeant(view.y)
Previous == NewDate(view.y, view.m - 1, 28)

LEMMA YearIsMeant ==
  ASSUME view \in Dates
  PROVE  YearShown \in Int /\ view.m \in 0..11
BY DEF Dates, YearShown, YearMeant

LEMMA PreviousMonth ==
  ASSUME view \in Dates
  PROVE  /\ Previous.y \in Int /\ Previous.m \in 0..11
         /\ After(Previous.y, Previous.m) = [y |-> YearShown, m |-> view.m]
         /\ IF view.m = 0 THEN Previous.y = YearShown - 1 /\ Previous.m = 11
                          ELSE Previous.y = YearShown /\ Previous.m = view.m - 1
PROOF
<1>1. YearShown \in Int /\ view.m \in 0..11 /\ view.m - 1 \in Int BY YearIsMeant
<1>4. Previous = Date(YearShown, view.m - 1, 28) BY DEF Previous, NewDate, YearShown
<1>5. ASSUME NEW y \in Int, NEW m \in 0..11 PROVE Date(y, m, 28) = [y |-> y, m |-> m, d |-> 28]
  <2>1. 28 \in Int /\ 28 <= DaysInMonth(y, m) BY MonthLengths
  <2> QED BY <2>1, DateKept
<1>2. CASE view.m = 0
  <2>1. Previous = [y |-> YearShown - 1, m |-> 11, d |-> 28]
    <3>1. view.m - 1 = -1 BY <1>2
    <3>2. /\ YearShown - 1 \in Int /\ 11 \in 0..11
          /\ -1 \in Int /\ 11 \in Int /\ 28 \in Int
      BY <1>1
    <3>3. Month(YearShown, -1, 28) = [y |-> YearShown - 1, m |-> 11, d |-> 28] BY <1>1, <3>2, MonthMade
    <3>4. Month(YearShown - 1, 11, 28) = [y |-> YearShown - 1, m |-> 11, d |-> 28] BY <3>2, MonthMade
    <3>5. Date(YearShown, -1, 28) = Date(YearShown - 1, 11, 28) BY <3>3, <3>4 DEF Date
    <3>6. Date(YearShown - 1, 11, 28) = [y |-> YearShown - 1, m |-> 11, d |-> 28] BY <1>5, <3>2
    <3> QED BY <1>4, <3>1, <3>5, <3>6
  <2> QED BY <1>1, <1>2, <2>1 DEF After
<1>3. CASE view.m # 0
  <2>1. Previous = [y |-> YearShown, m |-> view.m - 1, d |-> 28]
    <3>1. view.m - 1 \in 0..11 BY <1>1, <1>3
    <3> QED BY <1>1, <1>4, <1>5, <3>1
  <2> QED BY <1>1, <1>3, <2>1 DEF After
<1> QED BY <1>2, <1>3

LEMMA FirstDay ==
  ASSUME view \in Dates, weekStart \in 0..6
  PROVE  \E k \in 0..6 :
           /\ FirstCell = [y |-> Previous.y, m |-> Previous.m, d |-> DaysInMonth(Previous.y, Previous.m) - k]
           /\ GetDay(FirstCell) = weekStart
PROOF
<1>1. Previous.y \in Int /\ Previous.m \in 0..11 BY PreviousMonth
<1>2. PICK n \in 28..31 : n = DaysInMonth(Previous.y, Previous.m) BY <1>1, MonthLengths
<1>3. PICK x \in Int : \A d \in Int : GetDay([y |-> Previous.y, m |-> Previous.m, d |-> d]) = (x + d) % 7
  BY <1>1, Weekdays
<1> DEFINE k == (((x + n) % 7) - weekStart + 7) % 7
<1>4. k \in 0..6 /\ (x + n - k) % 7 = weekStart
  <2>1. x + n \in Int OBVIOUS
  <2> QED BY <2>1, WeekStartsThere
<1>5. FirstCell = [y |-> Previous.y, m |-> Previous.m, d |-> n - k]
  <2>1. GetDay([y |-> Previous.y, m |-> Previous.m, d |-> n]) = (x + n) % 7 BY <1>3
  <2> QED BY <1>2, <2>1 DEF FirstCell, Previous
<1>6. GetDay(FirstCell) = weekStart
  <2>1. n - k \in Int /\ x + (n - k) = x + n - k BY <1>4
  <2> HIDE DEF k
  <2>2. GetDay(FirstCell) = (x + (n - k)) % 7 BY <1>3, <1>5, <2>1
  <2> QED BY <1>4, <2>1, <2>2
<1> QED BY <1>2, <1>4, <1>5, <1>6

(* The cells are the last days of the month before, all the days of the      *)
(* month viewed and the first ones of the month after.                       *)
LEMMA CellDates ==
  ASSUME view \in Dates, NEW k \in 0..6, NEW i \in 0..41,
         FirstCell = [y |-> Previous.y, m |-> Previous.m, d |-> DaysInMonth(Previous.y, Previous.m) - k]
  PROVE  LET n == DaysInMonth(Previous.y, Previous.m)
             v == DaysInMonth(YearShown, view.m)
             after == After(YearShown, view.m)
             cell == Date(FirstCell.y, FirstCell.m, FirstCell.d + i)
         IN  /\ i <= k => cell = [y |-> Previous.y, m |-> Previous.m, d |-> n - k + i]
             /\ i > k /\ i - k <= v => cell = [y |-> YearShown, m |-> view.m, d |-> i - k]
             /\ i - k > v => cell = [y |-> after.y, m |-> after.m, d |-> i - k - v]
PROOF
<1>1. Previous.y \in Int /\ Previous.m \in 0..11 /\ YearShown \in Int /\ view.m \in 0..11
  BY PreviousMonth, YearIsMeant
<1>2. PICK n \in 28..31 : n = DaysInMonth(Previous.y, Previous.m) BY <1>1, MonthLengths
<1>3. PICK v \in 28..31 : v = DaysInMonth(YearShown, view.m) BY <1>1, MonthLengths
<1>4. PICK e \in Int : e = n - k + i OBVIOUS
<1>5. Date(FirstCell.y, FirstCell.m, FirstCell.d + i) = Date(Previous.y, Previous.m, e) BY <1>2, <1>4
<1>6. CASE i <= k
  <2>1. e <= n BY <1>4, <1>6
  <2>2. Date(Previous.y, Previous.m, e) = [y |-> Previous.y, m |-> Previous.m, d |-> e]
    BY <1>1, <1>2, <2>1, DateKept
  <2> QED BY <1>2, <1>3, <1>4, <1>5, <1>6, <2>2
<1>7. CASE i > k
  <2>1. e > DaysInMonth(Previous.y, Previous.m) BY <1>2, <1>4, <1>7
  <2>2. PICK a \in [y : {Previous.y, Previous.y + 1}, m : 0..11],
             b \in [y : {Previous.y, Previous.y + 1, Previous.y + 2}, m : 0..11] :
          LET rest == e - DaysInMonth(Previous.y, Previous.m)
          IN  /\ a = After(Previous.y, Previous.m) /\ b = After(a.y, a.m)
              /\ rest <= DaysInMonth(a.y, a.m) => Date(Previous.y, Previous.m, e) = [y |-> a.y, m |-> a.m, d |-> rest]
              /\ rest > DaysInMonth(a.y, a.m)
                   => Date(Previous.y, Previous.m, e) = [y |-> b.y, m |-> b.m, d |-> rest - DaysInMonth(a.y, a.m)]
    BY <1>1, <2>1, DateCarried
  <2>5. b.y = After(YearShown, view.m).y /\ b.m = After(YearShown, view.m).m
    <3>1. a.y = YearShown /\ a.m = view.m BY <2>2, PreviousMonth
    <3> QED BY <2>2, <3>1
  <2>3. a.y = YearShown /\ a.m = view.m BY <2>2, PreviousMonth
  <2>4. e - n = i - k BY <1>4
  <2> QED BY <1>2, <1>3, <1>5, <1>7, <2>2, <2>3, <2>4, <2>5
<1> QED BY <1>6, <1>7

LEMMA TheMonthIsShown ==
  ASSUME view \in Dates, weekStart \in 0..6
  PROVE  MonthIsShown
PROOF
<1>1. YearShown \in Int /\ view.m \in 0..11 /\ Previous.y \in Int /\ Previous.m \in 0..11
  BY PreviousMonth, YearIsMeant
<1>2. PICK n \in 28..31 : n = DaysInMonth(Previous.y, Previous.m) BY <1>1, MonthLengths
<1>3. PICK v \in 28..31 : v = DaysInMonth(YearShown, view.m) BY <1>1, MonthLengths
<1>4. PICK k \in 0..6 :
        /\ FirstCell = [y |-> Previous.y, m |-> Previous.m, d |-> n - k]
        /\ GetDay(FirstCell) = weekStart
  BY <1>2, FirstDay
<1>5. ASSUME NEW d \in 1..v
      PROVE  [y |-> YearShown, m |-> view.m, d |-> d] \in Cells
  <2>1. PICK i \in 0..41 : i = k + d OBVIOUS
  <2>2. i > k /\ i - k <= v /\ i - k = d BY <2>1
  <2>3. Date(FirstCell.y, FirstCell.m, FirstCell.d + i) = [y |-> YearShown, m |-> view.m, d |-> d]
    BY <1>2, <1>3, <1>4, <2>2, CellDates
  <2> QED BY <2>3 DEF Cells
<1>6. Date(FirstCell.y, FirstCell.m, FirstCell.d) = FirstCell
  <2>1. n - k \in Int /\ n - k <= n OBVIOUS
  <2>2. Date(Previous.y, Previous.m, n - k) = [y |-> Previous.y, m |-> Previous.m, d |-> n - k]
    BY <1>1, <1>2, <2>1, DateKept
  <2> QED BY <1>4, <2>2
<1> QED BY <1>3, <1>4, <1>5, <1>6 DEF MonthIsShown, YearShown

(* The days of the year shown are picked as they are shown; the months of   *)
(* the others are numbers all the same.                                      *)
LEMMA CellsArePicked ==
  ASSUME view \in Dates, weekStart \in 0..6, NEW c \in Cells
  PROVE  /\ c.d \in 1..59 /\ MonthOfCell(c) \in Int
         /\ c.y = YearShown => Date(YearShown, MonthOfCell(c), c.d) = c
PROOF
<1>1. YearShown \in Int /\ view.m \in 0..11 /\ Previous.y \in Int /\ Previous.m \in 0..11
  BY PreviousMonth, YearIsMeant
<1>2. PICK n \in 28..31 : n = DaysInMonth(Previous.y, Previous.m) BY <1>1, MonthLengths
<1>3. PICK v \in 28..31 : v = DaysInMonth(YearShown, view.m) BY <1>1, MonthLengths
<1>4. PICK k \in 0..6 : FirstCell = [y |-> Previous.y, m |-> Previous.m, d |-> n - k] BY <1>2, FirstDay
<1>5. PICK i \in 0..41 : c = Date(FirstCell.y, FirstCell.m, FirstCell.d + i) BY DEF Cells
<1>6. PICK a : a = After(YearShown, view.m) OBVIOUS
<1>7. /\ i <= k => c = [y |-> Previous.y, m |-> Previous.m, d |-> n - k + i]
      /\ i > k /\ i - k <= v => c = [y |-> YearShown, m |-> view.m, d |-> i - k]
      /\ i - k > v => c = [y |-> a.y, m |-> a.m, d |-> i - k - v]
  BY <1>2, <1>3, <1>4, <1>5, <1>6, CellDates
<1>8. MonthOfCell(c) \in Int BY <1>1 DEF MonthOfCell
<1>9. CASE i <= k
  <2>1. c = [y |-> Previous.y, m |-> Previous.m, d |-> n - k + i] /\ n - k + i \in 1..n BY <1>7, <1>9
  <2>2. c.y = YearShown => MonthOfCell(c) = Previous.m /\ YearShown = Previous.y BY <1>1, <2>1, PreviousMonth DEF MonthOfCell
  <2>3. Date(Previous.y, Previous.m, n - k + i) = c BY <1>1, <1>2, <2>1, DateKept
  <2> QED BY <1>8, <2>1, <2>2, <2>3
<1>10. CASE i > k /\ i - k <= v
  <2>1. c = [y |-> YearShown, m |-> view.m, d |-> i - k] /\ i - k \in 1..v BY <1>7, <1>10
  <2>2. MonthOfCell(c) = view.m BY <1>1, <2>1 DEF MonthOfCell
  <2>3. Date(YearShown, view.m, i - k) = c BY <1>1, <1>3, <2>1, DateKept
  <2> QED BY <1>8, <2>1, <2>2, <2>3
<1>11. CASE i - k > v
  <2>1. c = [y |-> a.y, m |-> a.m, d |-> i - k - v] /\ i - k - v \in 1..13 BY <1>7, <1>11
  <2>2. a.y \in Int /\ a.m \in 0..11 BY <1>1, <1>6 DEF After
  <2>3. c.y = YearShown => MonthOfCell(c) = a.m /\ a.y = YearShown BY <1>1, <1>6, <2>1 DEF MonthOfCell, After
  <2>4. DaysInMonth(a.y, a.m) \in 28..31 BY <2>2, MonthLengths
  <2>5. Date(a.y, a.m, i - k - v) = c
    <3>1. i - k - v \in Int /\ i - k - v <= DaysInMonth(a.y, a.m) BY <2>1, <2>4
    <3>2. Date(a.y, a.m, i - k - v) = [y |-> a.y, m |-> a.m, d |-> i - k - v] BY <2>2, <3>1, DateKept
    <3> QED BY <2>1, <3>2
  <2> QED BY <1>8, <2>1, <2>3, <2>5
<1> QED BY <1>9, <1>10, <1>11

-----------------------------------------------------------------------------
(* What is written and read.  The orders the parts of a date may have.       *)
LEMMA Orders ==
  ASSUME NEW f \in Formats
  PROVE  /\ f[1] \in {"d", "m", "y"} /\ f[2] \in {"d", "m", "y"} /\ f[3] \in {"d", "m", "y"}
         /\ \/ f[1] = "d" /\ f[2] = "m" /\ f[3] = "y"
            \/ f[1] = "d" /\ f[2] = "y" /\ f[3] = "m"
            \/ f[1] = "m" /\ f[2] = "d" /\ f[3] = "y"
            \/ f[1] = "m" /\ f[2] = "y" /\ f[3] = "d"
            \/ f[1] = "y" /\ f[2] = "m" /\ f[3] = "d"
            \/ f[1] = "y" /\ f[2] = "d" /\ f[3] = "m"
PROOF
<1>1. f \in [1..3 -> {"d", "m", "y"}] BY FormatAssumption
<1>2. \A i, j \in 1..3 : f[i] = f[j] => i = j BY FormatAssumption
<1>3. f[1] # f[2] /\ f[1] # f[3] /\ f[2] # f[3] BY <1>2
<1>4. f[1] \in {"d", "m", "y"} /\ f[2] \in {"d", "m", "y"} /\ f[3] \in {"d", "m", "y"} BY <1>1
<1> QED BY <1>1, <1>3, <1>4

(* The numbers written are the three parts of the date. *)
LEMMA WrittenParts ==
  ASSUME NEW f \in Formats, NEW t, t.y \in Int, t.m \in Int, t.d \in Int
  PROVE  /\ Len(FormatDate(t, f)) = 3
         /\ \A i \in 1..3 : FormatDate(t, f)[i] = CASE f[i] = "d" -> t.d [] f[i] = "m" -> t.m + 1 [] OTHER -> t.y
PROOF
<1> DEFINE text == FormatDate(t, f)
<1>1. text = [i \in 1..3 |-> CASE f[i] = "d" -> t.d [] f[i] = "m" -> t.m + 1 [] OTHER -> t.y] BY DEF FormatDate
<1>2. \A i \in 1..3 : (CASE f[i] = "d" -> t.d [] f[i] = "m" -> t.m + 1 [] OTHER -> t.y) \in Int OBVIOUS
<1>3. text \in [1..3 -> Int] BY <1>1, <1>2
<1>4. text \in Seq(Int) /\ DOMAIN text = 1..3 BY <1>3, SeqDef
<1>5. DOMAIN text = 1..Len(text) /\ Len(text) \in Nat BY <1>4, LenProperties
<1>6. Len(text) = 3 BY <1>4, <1>5
<1> QED BY <1>1, <1>6

(* What may stand in the field: nothing, or three numbers. *)
Numbers == [y : Nat, m : Nat \cup {-1}, d : 0..59]
IsText(text, f) == text = <<>> \/ \E t \in Numbers : text = FormatDate(t, f)

LEMMA DatesAreNumbers == ASSUME NEW t, IsDate(t) PROVE t \in Numbers
PROOF
<1>1. t \in Dates BY DEF IsDate
<1>2. t = [y |-> t.y, m |-> t.m, d |-> t.d] /\ t.y \in Nat /\ t.m \in Nat /\ t.d \in 0..59 BY <1>1 DEF Dates
<1> QED BY <1>2 DEF Numbers

(* A part set in a date leaves a date. *)
LEMMA PartSet ==
  ASSUME NEW t, IsDate(t), NEW p \in {"d", "m", "y"}, NEW n \in Nat \ {0}, p = "d" => n <= 59
  PROVE  IsDate(SetPart(t, p, n))
PROOF
<1>1. t.y \in Nat \ {0} /\ t.m \in 0..11 /\ t.d \in 1..31 BY DEF IsDate, Dates
<1>2. PICK y \in Nat \ {0}, m \in Nat, d \in 1..59 : SetPart(t, p, n) = Date(y, m, d)
  <2>1. CASE p = "d"
    <3>1. SetPart(t, p, n) = Date(t.y, t.m, n) BY <2>1 DEF SetPart, SetDate
    <3>2. n \in 1..59 /\ t.m \in Nat BY <1>1, <2>1
    <3> QED BY <1>1, <3>1, <3>2
  <2>2. CASE p = "m"
    <3>1. SetPart(t, p, n) = Date(t.y, n - 1, t.d) BY <2>2 DEF SetPart, SetMonth
    <3>2. n - 1 \in Nat /\ t.d \in 1..59 BY <1>1
    <3> QED BY <1>1, <3>1, <3>2
  <2>3. CASE p = "y"
    <3>1. SetPart(t, p, n) = Date(n, t.m, t.d) BY <2>3 DEF SetPart, SetFullYear
    <3>2. t.m \in Nat /\ t.d \in 1..59 BY <1>1
    <3> QED BY <1>1, <3>1, <3>2
  <2> QED BY <2>1, <2>2, <2>3
<1>3. y \in Int /\ m \in Int /\ m >= 0 OBVIOUS
<1>4. PICK r : r = Date(y, m, d) OBVIOUS
<1>5. r \in [y : Int, m : 0..11, d : 1..31] /\ r.d <= DaysInMonth(r.y, r.m) /\ r.y >= y
  BY <1>3, <1>4, DateMade
<1>6. r \in Dates
  <2>1. r.y \in Nat \ {0} BY <1>5
  <2> QED BY <1>5, <2>1 DEF Dates
<1> QED BY <1>2, <1>4, <1>5, <1>6 DEF IsDate

(* Whatever stands in the field is read as a date. *)
LEMMA ReadIsDate ==
  ASSUME NEW f \in Formats, NEW text, IsText(text, f)
  PROVE  IsDate(ParseDate(text, f))
PROOF
<1> DEFINE start == [y |-> 1970, m |-> 1, d |-> 1]
<1>1. IsDate(start)
  <2>1. DaysInMonth(1970, 1) \in 28..31 BY MonthLengths
  <2> QED BY <2>1 DEF IsDate, Dates
<1>2. CASE text = <<>>
  <2>1. Len(text) = 0 BY <1>2
  <2> QED BY <1>1, <2>1 DEF ParseDate
<1>3. CASE text # <<>>
  <2>1. PICK t \in Numbers : text = FormatDate(t, f) BY <1>3 DEF IsText
  <2>2. t.y \in Int /\ t.m \in Int /\ t.d \in Int /\ t.y \in Nat /\ t.m + 1 \in Nat /\ t.d \in 0..59 BY DEF Numbers
  <2>3. /\ Len(text) = 3
        /\ \A i \in 1..3 : text[i] = CASE f[i] = "d" -> t.d [] f[i] = "m" -> t.m + 1 [] OTHER -> t.y
    BY <2>1, <2>2, WrittenParts
  <2>4. \A i \in 1..3 : /\ f[i] \in {"d", "m", "y"} /\ OrOne(text[i]) \in Nat \ {0}
                        /\ f[i] = "d" => OrOne(text[i]) <= 59
    <3> SUFFICES ASSUME NEW i \in 1..3
                 PROVE  /\ f[i] \in {"d", "m", "y"} /\ OrOne(text[i]) \in Nat \ {0}
                        /\ f[i] = "d" => OrOne(text[i]) <= 59
      OBVIOUS
    <3>1. f[i] \in {"d", "m", "y"}
      <4>1. i = 1 \/ i = 2 \/ i = 3 OBVIOUS
      <4> QED BY <4>1, Orders
    <3>2. text[i] \in Nat /\ (f[i] = "d" => text[i] \in 0..59) BY <2>2, <2>3
    <3> QED BY <3>1, <3>2 DEF OrOne
  <2> DEFINE s1 == SetPart(start, f[1], OrOne(text[1]))
             s2 == SetPart(s1, f[2], OrOne(text[2]))
             s3 == SetPart(s2, f[3], OrOne(text[3]))
  <2>5. ParseDate(text, f) = s3 BY <2>3 DEF ParseDate
  <2> HIDE DEF start
  <2>9. /\ f[1] \in {"d", "m", "y"} /\ OrOne(text[1]) \in Nat \ {0} /\ (f[1] = "d" => OrOne(text[1]) <= 59)
        /\ f[2] \in {"d", "m", "y"} /\ OrOne(text[2]) \in Nat \ {0} /\ (f[2] = "d" => OrOne(text[2]) <= 59)
        /\ f[3] \in {"d", "m", "y"} /\ OrOne(text[3]) \in Nat \ {0} /\ (f[3] = "d" => OrOne(text[3]) <= 59)
    BY <2>4
  <2>6. IsDate(s1) BY <1>1, <2>9, PartSet
  <2> HIDE DEF s1
  <2>7. IsDate(s2) BY <2>9, <2>6, PartSet
  <2> HIDE DEF s2
  <2>8. IsDate(s3) BY <2>9, <2>7, PartSet
  <2> QED BY <2>5, <2>8
<1> QED BY <1>2, <1>3

DateOf(y, m, d) == [y |-> y, m |-> m, d |-> d]

(* What the picker writes of a date it reads back as that date, where the    *)
(* format ends with the day or the day is one that every month has.         *)
THEOREM ReadsWhatIsWritten ==
  ASSUME NEW f \in Formats, NEW t, IsDate(t), f[3] = "d" \/ t.d <= 28
  PROVE  ParseDate(FormatDate(t, f), f) = t
PROOF
<1> DEFINE text == FormatDate(t, f)
           start == DateOf(1970, 1, 1)
<1>1. PICK y \in Nat \ {0}, m \in 0..11, d \in 1..31 : t = DateOf(y, m, d) /\ d <= DaysInMonth(y, m)
  BY DEF IsDate, Dates, DateOf
<1>2. /\ Len(text) = 3
      /\ \A i \in 1..3 : text[i] = CASE f[i] = "d" -> d [] f[i] = "m" -> m + 1 [] OTHER -> y
  BY <1>1, WrittenParts DEF DateOf
<1> HIDE DEF text
<1>3. /\ Len(text) = 3
      /\ \A i \in 1..3 : OrOne(text[i]) = CASE f[i] = "d" -> d [] f[i] = "m" -> m + 1 [] OTHER -> y
  BY <1>2 DEF OrOne
<1> DEFINE s1 == SetPart(start, f[1], OrOne(text[1]))
           s2 == SetPart(s1, f[2], OrOne(text[2]))
           s3 == SetPart(s2, f[3], OrOne(text[3]))
<1>4. ParseDate(text, f) = s3 BY <1>3 DEF ParseDate, DateOf
<1>5. y \in Int /\ m + 1 \in Int /\ (m + 1) - 1 = m /\ d \in Int /\ 1 \in 0..11 /\ 1 \in 1..31 /\ 1970 \in Int /\ 1 \in Int OBVIOUS
<1>10. \A a \in Int, b \in 0..11, c \in 1..31 :
         /\ c <= 28 => SetPart(DateOf(a, b, c), "y", y) = DateOf(y, b, c)
         /\ c <= 28 => SetPart(DateOf(a, b, c), "m", m + 1) = DateOf(a, m, c)
         /\ d <= DaysInMonth(a, b) => SetPart(DateOf(a, b, c), "d", d) = DateOf(a, b, d)
  <2> TAKE a \in Int, b \in 0..11, c \in 1..31
  <2>1. c <= 28 => SetPart(DateOf(a, b, c), "y", y) = DateOf(y, b, c)
    <3>1. SetPart(DateOf(a, b, c), "y", y) = Date(y, b, c) BY DEF SetPart, SetFullYear, DateOf
    <3>2. c \in Int /\ DaysInMonth(y, b) \in 28..31 BY <1>5, MonthLengths
    <3>3. c <= 28 => Date(y, b, c) = DateOf(y, b, c) BY <1>5, <3>2, DateKept DEF DateOf
    <3> QED BY <3>1, <3>3
  <2>2. c <= 28 => SetPart(DateOf(a, b, c), "m", m + 1) = DateOf(a, m, c)
    <3>1. SetPart(DateOf(a, b, c), "m", m + 1) = Date(a, m, c) BY <1>5 DEF SetPart, SetMonth, DateOf
    <3>2. c \in Int /\ DaysInMonth(a, m) \in 28..31 BY <1>5, MonthLengths
    <3>3. c <= 28 => Date(a, m, c) = DateOf(a, m, c) BY <3>2, DateKept DEF DateOf
    <3> QED BY <3>1, <3>3
  <2>3. d <= DaysInMonth(a, b) => SetPart(DateOf(a, b, c), "d", d) = DateOf(a, b, d)
    <3>1. SetPart(DateOf(a, b, c), "d", d) = Date(a, b, d) BY DEF SetPart, SetDate, DateOf
    <3>2. d <= DaysInMonth(a, b) => Date(a, b, d) = DateOf(a, b, d) BY <1>5, DateKept DEF DateOf
    <3> QED BY <3>1, <3>2
  <2> QED BY <2>1, <2>2, <2>3
<1>9. /\ (f[1] = "d" => OrOne(text[1]) = d) /\ (f[1] = "m" => OrOne(text[1]) = m + 1) /\ (f[1] = "y" => OrOne(text[1]) = y)
      /\ (f[2] = "d" => OrOne(text[2]) = d) /\ (f[2] = "m" => OrOne(text[2]) = m + 1) /\ (f[2] = "y" => OrOne(text[2]) = y)
      /\ (f[3] = "d" => OrOne(text[3]) = d) /\ (f[3] = "m" => OrOne(text[3]) = m + 1) /\ (f[3] = "y" => OrOne(text[3]) = y)
  BY <1>3
<1>11. f[3] # "d" => d <= 28 BY <1>1 DEF DateOf
<1>12. d <= 28 => \A a \in Int, b \in 0..11 : d <= DaysInMonth(a, b)
  <2> SUFFICES ASSUME d <= 28, NEW a \in Int, NEW b \in 0..11 PROVE d <= DaysInMonth(a, b) OBVIOUS
  <2>1. DaysInMonth(a, b) \in 28..31 BY MonthLengths
  <2> QED BY <2>1
<1>13. CASE f[1] = "y" /\ f[2] = "m" /\ f[3] = "d"
  <2>1. s1 = DateOf(y, 1, 1) BY <1>5, <1>9, <1>10, <1>13
  <2> HIDE DEF s1
  <2>2. s2 = DateOf(y, m, 1) BY <1>5, <1>9, <1>10, <1>13, <2>1
  <2> HIDE DEF s2
  <2>3. s3 = DateOf(y, m, d) BY <1>5, <1>9, <1>10, <1>13, <1>1, <2>2
  <2> QED BY <1>1, <1>4, <2>3 DEF text
<1>14. CASE f[1] = "m" /\ f[2] = "y" /\ f[3] = "d"
  <2>1. s1 = DateOf(1970, m, 1) BY <1>5, <1>9, <1>10, <1>14
  <2> HIDE DEF s1
  <2>2. s2 = DateOf(y, m, 1) BY <1>5, <1>9, <1>10, <1>14, <2>1
  <2> HIDE DEF s2
  <2>3. s3 = DateOf(y, m, d) BY <1>5, <1>9, <1>10, <1>14, <1>1, <2>2
  <2> QED BY <1>1, <1>4, <2>3 DEF text
<1>15. CASE f[1] = "y" /\ f[2] = "d" /\ f[3] = "m"
  <2>1. s1 = DateOf(y, 1, 1) BY <1>5, <1>9, <1>10, <1>15, <1>11, <1>12
  <2> HIDE DEF s1
  <2>2. s2 = DateOf(y, 1, d) BY <1>5, <1>9, <1>10, <1>15, <1>11, <1>12, <2>1
  <2> HIDE DEF s2
  <2>3. s3 = DateOf(y, m, d) BY <1>5, <1>9, <1>10, <1>15, <1>11, <1>12, <2>2
  <2> QED BY <1>1, <1>4, <2>3 DEF text
<1>16. CASE f[1] = "m" /\ f[2] = "d" /\ f[3] = "y"
  <2>1. s1 = DateOf(1970, m, 1) BY <1>5, <1>9, <1>10, <1>16, <1>11, <1>12
  <2> HIDE DEF s1
  <2>2. s2 = DateOf(1970, m, d) BY <1>5, <1>9, <1>10, <1>16, <1>11, <1>12, <2>1
  <2> HIDE DEF s2
  <2>3. s3 = DateOf(y, m, d) BY <1>5, <1>9, <1>10, <1>16, <1>11, <1>12, <2>2
  <2> QED BY <1>1, <1>4, <2>3 DEF text
<1>17. CASE f[1] = "d" /\ f[2] = "m" /\ f[3] = "y"
  <2>1. s1 = DateOf(1970, 1, d) BY <1>5, <1>9, <1>10, <1>17, <1>11, <1>12
  <2> HIDE DEF s1
  <2>2. s2 = DateOf(1970, m, d) BY <1>5, <1>9, <1>10, <1>17, <1>11, <1>12, <2>1
  <2> HIDE DEF s2
  <2>3. s3 = DateOf(y, m, d) BY <1>5, <1>9, <1>10, <1>17, <1>11, <1>12, <2>2
  <2> QED BY <1>1, <1>4, <2>3 DEF text
<1>18. CASE f[1] = "d" /\ f[2] = "y" /\ f[3] = "m"
  <2>1. s1 = DateOf(1970, 1, d) BY <1>5, <1>9, <1>10, <1>18, <1>11, <1>12
  <2> HIDE DEF s1
  <2>2. s2 = DateOf(y, 1, d) BY <1>5, <1>9, <1>10, <1>18, <1>11, <1>12, <2>1
  <2> HIDE DEF s2
  <2>3. s3 = DateOf(y, m, d) BY <1>5, <1>9, <1>10, <1>18, <1>11, <1>12, <2>2
  <2> QED BY <1>1, <1>4, <2>3 DEF text
<1> QED BY Orders, <1>13, <1>14, <1>15, <1>16, <1>17, <1>18

-----------------------------------------------------------------------------
(* The invariant: the date held and the one viewed are dates, and what the   *)
(* picker wrote last is the date it holds, or is read as that date.          *)
Settings ==
  /\ format \in Formats /\ weekStart \in WeekStarts /\ viewMode \in 0..2
  /\ shown \in BOOLEAN /\ own \in BOOLEAN
FieldInv ==
  /\ IsText(fieldText, format)
  /\ own => fieldText = FormatDate(date, format) \/ ParseDate(fieldText, format) = date
PickerInv == Settings /\ IsDate(date) /\ IsDate(view) /\ FieldInv /\ clicked = date

LEMMA InvIsRight == ASSUME PickerInv PROVE PickerRight
PROOF
<1>1. PickerTypeOK
  <2>1. ASSUME NEW t, IsDate(t) PROVE t.m \in 0..11 /\ t.d \in 1..DaysInMonth(t.y, t.m)
    <3>1. t.y \in Int /\ t.m \in 0..11 /\ t.d \in 1..31 /\ t.d <= DaysInMonth(t.y, t.m) BY <2>1 DEF IsDate, Dates
    <3>2. DaysInMonth(t.y, t.m) \in 28..31 BY <3>1, MonthLengths
    <3> QED BY <3>1, <3>2
  <2> QED BY <2>1 DEF PickerInv, Settings, PickerTypeOK
<1>2. MonthIsShown
  <2>1. view \in Dates BY DEF PickerInv, IsDate
  <2>2. weekStart \in 0..6 BY FormatAssumption DEF PickerInv, Settings
  <2> QED BY <2>1, <2>2, TheMonthIsShown
<1>3. PicksWhatIsShown BY DEF PickerInv, PicksWhatIsShown
<1>4. ReadsBack
  <2>1. format \in Formats /\ IsDate(date) BY DEF PickerInv, Settings
  <2>2. date.d \in Int BY <2>1 DEF IsDate, Dates
  <2>3. format[3] = "d" \/ date.d <= 28 => ParseDate(FormatDate(date, format), format) = date
    BY <2>1, ReadsWhatIsWritten
  <2>4. own => fieldText = FormatDate(date, format) \/ ParseDate(fieldText, format) = date BY DEF PickerInv, FieldInv
  <2> QED BY <2>2, <2>3, <2>4 DEF ReadsBack
<1> QED BY <1>1, <1>2, <1>3, <1>4 DEF PickerRight

LEMMA InvHoldsAtFirst == ASSUME PickerInit PROVE PickerInv
PROOF
<1>1. format \in Formats /\ weekStart \in WeekStarts BY DEF PickerInit
<1>2. PICK t \in Typed : fieldText = FormatDate(t, format) BY DEF PickerInit
<1>3. IsText(fieldText, format) BY <1>2, FormatAssumption DEF IsText, Numbers
<1>4. IsDate(date) /\ view = date /\ clicked = date BY <1>1, <1>3, ReadIsDate DEF PickerInit
<1>5. viewMode = 0 /\ shown = FALSE /\ own = FALSE BY DEF PickerInit
<1>6. Settings
  <2>1. shown \in BOOLEAN /\ own \in BOOLEAN BY <1>5, Zenon
  <2>2. viewMode \in 0..2 BY <1>5
  <2> QED BY <1>1, <2>1, <2>2 DEF Settings
<1>7. FieldInv BY <1>3, <1>5 DEF FieldInv
<1> QED BY <1>4, <1>6, <1>7 DEF PickerInv

(* What SetValue writes is a text of numbers. *)
LEMMA WritesNumbers == ASSUME NEW f, NEW t, IsDate(t) PROVE IsText(FormatDate(t, f), f)
PROOF
<1> QED BY DatesAreNumbers DEF IsText

LEMMA InvHoldsOn == ASSUME PickerInv, [PickerNext]_pickerVars PROVE PickerInv'
PROOF
<1>1. /\ format \in Formats /\ weekStart \in WeekStarts /\ viewMode \in 0..2
      /\ shown \in BOOLEAN /\ own \in BOOLEAN
      /\ IsDate(date) /\ IsDate(view) /\ clicked = date /\ IsText(fieldText, format)
      /\ own => fieldText = FormatDate(date, format) \/ ParseDate(fieldText, format) = date
  BY DEF PickerInv, Settings, FieldInv
<1>2. weekStart \in 0..6 /\ view \in Dates BY <1>1, FormatAssumption DEF IsDate
<1>3. view.y \in Nat \ {0} /\ view.m \in 0..11 /\ view.d \in 1..31 BY <1>2 DEF Dates
<1>4. ASSUME NEW y \in Int, NEW m \in Int, NEW d \in 1..59, Date(y, m, d).y \in Nat \ {0}
      PROVE  IsDate(Date(y, m, d))
  <2>1. PICK r : r = Date(y, m, d) OBVIOUS
  <2>2. r \in [y : Int, m : 0..11, d : 1..31] /\ r.d <= DaysInMonth(r.y, r.m) BY <2>1, DateMade
  <2> QED BY <1>4, <2>1, <2>2 DEF IsDate, Dates
<1>5. ASSUME NEW y \in Nat \ {0}, NEW m \in Nat, NEW d \in 1..59 PROVE IsDate(Date(y, m, d))
  <2>1. y \in Int /\ m \in Int /\ m >= 0 OBVIOUS
  <2>2. Date(y, m, d) \in [y : Int, m : 0..11, d : 1..31] /\ Date(y, m, d).y >= y BY <2>1, DateMade
  <2>3. Date(y, m, d).y \in Nat \ {0} BY <2>2
  <2> QED BY <1>4, <2>1, <2>3
<1>6. Years \subseteq Nat \ {0} BY FormatAssumption
<1>7. CASE ClickDay
  <2>0. view.y \in Int /\ YearShown \in Int BY <1>2, <1>3, YearIsMeant
  <2>1. PICK c \in Cells :
          LET t == Date(YearShown, MonthOfCell(c), c.d)
          IN  /\ viewMode = 0 /\ t.y \in Years
              /\ date' = t /\ view' = t /\ SetValue(t)
              /\ clicked' = (IF c.y = YearShown THEN c ELSE t)
              /\ UNCHANGED <<format, weekStart, viewMode, shown>>
    BY <1>7 DEF ClickDay, NewDate, YearShown
  <2>2. /\ c.d \in 1..59 /\ MonthOfCell(c) \in Int
        /\ c.y = YearShown => Date(YearShown, MonthOfCell(c), c.d) = c
    BY <1>2, CellsArePicked
  <2>3. IsDate(date') /\ view' = date'
    <3>1. Date(YearShown, MonthOfCell(c), c.d).y \in Nat \ {0} BY <1>6, <2>1
    <3> QED BY <1>4, <2>0, <2>1, <2>2, <3>1
  <2>4. clicked' = date' BY <2>1, <2>2
  <2>5. fieldText' = FormatDate(date', format') /\ own' = TRUE BY <2>1 DEF SetValue
  <2>6. IsText(fieldText', format') BY <2>3, <2>5, WritesNumbers
  <2> QED BY <1>1, <2>1, <2>3, <2>4, <2>5, <2>6 DEF PickerInv, Settings, FieldInv
<1>8. CASE Show /\ clicked' = date'
  <2>1. /\ shown' = TRUE /\ clicked' = date'
        /\ format' = format /\ weekStart' = weekStart /\ date' = date /\ view' = view /\ viewMode' = viewMode
        /\ fieldText' = fieldText /\ own' = own
    BY <1>8 DEF Show
  <2>2. Settings' BY <1>1, <2>1 DEF Settings
  <2>3. FieldInv' BY <1>1, <2>1 DEF FieldInv
  <2>4. IsDate(date') /\ IsDate(view') /\ clicked' = date' BY <1>1, <2>1
  <2> QED BY <2>2, <2>3, <2>4 DEF PickerInv
<1>9. CASE Hide /\ clicked' = date'
  <2>1. fieldText' = FormatDate(date, format) /\ own' = TRUE BY <1>9 DEF Hide, SetValue
  <2>2. IsText(fieldText', format) BY <1>1, <2>1, WritesNumbers
  <2>3. /\ shown' = FALSE /\ viewMode' = 0 /\ clicked' = date'
        /\ format' = format /\ weekStart' = weekStart /\ date' = date /\ view' = view
    BY <1>9 DEF Hide
  <2>4. Settings'
    <3>1. shown' \in BOOLEAN /\ own' \in BOOLEAN BY <2>1, <2>3, Zenon
    <3>2. viewMode' \in 0..2 BY <2>3
    <3> QED BY <1>1, <2>3, <3>1, <3>2 DEF Settings
  <2>5. FieldInv' BY <2>1, <2>2, <2>3 DEF FieldInv
  <2>6. IsDate(date') /\ IsDate(view') /\ clicked' = date' BY <1>1, <2>3
  <2> QED BY <2>4, <2>5, <2>6 DEF PickerInv
<1>10. CASE Update /\ clicked' = date'
  <2>1. /\ fieldText' \in {FormatDate(t, format) : t \in Typed} \cup {<<>>, fieldText}
        /\ own' = (own /\ fieldText' = fieldText)
        /\ date' = ParseDate(fieldText', format) /\ view' = date'
        /\ UNCHANGED <<format, weekStart, viewMode, shown>>
    BY <1>10 DEF Update
  <2>2. IsText(fieldText', format)
    <3>1. CASE fieldText' \in {FormatDate(t, format) : t \in Typed}
      BY <3>1, FormatAssumption DEF IsText, Numbers
    <3> QED BY <1>1, <2>1, <3>1 DEF IsText
  <2>3. IsDate(date') BY <1>1, <2>1, <2>2, ReadIsDate
  <2>4. ParseDate(fieldText', format') = date' /\ format' = format /\ own' \in BOOLEAN BY <1>1, <2>1
  <2> QED BY <1>1, <1>10, <2>1, <2>2, <2>3, <2>4 DEF PickerInv, Settings, FieldInv
<1>11. CASE Switch /\ clicked' = date'
  <2>1. viewMode' \in 0..2 BY <1>1, <1>11 DEF Switch
  <2> QED BY <1>1, <1>11, <2>1 DEF Switch, PickerInv, Settings, FieldInv
<1>12. CASE Navigate /\ clicked' = date'
  <2>1. IsDate(view')
    <3>1. PICK dir \in {-1, 1} :
            LET to == CASE viewMode = 0 -> SetMonth(view, view.m + dir)
                        [] viewMode = 1 -> SetFullYear(view, view.y + dir)
                        [] OTHER -> SetFullYear(view, view.y + 10 * dir)
            IN  to.y \in Years /\ view' = to
      BY <1>12 DEF Navigate
    <3>2. view'.y \in Nat \ {0} BY <1>6, <3>1
    <3>3. PICK y \in Int, m \in Int : view' = Date(y, m, view.d)
      <4>1. CASE viewMode = 0
        <5>1. view' = Date(view.y, view.m + dir, view.d) BY <3>1, <4>1 DEF SetMonth
        <5>2. view.y \in Int /\ view.m + dir \in Int BY <1>3
        <5> QED BY <5>1, <5>2
      <4>2. CASE viewMode = 1
        <5>1. view' = Date(view.y + dir, view.m, view.d) BY <3>1, <4>2 DEF SetFullYear
        <5>2. view.y + dir \in Int /\ view.m \in Int BY <1>3
        <5> QED BY <5>1, <5>2
      <4>3. CASE viewMode = 2
        <5>1. view' = Date(view.y + 10 * dir, view.m, view.d) BY <3>1, <4>3 DEF SetFullYear
        <5>2. view.y + 10 * dir \in Int /\ view.m \in Int BY <1>3
        <5> QED BY <5>1, <5>2
      <4> QED BY <1>1, <4>1, <4>2, <4>3
    <3>4. view.d \in 1..59 BY <1>3
    <3> QED BY <1>4, <3>2, <3>3, <3>4
  <2> QED BY <1>1, <1>12, <2>1 DEF Navigate, PickerInv, Settings, FieldInv
<1>13. CASE ClickMonth /\ clicked' = date'
  <2>1. PICK m \in 0..11 : view' = SetMonth(view, m) BY <1>13 DEF ClickMonth
  <2>2. IsDate(view')
    <3>1. view' = Date(view.y, m, view.d) BY <2>1 DEF SetMonth
    <3>2. m \in Nat /\ view.d \in 1..59 BY <1>3
    <3> QED BY <1>3, <1>5, <3>1, <3>2
  <2> QED BY <1>1, <1>13, <2>2 DEF ClickMonth, PickerInv, Settings, FieldInv
<1>14. CASE ClickYear /\ clicked' = date'
  <2>1. PICK y \in Years : view' = SetFullYear(view, y) BY <1>14 DEF ClickYear
  <2>2. IsDate(view')
    <3>1. view' = Date(y, view.m, view.d) BY <2>1 DEF SetFullYear
    <3>2. y \in Nat \ {0} /\ view.m \in Nat /\ view.d \in 1..59 BY <1>3, <1>6
    <3> QED BY <1>5, <3>1, <3>2
  <2> QED BY <1>1, <1>14, <2>2 DEF ClickYear, PickerInv, Settings, FieldInv
<1>15. CASE UNCHANGED pickerVars
  BY <1>1, <1>15 DEF pickerVars, PickerInv, Settings, FieldInv
<1> QED BY <1>7, <1>8, <1>9, <1>10, <1>11, <1>12, <1>13, <1>14, <1>15 DEF PickerNext

(* Whatever is typed, clicked and paged through, in any year from 1 on: the  *)
(* six weeks show the month viewed, below 100 that of the 1900s, and begin   *)
(* with a week, a click picks the day it is on, and what the picker wrote it *)
(* reads back, as far as PickerRight says.                                   *)
THEOREM PickerIsRight == PickerSpec => []PickerRight
PROOF
<1>1. PickerInit => PickerInv BY InvHoldsAtFirst
<1>2. PickerInv /\ [PickerNext]_pickerVars => PickerInv' BY InvHoldsOn
<1>3. PickerInv => PickerRight BY InvIsRight
<1> QED BY <1>1, <1>2, <1>3, PTL DEF PickerSpec

-----------------------------------------------------------------------------
(* How often a pair is sent. *)
LEMMA TimesAre ==
  ASSUME NEW S, NEW s \in Seq(S), NEW p
  PROVE  Times(s, p) \in Nat /\ IsFiniteSet({i \in DOMAIN s : s[i] = p})
<1>1. Len(s) \in Nat /\ DOMAIN s = 1..Len(s)
  OBVIOUS
<1>2. IsFiniteSet(1..Len(s))
  BY <1>1, FS_Interval
<1> DEFINE T == {i \in DOMAIN s : s[i] = p}
<1>3. T \in SUBSET (1..Len(s))
  BY <1>1
<1>4. IsFiniteSet(T)
  BY <1>2, <1>3, FS_Subset
<1> QED
  BY <1>4, FS_CardinalityType DEF Times

LEMMA TimesOfBoth ==
  ASSUME NEW S, NEW x \in Seq(S), NEW y \in Seq(S), NEW p
  PROVE  Times(x \o y, p) = Times(x, p) + Times(y, p)
<1> DEFINE z == x \o y
           a == Len(x)
           b == Len(y)
           X == {i \in 1..a : x[i] = p}
           Y == {i \in 1..b : y[i] = p}
           Z == {i \in 1..a + b : z[i] = p}
           Moved == {i \in Z : i > a}
           move == [i \in Y |-> a + i]
<1>1. /\ a \in Nat /\ b \in Nat /\ Len(z) = a + b /\ z \in Seq(S)
      /\ DOMAIN x = 1..a /\ DOMAIN y = 1..b /\ DOMAIN z = 1..a + b
  OBVIOUS
<1>2. (\A k \in 1..a : z[k] = x[k]) /\ \A k \in 1..b : z[a + k] = y[k]
  BY Appending
<1>3. Times(x, p) = Cardinality(X) /\ Times(y, p) = Cardinality(Y) /\ Times(z, p) = Cardinality(Z)
  BY <1>1 DEF Times
<1>4. IsFiniteSet(X) /\ IsFiniteSet(Y) /\ Cardinality(X) \in Nat /\ Cardinality(Y) \in Nat
  <2>1. {i \in DOMAIN x : x[i] = p} = X /\ {i \in DOMAIN y : y[i] = p} = Y
    BY <1>1
  <2>2. IsFiniteSet({i \in DOMAIN x : x[i] = p}) /\ IsFiniteSet({i \in DOMAIN y : y[i] = p})
    BY TimesAre
  <2> HIDE DEF X, Y
  <2> QED
    BY <2>1, <2>2, FS_CardinalityType
<1> HIDE DEF z, a, b
<1>5. Z = X \cup Moved /\ X \cap Moved = {}
  <2>1. \A i \in 1..a + b : i <= a <=> i \in 1..a
    BY <1>1
  <2>2. \A i \in 1..a : i \in 1..a + b /\ ~(i > a)
    BY <1>1
  <2>3. \A i \in 1..a + b : i <= a \/ i > a
    BY <1>1
  <2> QED
    BY <1>2, <2>1, <2>2, <2>3
<1>6. move \in Bijection(Y, Moved)
  <2>1. ASSUME NEW i \in Y PROVE a + i \in Moved
    <3>1. i \in 1..b /\ y[i] = p
      OBVIOUS
    <3>2. a + i \in 1..a + b /\ a + i > a
      BY <1>1, <3>1
    <3> QED
      BY <1>2, <3>1, <3>2
  <2>2. ASSUME NEW j \in Moved PROVE \E i \in Y : a + i = j
    <3>1. j \in 1..a + b /\ j > a /\ z[j] = p
      OBVIOUS
    <3>2. j - a \in 1..b /\ a + (j - a) = j
      BY <1>1, <3>1
    <3>3. y[j - a] = p
      BY <1>2, <3>1, <3>2
    <3> QED
      BY <3>2, <3>3
  <2>3. \A i, j \in Y : a + i = a + j => i = j
    <3>1. \A i, j \in 1..b : a + i = a + j => i = j
      BY <1>1
    <3> QED
      BY <3>1
  <2>4. move \in [Y -> Moved] /\ \A i \in Y : move[i] = a + i
    BY <2>1
  <2> HIDE DEF Y, Moved, move
  <2>5. \A i, j \in Y : move[i] = move[j] => i = j
    BY <2>3, <2>4
  <2>6. \A j \in Moved : \E i \in Y : move[i] = j
    BY <2>2, <2>4
  <2> QED
    BY <2>4, <2>5, <2>6 DEF Bijection, Injection, Surjection, IsInjective
<1>7. IsFiniteSet(Moved) /\ Cardinality(Moved) = Cardinality(Y)
  <2>1. ExistsBijection(Y, Moved)
    BY <1>6 DEF ExistsBijection
  <2> HIDE DEF Y, Moved
  <2> QED
    BY <1>4, <2>1, FS_Bijection
<1>8. Cardinality(X \cup Moved) = Cardinality(X) + Cardinality(Moved) - Cardinality(X \cap Moved)
  <2> HIDE DEF X, Moved
  <2> QED
    BY <1>4, <1>7, FS_Union
<1>9. Cardinality(X \cap Moved) = 0
  BY <1>5, FS_EmptySet
<1> HIDE DEF X, Y, Z, Moved
<1> QED
  BY <1>3, <1>4, <1>5, <1>7, <1>8, <1>9 DEF z

(* A part that is left out in its place and put at the end instead. *)
LEMMA MovedToTheEnd ==
  ASSUME NEW S, NEW q \in Seq(Seq(S)), NEW r \in Seq(Seq(S)), Len(q) = Len(r), NEW c \in 1..Len(q),
         r[c] = <<>>, \A i \in 1..Len(q) : i # c => r[i] = q[i], NEW p
  PROVE  Times(FlattenSeq(q), p) = Times(FlattenSeq(r) \o q[c], p)
<1> DEFINE N == Len(q)
           X == Seq(S)
<1>0. /\ \A x \in X : Times(x, p) \in Nat /\ x \o <<>> = x
      /\ \A x, y \in X : Times(x \o y, p) = Times(x, p) + Times(y, p)
  <2>1. \A x \in X : Times(x, p) \in Nat
    BY TimesAre
  <2>2. \A x \in X : x \o <<>> = x
    OBVIOUS
  <2>3. \A x, y \in X : Times(x \o y, p) = Times(x, p) + Times(y, p)
    BY TimesOfBoth
  <2> QED
    BY <2>1, <2>2, <2>3
<1>1. N \in Nat /\ (\A i \in 1..N : q[i] \in X) /\ Len(r) = N
  OBVIOUS
<1>2. PICK f : /\ f[0] = <<>> /\ FlattenSeq(q) = f[Len(q)] /\ \A i \in 0..Len(q) : f[i] \in Seq(S)
               /\ \A i \in 1..Len(q) : f[i] = f[i - 1] \o q[i]
  BY FlatSteps
<1>3. PICK g : /\ g[0] = <<>> /\ FlattenSeq(r) = g[Len(r)] /\ \A i \in 0..Len(r) : g[i] \in Seq(S)
               /\ \A i \in 1..Len(r) : g[i] = g[i - 1] \o r[i]
  BY FlatSteps
<1>4. c \in 1..N /\ (\A i \in 1..N : i # c => r[i] = q[i]) /\ r[c] = <<>>
  OBVIOUS
<1> HIDE DEF N
<1>5. /\ f[0] = <<>> /\ FlattenSeq(q) = f[N] /\ (\A i \in 0..N : f[i] \in X)
      /\ \A i \in 1..N : f[i] = f[i - 1] \o q[i]
  BY <1>2 DEF N
<1>6. /\ g[0] = <<>> /\ FlattenSeq(r) = g[N] /\ (\A i \in 0..N : g[i] \in X)
      /\ \A i \in 1..N : g[i] = g[i - 1] \o r[i]
  <2> HIDE DEF X
  <2> QED
    BY <1>1, <1>3 DEF X
<1> HIDE DEF X
<1> DEFINE Extra(n) == IF n < c THEN 0 ELSE Times(q[c], p)
           Bad == {n \in 0..N : Times(f[n], p) # Times(g[n], p) + Extra(n)}
<1>7. Times(q[c], p) \in Nat /\ q[c] \in X /\ c \in Nat /\ 1 <= c /\ c <= N
  <2>1. q[c] \in X
    BY <1>1, <1>4
  <2> QED
    BY <1>1, <1>4, <2>1, <1>0
<1>8. 0 \notin Bad
  <2>1. Times(f[0], p) \in Nat
    <3>1. f[0] \in X
      BY <1>1, <1>5
    <3> QED
      BY <3>1, <1>0
  <2>2. Extra(0) = 0
    BY <1>7
  <2> HIDE DEF Extra
  <2> QED
    BY <1>5, <1>6, <2>1, <2>2
<1>9. ASSUME NEW n \in 1..N, n - 1 \notin Bad
      PROVE  n \notin Bad
  <2>0. n - 1 \in 0..N /\ n \in 0..N /\ n \in Nat
    BY <1>1
  <2>1. Times(f[n - 1], p) = Times(g[n - 1], p) + Extra(n - 1)
    BY <1>9, <2>0
  <2>2. f[n] = f[n - 1] \o q[n] /\ g[n] = g[n - 1] \o r[n] /\ f[n - 1] \in X /\ g[n - 1] \in X
        /\ q[n] \in X /\ g[n] \in X
    BY <1>1, <1>5, <1>6, <2>0
  <2>3. Times(f[n], p) = Times(f[n - 1], p) + Times(q[n], p)
    BY <2>2, <1>0
  <2>4. Times(g[n - 1], p) \in Nat /\ Times(q[n], p) \in Nat
    BY <2>2, <1>0
  <2>5. CASE n = c
    <3>1. g[n] = g[n - 1]
      BY <1>0, <1>4, <2>2, <2>5
    <3>2. Extra(n - 1) = 0 /\ Extra(n) = Times(q[n], p)
      BY <1>7, <2>5
    <3> HIDE DEF Extra
    <3> QED
      BY <2>1, <2>3, <2>4, <3>1, <3>2
  <2>6. CASE n # c
    <3>1. r[n] = q[n]
      BY <1>4, <2>6
    <3>2. Times(g[n], p) = Times(g[n - 1], p) + Times(r[n], p)
      BY <1>0, <2>2, <3>1
    <3>3. Extra(n - 1) = Extra(n) /\ Extra(n) \in Nat
      BY <1>7, <2>0, <2>6
    <3> HIDE DEF Extra
    <3> QED
      BY <2>1, <2>3, <2>4, <3>1, <3>2, <3>3
  <2> QED
    BY <2>5, <2>6
<1>10. Bad = {}
  <2>1. 0 \in Nat /\ N \in Int /\ Bad \subseteq 0..N /\ 0 + 1..N = 1..N
    BY <1>1
  <2> HIDE DEF Bad
  <2> QED
    BY <1>8, <1>9, <2>1, Climbs
<1>11. Times(f[N], p) = Times(g[N], p) + Times(q[c], p)
  <2>1. N \in 0..N /\ ~(N < c)
    BY <1>1, <1>7
  <2>2. Extra(N) = Times(q[c], p)
    BY <2>1
  <2> HIDE DEF Extra
  <2> QED
    BY <1>10, <2>1, <2>2
<1>12. Times(g[N] \o q[c], p) = Times(g[N], p) + Times(q[c], p)
  <2>1. g[N] \in X
    BY <1>1, <1>6
  <2> QED
    BY <1>7, <2>1, <1>0
<1> QED
  BY <1>5, <1>6, <1>11, <1>12

-----------------------------------------------------------------------------
(* The pairs of one field. *)
ImagesOf(f) == UNION {ToSet(ImagePairs(f, i)) : i \in DOMAIN f}
PairsOf(f) == (STRING \X Texts) \cup ImagesOf(f)

LEMMA SingleHas ==
  ASSUME NEW S, NEW v \in S
  PROVE  <<v>> \in Seq(S) /\ ToSet(<<v>>) = {v}
BY DEF ToSet

LEMMA ControlIs ==
  ASSUME NEW c
  PROVE  c \in Controls <=>
           /\ c \in [kind : Kinds, name : STRING, value : Texts, checked : BOOLEAN, disabled : BOOLEAN,
                     options : Seq(Texts), picked : SUBSET Texts]
           /\ c.picked \subseteq ToSet(c.options)
BY DEF Controls

LEMMA ControlHas ==
  ASSUME NEW c \in Controls
  PROVE  /\ c.kind \in Kinds /\ c.name \in STRING /\ c.value \in Texts /\ c.checked \in BOOLEAN
         /\ c.disabled \in BOOLEAN /\ c.options \in Seq(Texts) /\ c.picked \subseteq ToSet(c.options)
BY ControlIs

(* What is picked is sent. *)
LEMMA PickedIs ==
  ASSUME NEW c \in Controls
  PROVE  PickedOf(c) \in Seq(Texts) /\ ToSet(PickedOf(c)) = c.picked
<1> DEFINE o == c.options
           part(j) == IF o[j] \in c.picked THEN <<o[j]>> ELSE <<>>
           q == [j \in DOMAIN o |-> part(j)]
<1>1. o \in Seq(Texts) /\ c.picked \subseteq ToSet(o) /\ Len(o) \in Nat /\ DOMAIN o = 1..Len(o)
  BY ControlHas
<1>2. \A j \in 1..Len(o) : o[j] \in Texts
  BY <1>1
<1>3. \A j \in 1..Len(o) : part(j) \in Seq(Texts) /\ ToSet(part(j)) = IF o[j] \in c.picked THEN {o[j]} ELSE {}
  <2> SUFFICES ASSUME NEW j \in 1..Len(o)
               PROVE  part(j) \in Seq(Texts) /\ ToSet(part(j)) = IF o[j] \in c.picked THEN {o[j]} ELSE {}
    OBVIOUS
  <2>1. \A v \in Texts : <<v>> \in Seq(Texts) /\ ToSet(<<v>>) = {v}
    BY DEF ToSet
  <2>2. <<>> \in Seq(Texts) /\ ToSet(<<>>) = {}
    BY DEF ToSet
  <2>3. o[j] \in Texts
    BY <1>2
  <2> HIDE DEF o
  <2> QED
    BY <2>1, <2>2, <2>3
<1>4. PickedOf(c) = FlattenSeq(q)
  BY DEF PickedOf
<1>5. ToSet(o) = {o[j] : j \in 1..Len(o)}
  BY <1>1 DEF ToSet
<1> HIDE DEF o, part
<1>6. q \in Seq(Seq(Texts)) /\ Len(q) = Len(o) /\ \A j \in 1..Len(o) : q[j] = part(j)
  BY <1>1, <1>3
<1> HIDE DEF q
<1>7. /\ FlattenSeq(q) \in Seq(Texts)
      /\ ToSet(FlattenSeq(q)) = UNION {ToSet(q[j]) : j \in 1..Len(q)}
  BY <1>6, FlatHas
<1>8. ToSet(FlattenSeq(q)) = c.picked
  <2>1. ASSUME NEW v PROVE v \in ToSet(FlattenSeq(q)) <=> \E j \in 1..Len(o) : v \in ToSet(part(j))
    BY <1>6, <1>7
  <2>2. ASSUME NEW v PROVE v \in ToSet(FlattenSeq(q)) <=> \E j \in 1..Len(o) : o[j] \in c.picked /\ v = o[j]
    BY <1>3, <2>1
  <2>3. \A v \in c.picked : \E j \in 1..Len(o) : v = o[j]
    BY <1>1, <1>5
  <2>4. \A v : v \in ToSet(FlattenSeq(q)) <=> v \in c.picked
    BY <2>2, <2>3
  <2> QED
    BY <2>4
<1> QED
  BY <1>4, <1>7, <1>8

LEMMA PairsAre ==
  ASSUME NEW n \in STRING, NEW s \in Seq(Texts)
  PROVE  Pairs(n, s) \in Seq(STRING \X Texts) /\ ToSet(Pairs(n, s)) = {<<n, v>> : v \in ToSet(s)}
<1>1. Len(s) \in Nat /\ DOMAIN s = 1..Len(s) /\ \A j \in 1..Len(s) : s[j] \in Texts
  OBVIOUS
<1>2. Pairs(n, s) = [j \in 1..Len(s) |-> <<n, s[j]>>]
  BY <1>1 DEF Pairs
<1>3. \A j \in 1..Len(s) : <<n, s[j]>> \in STRING \X Texts
  BY <1>1
<1>4. Pairs(n, s) \in Seq(STRING \X Texts)
  <2> DEFINE T == STRING \X Texts
             p(j) == <<n, s[j]>>
  <2>1. \A j \in 1..Len(s) : p(j) \in T
    BY <1>3
  <2>2. Pairs(n, s) = [j \in 1..Len(s) |-> p(j)]
    BY <1>2
  <2> HIDE DEF T, p
  <2>3. Pairs(n, s) \in Seq(T)
    BY <1>1, <2>1, <2>2
  <2> QED
    BY <2>3 DEF T
<1>5. DOMAIN Pairs(n, s) = 1..Len(s) /\ \A j \in 1..Len(s) : Pairs(n, s)[j] = <<n, s[j]>>
  BY <1>2
<1>6. ToSet(Pairs(n, s)) = {<<n, s[j]>> : j \in 1..Len(s)}
  BY <1>5 DEF ToSet
<1>7. ToSet(s) = {s[j] : j \in 1..Len(s)}
  BY <1>1 DEF ToSet
<1> QED
  BY <1>4, <1>6, <1>7

(* The values a field is sent with: those of the browser. *)
LEMMA ValuesAre ==
  ASSUME NEW f \in Seq(Controls), NEW i \in DOMAIN f, NEW b
  PROVE  /\ FieldValue(f, i, TRUE, b) \in Seq(Texts)
         /\ f[i].kind \notin {"file", "image"} =>
              ToSet(FieldValue(f, i, TRUE, b)) = IF Active(f, i) THEN Values(f, i, b) ELSE {}
         /\ ~Active(f, i) => FieldValue(f, i, TRUE, b) = <<>>
         /\ f[i].kind = "file" /\ Active(f, i) => Values(f, i, b) = IF f[i].picked = {} THEN {""} ELSE f[i].picked
<1> DEFINE c == f[i]
<1>1. /\ c \in Controls /\ c.kind \in Kinds /\ c.value \in Texts /\ c.checked \in BOOLEAN /\ c.disabled \in BOOLEAN
      /\ c.picked \subseteq ToSet(c.options)
  BY ControlHas
<1>2. PickedOf(c) \in Seq(Texts) /\ ToSet(PickedOf(c)) = c.picked
  BY <1>1, PickedIs
<1>3. /\ <<>> \in Seq(Texts) /\ ToSet(<<>>) = {} /\ <<c.value>> \in Seq(Texts) /\ ToSet(<<c.value>>) = {c.value}
  BY <1>1 DEF ToSet
<1>4. FieldValue(f, i, TRUE, b) = IF Unsuccessful(f, i, b) THEN <<>>
                                  ELSE IF c.kind \in Selects THEN PickedOf(c) ELSE <<c.value>>
  BY DEF FieldValue
<1>5. Unsuccessful(f, i, b) <=>
        \/ ~Active(f, i)
        \/ c.kind \in {"reset", "button"}
        \/ c.kind \in {"checkbox", "radio"} /\ ~c.checked
        \/ c.kind \in Submitters /\ b # i
        \/ c.kind \in Selects /\ c.picked = {}
  BY DEF Unsuccessful, Active
<1> DEFINE V == Values(f, i, b)
<1>6. V = CASE c.kind \in {"checkbox", "radio"} -> IF c.checked THEN {c.value} ELSE {}
            [] c.kind = "submit" -> IF i = b THEN {c.value} ELSE {}
            [] c.kind \in Selects -> c.picked
            [] c.kind = "file" -> IF c.picked = {} THEN {""} ELSE c.picked
            [] c.kind \in {"reset", "button", "image"} -> {}
            [] OTHER -> {c.value}
  BY DEF Values
<1> HIDE DEF V, c
<1>7. FieldValue(f, i, TRUE, b) \in Seq(Texts)
  BY <1>2, <1>3, <1>4
<1>8. ~Active(f, i) => FieldValue(f, i, TRUE, b) = <<>>
  BY <1>4, <1>5
<1>9. c.kind = "file" => V = IF c.picked = {} THEN {""} ELSE c.picked
  BY <1>6 DEF Selects
<1>10. ASSUME c.kind \notin {"file", "image"}, Active(f, i)
       PROVE  ToSet(FieldValue(f, i, TRUE, b)) = V
  <2>1. CASE c.kind \in {"checkbox", "radio"}
    BY <1>1, <1>3, <1>4, <1>5, <1>6, <1>10, <2>1 DEF Selects, Submitters
  <2>2. CASE c.kind = "submit"
    BY <1>1, <1>3, <1>4, <1>5, <1>6, <1>10, <2>2 DEF Selects, Submitters
  <2>3. CASE c.kind \in Selects
    BY <1>2, <1>3, <1>4, <1>5, <1>6, <1>10, <2>3 DEF Selects, Submitters
  <2>4. CASE c.kind \in {"reset", "button"}
    BY <1>3, <1>4, <1>5, <1>6, <1>10, <2>4 DEF Selects
  <2>5. CASE c.kind \in TextKinds \cup {"hidden"}
    BY <1>3, <1>4, <1>5, <1>6, <1>10, <2>5 DEF Selects, Submitters, TextKinds
  <2> QED
    BY <1>1, <1>10, <2>1, <2>2, <2>3, <2>4, <2>5 DEF Kinds, Submitters
<1> QED
  BY <1>3, <1>7, <1>8, <1>9, <1>10 DEF V, c

LEMMA AppendHas ==
  ASSUME NEW S, NEW x \in Seq(S), NEW y \in Seq(S)
  PROVE  x \o y \in Seq(S) /\ ToSet(x \o y) = ToSet(x) \cup ToSet(y)
<1> DEFINE z == x \o y
           a == Len(x)
           b == Len(y)
<1>1. /\ a \in Nat /\ b \in Nat /\ Len(z) = a + b /\ z \in Seq(S)
      /\ DOMAIN x = 1..a /\ DOMAIN y = 1..b /\ DOMAIN z = 1..a + b
  OBVIOUS
<1>2. (\A k \in 1..a : z[k] = x[k]) /\ \A k \in 1..b : z[a + k] = y[k]
  BY Appending
<1>3. /\ ToSet(x) = {x[k] : k \in 1..a} /\ ToSet(y) = {y[k] : k \in 1..b}
      /\ ToSet(z) = {z[k] : k \in 1..a + b}
  BY <1>1 DEF ToSet
<1> HIDE DEF z, a, b
<1>4. \A k \in 1..a + b : k \in 1..a \/ (k - a \in 1..b /\ a + (k - a) = k)
  BY <1>1
<1>5. (\A k \in 1..a : k \in 1..a + b) /\ \A k \in 1..b : a + k \in 1..a + b
  BY <1>1
<1>6. ASSUME NEW v \in ToSet(z) PROVE v \in ToSet(x) \/ v \in ToSet(y)
  <2>1. PICK k \in 1..a + b : v = z[k]
    BY <1>3
  <2>2. CASE k \in 1..a
    BY <1>2, <1>3, <2>1, <2>2
  <2>3. CASE k - a \in 1..b /\ a + (k - a) = k
    <3>1. z[a + (k - a)] = y[k - a]
      BY <1>2, <2>3
    <3>2. v = y[k - a]
      BY <2>1, <2>3, <3>1
    <3> QED
      BY <1>3, <2>3, <3>2
  <2> QED
    BY <1>4, <2>2, <2>3
<1>7. ToSet(x) \subseteq ToSet(z)
  BY <1>2, <1>3, <1>5
<1>8. ToSet(y) \subseteq ToSet(z)
  BY <1>2, <1>3, <1>5
<1> QED
  BY <1>1, <1>6, <1>7, <1>8 DEF z

LEMMA ImagePairsAre ==
  ASSUME NEW f, NEW i \in DOMAIN f
  PROVE  ImagePairs(f, i) \in Seq(PairsOf(f))
<1> DEFINE a == <<f[i].name, f[i].value>>
           x == <<f[i].name \o ".x", "x">>
           y == <<f[i].name \o ".y", "y">>
           P == PairsOf(f)
<1>1. ImagePairs(f, i) = <<a, x, y>>
  BY DEF ImagePairs
<1>2. ToSet(ImagePairs(f, i)) \subseteq P
  BY DEF PairsOf, ImagesOf
<1> HIDE DEF a, x, y, P
<1>3. ToSet(<<a, x, y>>) = {a, x, y}
  BY DEF ToSet
<1>4. a \in P /\ x \in P /\ y \in P
  BY <1>1, <1>2, <1>3
<1>5. <<a, x, y>> \in Seq(P)
  BY <1>4
<1> QED
  BY <1>1, <1>5 DEF P

(* What one element of the form is sent as. *)
LEMMA ElementIs ==
  ASSUME NEW f \in Seq(Controls), NEW i \in DOMAIN f, NEW semantic \in BOOLEAN, NEW b
  PROVE  /\ f[i].kind # "image" =>
              /\ ElementPairs(f, i, semantic, b) \in Seq(STRING \X Texts)
              /\ ToSet(ElementPairs(f, i, semantic, b))
                   = IF Active(f, i) THEN {<<f[i].name, v>> : v \in Values(f, i, b)} ELSE {}
         /\ f[i].kind = "image" =>
              ElementPairs(f, i, semantic, b)
                = IF semantic /\ b = i /\ Active(f, i) THEN ImagePairs(f, i) ELSE <<>>
<1> DEFINE c == f[i]
           n == c.name
           e == ElementPairs(f, i, semantic, b)
           fv == FieldValue(f, i, TRUE, b)
           V == Values(f, i, b)
<1>1. /\ c \in Controls /\ n \in STRING /\ c.disabled \in BOOLEAN
  BY ControlHas
<1>2. PickedOf(c) \in Seq(Texts) /\ ToSet(PickedOf(c)) = c.picked
  BY <1>1, PickedIs
<1>3. /\ fv \in Seq(Texts)
      /\ c.kind \notin {"file", "image"} => ToSet(fv) = IF Active(f, i) THEN V ELSE {}
      /\ ~Active(f, i) => fv = <<>>
      /\ c.kind = "file" /\ Active(f, i) => V = IF c.picked = {} THEN {""} ELSE c.picked
  BY ValuesAre
<1>4. \A s \in Seq(Texts) : Pairs(n, s) \in Seq(STRING \X Texts) /\ ToSet(Pairs(n, s)) = {<<n, v>> : v \in ToSet(s)}
  BY <1>1, PairsAre
<1>5. Active(f, i) <=> n # "" /\ ~c.disabled
  BY DEF Active
<1>6. c.kind = "image" => e = IF semantic /\ b = i /\ Active(f, i) THEN ImagePairs(f, i) ELSE <<>>
  BY <1>5 DEF ElementPairs
<1>7. c.kind # "image" => e = IF c.kind = "file" /\ Active(f, i)
                              THEN Pairs(n, IF c.picked = {} THEN <<"">> ELSE PickedOf(c)) ELSE Pairs(n, fv)
  BY <1>5 DEF ElementPairs, FieldPairs
<1>8. ToSet(<<>>) = {} /\ <<"">> \in Seq(Texts) /\ ToSet(<<"">>) = {""}
  <2>1. \A v \in Texts : <<v>> \in Seq(Texts) /\ ToSet(<<v>>) = {v}
    BY SingleHas
  <2>2. ToSet(<<>>) = {}
    BY DEF ToSet
  <2>3. "" \in Texts
    BY FormsAssumption
  <2> QED
    BY <2>1, <2>2, <2>3
<1> HIDE DEF c, n, e, fv, V
<1>9. ASSUME c.kind # "image"
      PROVE  e \in Seq(STRING \X Texts) /\ ToSet(e) = IF Active(f, i) THEN {<<n, v>> : v \in V} ELSE {}
  <2>1. CASE c.kind = "file" /\ Active(f, i)
    <3> DEFINE s == IF c.picked = {} THEN <<"">> ELSE PickedOf(c)
    <3>1. s \in Seq(Texts) /\ ToSet(s) = V
      BY <1>2, <1>3, <1>8, <2>1
    <3>2. e = Pairs(n, s)
      BY <1>7, <1>9, <2>1
    <3> HIDE DEF s
    <3> QED
      BY <1>4, <2>1, <3>1, <3>2
  <2>2. CASE ~(c.kind = "file" /\ Active(f, i))
    <3>1. e = Pairs(n, fv)
      BY <1>7, <1>9, <2>2
    <3>2. ToSet(fv) = IF Active(f, i) THEN V ELSE {}
      BY <1>3, <1>8, <1>9, <2>2
    <3>3. e \in Seq(STRING \X Texts) /\ ToSet(e) = {<<n, v>> : v \in ToSet(fv)}
      BY <1>3, <1>4, <3>1
    <3> QED
      BY <3>2, <3>3
  <2> QED
    BY <2>1, <2>2
<1> QED
  BY <1>6, <1>9 DEF c, n, e, V

(* The elements of a form, one by one, and the image that comes last. *)
Elements(f, semantic, b) == [i \in DOMAIN f |-> ElementPairs(f, i, semantic, b)]
ImageLast(f, semantic, b) == IF ~semantic /\ ClickedImage(f, b) THEN ImagePairs(f, b) ELSE <<>>

LEMMA ElementsAre ==
  ASSUME NEW f \in Seq(Controls), NEW semantic \in BOOLEAN, NEW b \in {None} \cup DOMAIN f
  PROVE  /\ Elements(f, semantic, b) \in Seq(Seq(PairsOf(f))) /\ Len(Elements(f, semantic, b)) = Len(f)
         /\ DOMAIN f = 1..Len(f) /\ Len(f) \in Nat
         /\ \A i \in 1..Len(f) : Elements(f, semantic, b)[i] = ElementPairs(f, i, semantic, b)
         /\ ImageLast(f, semantic, b) \in Seq(PairsOf(f))
         /\ FormToArray(f, semantic, b) = FlattenSeq(Elements(f, semantic, b)) \o ImageLast(f, semantic, b)
<1> DEFINE P == PairsOf(f)
           el(i) == ElementPairs(f, i, semantic, b)
           q == [i \in DOMAIN f |-> el(i)]
<1>1. DOMAIN f = 1..Len(f) /\ Len(f) \in Nat
  OBVIOUS
<1>2. STRING \X Texts \subseteq P
  BY DEF PairsOf
<1>3. \A i \in DOMAIN f : ImagePairs(f, i) \in Seq(P)
  BY ImagePairsAre
<1>4. \A T, U : T \subseteq U => Seq(T) \subseteq Seq(U)
  OBVIOUS
<1>5. <<>> \in Seq(P)
  OBVIOUS
<1>6. ASSUME NEW i \in DOMAIN f PROVE el(i) \in Seq(P)
  <2>1. f[i].kind # "image" => el(i) \in Seq(STRING \X Texts)
    BY ElementIs
  <2>2. f[i].kind = "image" => el(i) = IF semantic /\ b = i /\ Active(f, i) THEN ImagePairs(f, i) ELSE <<>>
    BY ElementIs
  <2> HIDE DEF el, P
  <2>3. Seq(STRING \X Texts) \subseteq Seq(P)
    BY <1>2, <1>4
  <2> QED
    BY <1>3, <1>5, <2>1, <2>2, <2>3
<1>7. ImageLast(f, semantic, b) \in Seq(P)
  <2>1. ClickedImage(f, b) => b \in DOMAIN f
    BY DEF ClickedImage
  <2> HIDE DEF P
  <2> QED
    BY <1>3, <1>5, <2>1 DEF ImageLast
<1>8. Elements(f, semantic, b) = q
  BY DEF Elements
<1>9. FormToArray(f, semantic, b) = FlattenSeq(Elements(f, semantic, b)) \o ImageLast(f, semantic, b)
  BY DEF FormToArray, Elements, ImageLast
<1> HIDE DEF el, P
<1>10. q \in Seq(Seq(P)) /\ Len(q) = Len(f) /\ \A i \in 1..Len(f) : q[i] = el(i)
  BY <1>1, <1>6
<1> HIDE DEF q
<1> QED
  BY <1>1, <1>7, <1>8, <1>9, <1>10 DEF P, el

(* What is sent is what the browser would send. *)
LEMMA ArrayIs ==
  ASSUME NEW f \in Seq(Controls), NEW semantic \in BOOLEAN, NEW b \in {None} \cup DOMAIN f
  PROVE  ToSet(FormToArray(f, semantic, b)) = Browser(f, b)
<1> DEFINE q == Elements(f, semantic, b)
           last == ImageLast(f, semantic, b)
           el(i) == ElementPairs(f, i, semantic, b)
           img(i) == ToSet(ImagePairs(f, i))
           given(i) == {<<f[i].name, v>> : v \in Values(f, i, b)}
<1>1. /\ q \in Seq(Seq(PairsOf(f))) /\ Len(q) = Len(f) /\ DOMAIN f = 1..Len(f) /\ Len(f) \in Nat
      /\ \A i \in 1..Len(f) : q[i] = el(i)
      /\ last \in Seq(PairsOf(f)) /\ FormToArray(f, semantic, b) = FlattenSeq(q) \o last
  BY ElementsAre
<1>2. /\ FlattenSeq(q) \in Seq(PairsOf(f))
      /\ ToSet(FlattenSeq(q)) = UNION {ToSet(q[i]) : i \in 1..Len(q)}
  <2> HIDE DEF q
  <2> QED
    BY <1>1, FlatHas
<1>3. ToSet(FormToArray(f, semantic, b)) = ToSet(FlattenSeq(q)) \cup ToSet(last)
  <2> HIDE DEF q, last
  <2> QED
    BY <1>1, <1>2, AppendHas
<1>4. ToSet(<<>>) = {}
  BY DEF ToSet
<1>5. \A i \in 1..Len(f) : /\ f[i].kind # "image" => ToSet(el(i)) = IF Active(f, i) THEN given(i) ELSE {}
                           /\ f[i].kind = "image" => ToSet(el(i)) = IF semantic /\ b = i /\ Active(f, i) THEN img(i) ELSE {}
  <2> SUFFICES ASSUME NEW i \in 1..Len(f)
               PROVE  /\ f[i].kind # "image" => ToSet(el(i)) = IF Active(f, i) THEN given(i) ELSE {}
                      /\ f[i].kind = "image" => ToSet(el(i)) = IF semantic /\ b = i /\ Active(f, i) THEN img(i) ELSE {}
    OBVIOUS
  <2>1. i \in DOMAIN f
    BY <1>1
  <2>2. f[i].kind # "image" => ToSet(el(i)) = IF Active(f, i) THEN given(i) ELSE {}
    BY <2>1, ElementIs
  <2>3. f[i].kind = "image" => el(i) = IF semantic /\ b = i /\ Active(f, i) THEN ImagePairs(f, i) ELSE <<>>
    BY <2>1, ElementIs
  <2> QED
    BY <1>4, <2>2, <2>3
<1>6. \A i \in 1..Len(f) : f[i].kind = "image" => given(i) = {}
  <2> SUFFICES ASSUME NEW i \in 1..Len(f), f[i].kind = "image" PROVE Values(f, i, b) = {}
    OBVIOUS
  <2> QED
    BY DEF Values, Selects, TextKinds
<1> DEFINE A == UNION {given(i) : i \in {j \in 1..Len(f) : Active(f, j)}}
           B == IF b # None /\ f[b].kind = "image" /\ Active(f, b) THEN img(b) ELSE {}
<1>7. Browser(f, b) = A \cup B
  BY <1>1 DEF Browser
<1>8. ToSet(last) = IF ~semantic /\ b # None /\ f[b].kind = "image" /\ Active(f, b) THEN img(b) ELSE {}
  BY <1>4 DEF ImageLast, ClickedImage, Active
<1>9. b # None => b \in 1..Len(f)
  BY <1>1
<1>10. None \notin 1..Len(f)
  BY <1>1 DEF None
<1> HIDE DEF q, last, el, img, given
<1>11. ASSUME NEW v
       PROVE  v \in ToSet(FlattenSeq(q)) <=> \E i \in 1..Len(f) : v \in ToSet(el(i))
  BY <1>1, <1>2
<1>12. ASSUME NEW v
       PROVE  v \in Browser(f, b) <=>
                \/ \E i \in 1..Len(f) : Active(f, i) /\ v \in given(i)
                \/ b # None /\ f[b].kind = "image" /\ Active(f, b) /\ v \in img(b)
  <2>1. v \in A <=> \E i \in 1..Len(f) : Active(f, i) /\ v \in given(i)
    OBVIOUS
  <2>2. v \in B <=> b # None /\ f[b].kind = "image" /\ Active(f, b) /\ v \in img(b)
    OBVIOUS
  <2> HIDE DEF A, B
  <2> QED
    BY <1>7, <2>1, <2>2
<1>13. ASSUME NEW v
       PROVE  v \in ToSet(FormToArray(f, semantic, b)) <=> v \in Browser(f, b)
  <2>1. v \in ToSet(last) <=> ~semantic /\ b # None /\ f[b].kind = "image" /\ Active(f, b) /\ v \in img(b)
    BY <1>8
  <2>2. ASSUME NEW i \in 1..Len(f)
        PROVE  v \in ToSet(el(i)) <=>
                 \/ f[i].kind # "image" /\ Active(f, i) /\ v \in given(i)
                 \/ f[i].kind = "image" /\ semantic /\ b = i /\ Active(f, i) /\ v \in img(i)
    BY <1>5
  <2>3. v \in ToSet(FormToArray(f, semantic, b)) <=> (\E i \in 1..Len(f) : v \in ToSet(el(i))) \/ v \in ToSet(last)
    BY <1>3, <1>11
  <2>4. ASSUME v \in ToSet(FormToArray(f, semantic, b)) PROVE v \in Browser(f, b)
    BY <1>10, <1>12, <2>1, <2>2, <2>3, <2>4
  <2>5. ASSUME v \in Browser(f, b) PROVE v \in ToSet(FormToArray(f, semantic, b))
    <3>1. CASE \E i \in 1..Len(f) : Active(f, i) /\ v \in given(i)
      BY <1>6, <2>2, <2>3, <3>1
    <3>2. CASE b # None /\ f[b].kind = "image" /\ Active(f, b) /\ v \in img(b)
      BY <1>9, <2>1, <2>2, <2>3, <3>2
    <3> QED
      BY <1>12, <2>5, <3>1, <3>2
  <2> QED
    BY <2>4, <2>5
<1> QED
  BY <1>13

(* Both orders hold the same pairs, the same number of times. *)
LEMMA BothOrders ==
  ASSUME NEW f \in Seq(Controls), NEW b \in {None} \cup DOMAIN f, NEW p
  PROVE  Times(FormToArray(f, TRUE, b), p) = Times(FormToArray(f, FALSE, b), p)
<1> DEFINE q == Elements(f, TRUE, b)
           r == Elements(f, FALSE, b)
           P == PairsOf(f)
<1>1. /\ q \in Seq(Seq(P)) /\ Len(q) = Len(f) /\ \A i \in 1..Len(f) : q[i] = ElementPairs(f, i, TRUE, b)
      /\ FormToArray(f, TRUE, b) = FlattenSeq(q) \o ImageLast(f, TRUE, b)
      /\ DOMAIN f = 1..Len(f) /\ Len(f) \in Nat
  BY ElementsAre
<1>2. /\ r \in Seq(Seq(P)) /\ Len(r) = Len(f) /\ \A i \in 1..Len(f) : r[i] = ElementPairs(f, i, FALSE, b)
      /\ FormToArray(f, FALSE, b) = FlattenSeq(r) \o ImageLast(f, FALSE, b)
  BY ElementsAre
<1>3. ImageLast(f, TRUE, b) = <<>> /\ ImageLast(f, FALSE, b) = IF ClickedImage(f, b) THEN ImagePairs(f, b) ELSE <<>>
  BY DEF ImageLast
<1>4. ASSUME NEW i \in 1..Len(f), ~ClickedImage(f, b) \/ i # b
      PROVE  q[i] = r[i]
  <2>1. i \in DOMAIN f /\ i # None
    BY <1>1 DEF None
  <2>2. CASE f[i].kind = "image"
    <3>1. q[i] = (IF b = i /\ Active(f, i) THEN ImagePairs(f, i) ELSE <<>>) /\ r[i] = <<>>
      BY <1>1, <1>2, <2>1, <2>2, ElementIs
    <3>2. ~(b = i /\ Active(f, i))
      BY <1>4, <2>1, <2>2 DEF ClickedImage, Active
    <3> QED
      BY <3>1, <3>2
  <2>3. CASE f[i].kind # "image"
    <3>1. ElementPairs(f, i, TRUE, b) = ElementPairs(f, i, FALSE, b)
      BY <2>3 DEF ElementPairs
    <3> QED
      BY <1>1, <1>2, <3>1
  <2> QED
    BY <2>2, <2>3
<1>5. CASE ClickedImage(f, b)
  <2>1. b \in 1..Len(f) /\ f[b].kind = "image" /\ Active(f, b)
    BY <1>1, <1>5 DEF ClickedImage, Active
  <2>2. q[b] = ImagePairs(f, b) /\ r[b] = <<>>
    BY <1>1, <1>2, <2>1, ElementIs
  <2> HIDE DEF q, r, P
  <2>3. Times(FlattenSeq(q), p) = Times(FlattenSeq(r) \o q[b], p)
    <3>1. b \in 1..Len(q) /\ Len(q) = Len(r) /\ \A i \in 1..Len(q) : i # b => r[i] = q[i]
      BY <1>1, <1>2, <1>4, <2>1
    <3> QED
      BY <1>1, <1>2, <2>2, <3>1, MovedToTheEnd
  <2>4. FlattenSeq(q) \in Seq(P)
    BY <1>1, FlatHas
  <2>5. FlattenSeq(q) \o <<>> = FlattenSeq(q)
    BY <2>4
  <2> QED
    BY <1>1, <1>2, <1>3, <1>5, <2>2, <2>3, <2>5
<1>6. CASE ~ClickedImage(f, b)
  <2>1. \A i \in DOMAIN f : ElementPairs(f, i, TRUE, b) = ElementPairs(f, i, FALSE, b)
    <3> HIDE DEF q, r
    <3> QED
      BY <1>1, <1>2, <1>4, <1>6
  <2>2. q = r
    BY <2>1 DEF Elements
  <2> HIDE DEF q, r, P
  <2> QED
    BY <1>1, <1>2, <1>3, <1>6, <2>2
<1> QED
  BY <1>5, <1>6

(* Of fields that are no files and no images, fieldSerialize gives the same. *)
LEMMA Serializing ==
  ASSUME NEW f \in Seq(Controls), \A i \in DOMAIN f : f[i].kind \notin {"file", "image"},
         NEW b \in {None} \cup DOMAIN f
  PROVE  FieldSerialize(f, TRUE, b) = FormToArray(f, FALSE, b)
<1> DEFINE q == Elements(f, FALSE, b)
           P == PairsOf(f)
<1>1. /\ q \in Seq(Seq(P)) /\ FormToArray(f, FALSE, b) = FlattenSeq(q) \o ImageLast(f, FALSE, b)
  BY ElementsAre
<1>2. ImageLast(f, FALSE, b) = <<>>
  BY DEF ImageLast, ClickedImage
<1>3. ASSUME NEW i \in DOMAIN f
      PROVE  SerializedPairs(f, i, TRUE, b) = ElementPairs(f, i, FALSE, b)
  <2>1. f[i].kind # "file" /\ f[i].kind # "image"
    OBVIOUS
  <2>2. ElementPairs(f, i, FALSE, b) = Pairs(f[i].name, FieldValue(f, i, TRUE, b))
    BY <2>1 DEF ElementPairs, FieldPairs
  <2>3. CASE f[i].name = ""
    <3>1. FieldValue(f, i, TRUE, b) = <<>>
      BY <2>3, ValuesAre DEF Active
    <3>2. \A n : Pairs(n, <<>>) = <<>>
      BY DEF Pairs
    <3> QED
      BY <2>2, <2>3, <3>1, <3>2 DEF SerializedPairs
  <2>4. CASE f[i].name # ""
    BY <2>2, <2>4 DEF SerializedPairs
  <2> QED
    BY <2>3, <2>4
<1>4. FieldSerialize(f, TRUE, b) = FlattenSeq(q)
  <2>1. [i \in DOMAIN f |-> SerializedPairs(f, i, TRUE, b)] = q
    BY <1>3 DEF Elements
  <2> QED
    BY <2>1 DEF FieldSerialize
<1>5. FlattenSeq(q) \o <<>> = FlattenSeq(q)
  <2> HIDE DEF q, P
  <2>1. FlattenSeq(q) \in Seq(P)
    BY <1>1, FlatHas
  <2> QED
    BY <2>1
<1> QED
  BY <1>1, <1>2, <1>4, <1>5

-----------------------------------------------------------------------------
(* What changes a control leaves a control. *)
LEMMA Emptied ==
  ASSUME NEW c \in Controls, NEW includeHidden \in BOOLEAN
  PROVE  Cleared(c, includeHidden) \in Controls
<1> DEFINE d == Cleared(c, includeHidden)
<1>1. /\ c \in [kind : Kinds, name : STRING, value : Texts, checked : BOOLEAN, disabled : BOOLEAN,
                options : Seq(Texts), picked : SUBSET Texts] /\ c.picked \subseteq ToSet(c.options)
  BY ControlIs
<1>2. "" \in Texts
  BY FormsAssumption
<1>3. \/ d = c \/ d = [c EXCEPT !.value = ""] \/ d = [c EXCEPT !.checked = FALSE] \/ d = [c EXCEPT !.picked = {}]
  BY DEF Cleared, TextKinds, Selects
<1> HIDE DEF d
<1>4. d \in [kind : Kinds, name : STRING, value : Texts, checked : BOOLEAN, disabled : BOOLEAN,
             options : Seq(Texts), picked : SUBSET Texts]
  BY <1>1, <1>2, <1>3
<1>5. d.options = c.options /\ (d.picked = c.picked \/ d.picked = {})
  BY <1>1, <1>3
<1>6. d \in Controls
  BY <1>1, <1>4, <1>5, ControlIs
<1> QED
  BY <1>6 DEF d

LEMMA Clearing ==
  ASSUME NEW f \in Seq(Controls), NEW includeHidden \in BOOLEAN
  PROVE  /\ ClearFields(f, includeHidden) \in Seq(Controls) /\ DOMAIN ClearFields(f, includeHidden) = DOMAIN f
         /\ \A i \in DOMAIN f : ClearFields(f, includeHidden)[i] = Cleared(f[i], includeHidden)
<1>1. DOMAIN f = 1..Len(f) /\ Len(f) \in Nat /\ \A i \in DOMAIN f : f[i] \in Controls
  OBVIOUS
<1>2. \A i \in DOMAIN f : Cleared(f[i], includeHidden) \in Controls
  BY <1>1, Emptied
<1>3. ClearFields(f, includeHidden) = [i \in 1..Len(f) |-> Cleared(f[i], includeHidden)]
  BY <1>1 DEF ClearFields
<1> DEFINE g(i) == Cleared(f[i], includeHidden)
<1> HIDE DEF g
<1>4. [i \in 1..Len(f) |-> g(i)] \in Seq(Controls)
  BY <1>1, <1>2 DEF g
<1> QED
  BY <1>1, <1>3, <1>4 DEF g

(* A form that is cleared sends what is hidden and the files, and nothing else that is not empty. *)
LEMMA ClearedSends ==
  ASSUME NEW f \in Seq(Controls), NEW semantic \in BOOLEAN
  PROVE  \A p \in ToSet(FormToArray(ClearFields(f, FALSE), semantic, None)) :
           p[2] # "" => \E i \in DOMAIN f : f[i].kind \in {"hidden", "file"} /\ f[i].name = p[1]
<1>0. /\ DOMAIN f = 1..Len(f) /\ Len(f) \in Nat /\ \A i \in DOMAIN f : f[i] \in Controls
      /\ \A i \in DOMAIN f : i # None
  BY DEF None
<1> SUFFICES ASSUME NEW p \in ToSet(FormToArray(ClearFields(f, FALSE), semantic, None)), p[2] # ""
             PROVE  \E i \in DOMAIN f : f[i].kind \in {"hidden", "file"} /\ f[i].name = p[1]
  OBVIOUS
<1> DEFINE g == ClearFields(f, FALSE)
<1>1. g \in Seq(Controls) /\ DOMAIN g = DOMAIN f /\ \A i \in DOMAIN f : g[i] = Cleared(f[i], FALSE)
  BY Clearing
<1>2. p \in Browser(g, None)
  <2> HIDE DEF g
  <2>1. ToSet(FormToArray(g, semantic, None)) = Browser(g, None)
    BY <1>1, ArrayIs
  <2> QED
    BY <2>1 DEF g
<1>3. \E i \in DOMAIN f : \E v \in Values(g, i, None) : p = <<g[i].name, v>>
  <2> HIDE DEF g
  <2>1. Browser(g, None) = UNION {{<<g[i].name, v>> : v \in Values(g, i, None)} : i \in {j \in DOMAIN g : Active(g, j)}}
    BY DEF Browser
  <2> QED
    BY <1>1, <1>2, <2>1
<1>4. PICK i \in DOMAIN f : \E v \in Values(g, i, None) : p = <<g[i].name, v>>
  BY <1>3
<1>5. PICK v \in Values(g, i, None) : p = <<g[i].name, v>>
  BY <1>4
<1>6. p[1] = g[i].name /\ v # ""
  BY <1>5
<1> DEFINE c == f[i]
           d == g[i]
<1>7. /\ c \in [kind : Kinds, name : STRING, value : Texts, checked : BOOLEAN, disabled : BOOLEAN,
                options : Seq(Texts), picked : SUBSET Texts] /\ d = Cleared(c, FALSE)
  <2>1. c \in Controls
    BY <1>0
  <2> HIDE DEF c
  <2> QED
    BY <1>1, <2>1, ControlIs DEF c
<1>8. Values(g, i, None) = CASE d.kind \in {"checkbox", "radio"} -> IF d.checked THEN {d.value} ELSE {}
                             [] d.kind = "submit" -> IF i = None THEN {d.value} ELSE {}
                             [] d.kind \in Selects -> d.picked
                             [] d.kind = "file" -> IF d.picked = {} THEN {""} ELSE d.picked
                             [] d.kind \in {"reset", "button", "image"} -> {}
                             [] OTHER -> {d.value}
  BY DEF Values
<1>9. i # None
  BY <1>0
<1> HIDE DEF c, d, g
<1>10. d = CASE c.kind \in TextKinds -> [c EXCEPT !.value = ""]
             [] c.kind \in {"checkbox", "radio"} -> [c EXCEPT !.checked = FALSE]
             [] c.kind \in Selects -> [c EXCEPT !.picked = {}]
             [] c.kind = "hidden" /\ FALSE -> [c EXCEPT !.value = ""]
             [] OTHER -> c
  BY <1>7 DEF Cleared
<1>11. d.kind = c.kind /\ d.name = c.name
  BY <1>7, <1>10
<1>12. c.kind \in {"hidden", "file"}
  <2>1. CASE c.kind \in TextKinds
    <3>1. d.value = ""
      BY <1>7, <1>10, <2>1 DEF TextKinds, Selects
    <3>2. Values(g, i, None) = {d.value}
      BY <1>8, <1>11, <2>1 DEF TextKinds, Selects
    <3> QED
      BY <1>5, <1>6, <3>1, <3>2
  <2>2. CASE c.kind \in {"checkbox", "radio"}
    <3>1. d.checked = FALSE
      BY <1>7, <1>10, <2>2 DEF TextKinds, Selects
    <3>2. Values(g, i, None) = {}
      BY <1>8, <1>11, <2>2, <3>1 DEF Selects
    <3> QED
      BY <1>5, <3>2
  <2>3. CASE c.kind \in Selects
    <3>1. d.picked = {}
      BY <1>7, <1>10, <2>3 DEF TextKinds, Selects
    <3>2. Values(g, i, None) = {}
      BY <1>8, <1>11, <2>3, <3>1 DEF Selects
    <3> QED
      BY <1>5, <3>2
  <2>4. CASE c.kind \in Submitters \cup {"reset", "button"}
    <3>1. Values(g, i, None) = {}
      BY <1>8, <1>9, <1>11, <2>4 DEF Submitters, Selects
    <3> QED
      BY <1>5, <3>1
  <2>5. c.kind \in Kinds
    BY <1>7
  <2> QED
    BY <2>1, <2>2, <2>3, <2>4, <2>5 DEF Kinds
<1> QED
  BY <1>6, <1>11, <1>12 DEF c, d

LEMMA Changing ==
  ASSUME NEW c \in Controls
  PROVE  /\ \A v \in Texts : [c EXCEPT !.value = v] \in Controls
         /\ \A b \in BOOLEAN : [c EXCEPT !.checked = b] \in Controls /\ [c EXCEPT !.disabled = b] \in Controls
         /\ \A p \in SUBSET ToSet(c.options) : [c EXCEPT !.picked = p] \in Controls
<1> DEFINE R == [kind : Kinds, name : STRING, value : Texts, checked : BOOLEAN, disabled : BOOLEAN,
                 options : Seq(Texts), picked : SUBSET Texts]
<1>1. c \in R /\ c.picked \subseteq ToSet(c.options)
  BY ControlIs
<1>2. ToSet(c.options) \subseteq Texts
  <2>1. c.options \in Seq(Texts)
    BY <1>1
  <2>2. \A o \in Seq(Texts) : ToSet(o) \subseteq Texts
    BY DEF ToSet
  <2> QED
    BY <2>1, <2>2
<1>3. ASSUME NEW d, d \in R, d.picked \subseteq ToSet(d.options) PROVE d \in Controls
  BY <1>3, ControlIs
<1>4. ASSUME NEW v \in Texts PROVE [c EXCEPT !.value = v] \in Controls
  <2> DEFINE d == [c EXCEPT !.value = v]
  <2>1. d \in R /\ d.picked = c.picked /\ d.options = c.options
    BY <1>1
  <2> QED
    BY <1>1, <1>3, <2>1
<1>5. ASSUME NEW b \in BOOLEAN PROVE [c EXCEPT !.checked = b] \in Controls
  <2> DEFINE d == [c EXCEPT !.checked = b]
  <2>1. d \in R /\ d.picked = c.picked /\ d.options = c.options
    BY <1>1
  <2> QED
    BY <1>1, <1>3, <2>1
<1>6. ASSUME NEW b \in BOOLEAN PROVE [c EXCEPT !.disabled = b] \in Controls
  <2> DEFINE d == [c EXCEPT !.disabled = b]
  <2>1. d \in R /\ d.picked = c.picked /\ d.options = c.options
    BY <1>1
  <2> QED
    BY <1>1, <1>3, <2>1
<1>7. ASSUME NEW p \in SUBSET ToSet(c.options) PROVE [c EXCEPT !.picked = p] \in Controls
  <2> DEFINE d == [c EXCEPT !.picked = p]
  <2>1. d \in R /\ d.picked = p /\ d.options = c.options
    BY <1>1, <1>2
  <2> QED
    BY <1>3, <2>1
<1> QED
  BY <1>4, <1>5, <1>6, <1>7

LEMMA Replacing ==
  ASSUME NEW f \in Seq(Controls)
  PROVE  /\ DOMAIN f = 1..Len(f) /\ Len(f) \in Nat /\ \A i \in DOMAIN f : f[i] \in Controls
         /\ \A i \in DOMAIN f : \A d \in Controls :
              [f EXCEPT ![i] = d] \in Seq(Controls) /\ DOMAIN [f EXCEPT ![i] = d] = DOMAIN f
OBVIOUS

LEMMA Rebuilding ==
  ASSUME NEW f \in Seq(Controls), NEW g, g = [i \in DOMAIN f |-> g[i]], \A i \in DOMAIN f : g[i] \in Controls
  PROVE  g \in Seq(Controls) /\ DOMAIN g = DOMAIN f
<1>1. DOMAIN f = 1..Len(f) /\ Len(f) \in Nat
  OBVIOUS
<1>2. g = [i \in 1..Len(f) |-> g[i]] /\ \A i \in 1..Len(f) : g[i] \in Controls
  BY <1>1
<1>3. DOMAIN g = 1..Len(f)
  BY <1>2
<1> QED
  BY <1>1, <1>2, <1>3

LEMMA Selecting ==
  ASSUME NEW c \in Controls, c.kind \in {"checkbox", "radio"} \cup Selects, NEW v, NEW select \in BOOLEAN,
         c.kind \in Selects => SelectedField(c, v, select).picked \subseteq ToSet(c.options)
  PROVE  SelectedField(c, v, select) \in Controls
<1>1. CASE c.kind \in {"checkbox", "radio"}
  <2>1. SelectedField(c, v, select) = [c EXCEPT !.checked = select]
    BY <1>1 DEF SelectedField, Selects
  <2> QED
    BY <2>1, Changing
<1>2. CASE c.kind \in Selects
  <2> DEFINE p == IF ~select THEN c.picked \ {v} ELSE IF c.kind = "select-one" THEN {v} ELSE c.picked \cup {v}
  <2>1. SelectedField(c, v, select) = [c EXCEPT !.picked = p]
    BY <1>2 DEF SelectedField, Selects
  <2>2. [c EXCEPT !.picked = p].picked = p
    <3>1. c \in [kind : Kinds, name : STRING, value : Texts, checked : BOOLEAN, disabled : BOOLEAN,
                 options : Seq(Texts), picked : SUBSET Texts]
      BY ControlIs
    <3> HIDE DEF p
    <3> QED
      BY <3>1
  <2>3. p \subseteq ToSet(c.options)
    <3> HIDE DEF p
    <3> QED
      BY <1>2, <2>1, <2>2
  <2> HIDE DEF p
  <2> QED
    BY <2>1, <2>3, Changing
<1> QED
  BY <1>1, <1>2

-----------------------------------------------------------------------------
(* What was sent last is what formToArray gave of the form as it was then,   *)
(* and the noted element is one of the form, clicked last and to be          *)
(* forgotten.                                                                *)
SentFrom(s) ==
  /\ s.form \in Seq(Controls) /\ s.by \in {None} \cup DOMAIN s.form /\ s.semantic \in BOOLEAN
  /\ s.pairs = FormToArray(s.form, s.semantic, s.by)
FieldsInv == FieldsTypeOK /\ ClickIsFresh /\ (sent = Nothing \/ SentFrom(sent))

LEMMA FieldsStart == FieldsInit => FieldsInv
<1> SUFFICES ASSUME FieldsInit PROVE FieldsInv
  OBVIOUS
<1>1. /\ initial \in Seq(Controls) /\ form = initial /\ clk = None /\ clickTimers = 0 /\ sent = Nothing
  BY FormsAssumption DEF FieldsInit
<1> QED
  BY <1>1 DEF FieldsInv, FieldsTypeOK, ClickIsFresh

(* What a step leaves: the form stays one of the same controls. *)
StillForm == form' \in Seq(Controls) /\ DOMAIN form' = DOMAIN form

LEMMA EnterKeeps == ASSUME form \in Seq(Controls), Enter PROVE StillForm
<1>1. /\ DOMAIN form = 1..Len(form) /\ Len(form) \in Nat /\ \A i \in DOMAIN form : form[i] \in Controls
      /\ \A i \in DOMAIN form : \A d \in Controls :
              [form EXCEPT ![i] = d] \in Seq(Controls) /\ DOMAIN [form EXCEPT ![i] = d] = DOMAIN form
  BY Replacing
<1>2. PICK i \in DOMAIN form :
       \/ form' = [form EXCEPT ![i].value = "typed"]
       \/ form[i].kind = "checkbox" /\ form' = [form EXCEPT ![i].checked = ~@]
       \/ form' = [j \in DOMAIN form |-> IF form[j].kind = "radio" /\ form[j].name = form[i].name
                                         THEN [form[j] EXCEPT !.checked = j = i] ELSE form[j]]
       \/ \E v \in ToSet(form[i].options) : form' = [form EXCEPT ![i].picked = {v}]
       \/ \E p \in SUBSET ToSet(form[i].options) : form' = [form EXCEPT ![i].picked = p]
  BY DEF Enter
<1> DEFINE c == form[i]
<1>3. c \in Controls
  BY <1>1
<1>4. /\ \A v \in Texts : [c EXCEPT !.value = v] \in Controls
      /\ \A b \in BOOLEAN : [c EXCEPT !.checked = b] \in Controls
      /\ \A p \in SUBSET ToSet(c.options) : [c EXCEPT !.picked = p] \in Controls
  BY <1>3, Changing
<1>5. CASE form' = [form EXCEPT ![i].value = "typed"]
  <2>1. form' = [form EXCEPT ![i] = [c EXCEPT !.value = "typed"]]
    BY <1>5
  <2>2. [c EXCEPT !.value = "typed"] \in Controls
    BY <1>4, FormsAssumption
  <2> QED
    BY <1>1, <2>1, <2>2 DEF StillForm
<1>6. CASE form' = [form EXCEPT ![i].checked = ~@]
  <2>1. form' = [form EXCEPT ![i] = [c EXCEPT !.checked = ~c.checked]]
    BY <1>6
  <2>2. [c EXCEPT !.checked = ~c.checked] \in Controls
    <3>1. (~c.checked) \in BOOLEAN
      OBVIOUS
    <3> QED
      BY <1>4, <3>1
  <2> QED
    BY <1>1, <2>1, <2>2 DEF StillForm
<1>7. CASE form' = [j \in DOMAIN form |-> IF form[j].kind = "radio" /\ form[j].name = form[i].name
                                          THEN [form[j] EXCEPT !.checked = j = i] ELSE form[j]]
  <2>1. ASSUME NEW j \in DOMAIN form PROVE form'[j] \in Controls
    <3>1. form[j] \in Controls
      BY <1>1
    <3>2. [form[j] EXCEPT !.checked = (j = i)] \in Controls
      <4>1. (j = i) \in BOOLEAN
        OBVIOUS
      <4>2. \A b \in BOOLEAN : [form[j] EXCEPT !.checked = b] \in Controls
        BY <3>1, Changing
      <4> QED
        BY <4>1, <4>2
    <3> QED
      BY <1>7, <3>1, <3>2
  <2>2. form' = [j \in DOMAIN form |-> form'[j]]
    BY <1>7
  <2> QED
    BY <2>1, <2>2, Rebuilding DEF StillForm
<1>8. ASSUME NEW p \in SUBSET ToSet(c.options), form' = [form EXCEPT ![i].picked = p]
      PROVE  StillForm
  <2>1. form' = [form EXCEPT ![i] = [c EXCEPT !.picked = p]]
    BY <1>8
  <2>2. [c EXCEPT !.picked = p] \in Controls
    BY <1>4
  <2> QED
    BY <1>1, <2>1, <2>2 DEF StillForm
<1>9. \A v \in ToSet(c.options) : {v} \in SUBSET ToSet(c.options)
  OBVIOUS
<1> QED
  BY <1>2, <1>5, <1>6, <1>7, <1>8, <1>9

LEMMA ScriptsKeep ==
  ASSUME form \in Seq(Controls), initial \in Seq(Controls), DOMAIN form = DOMAIN initial,
         Clear \/ Reset \/ Enable \/ Select
  PROVE  StillForm
<1>1. /\ DOMAIN form = 1..Len(form) /\ Len(form) \in Nat /\ \A i \in DOMAIN form : form[i] \in Controls
      /\ \A i \in DOMAIN form : \A d \in Controls :
              [form EXCEPT ![i] = d] \in Seq(Controls) /\ DOMAIN [form EXCEPT ![i] = d] = DOMAIN form
  BY Replacing
<1>2. CASE Clear
  <2>1. PICK h \in BOOLEAN : form' = ClearFields(form, h)
    BY <1>2 DEF Clear
  <2> QED
    BY <2>1, Clearing DEF StillForm
<1>3. CASE Reset
  <2>1. form' = [i \in DOMAIN form |-> [initial[i] EXCEPT !.disabled = form[i].disabled]]
    BY <1>3 DEF Reset
  <2>2. ASSUME NEW i \in DOMAIN form PROVE form'[i] \in Controls
    <3>1. initial[i] \in Controls
      BY Replacing
    <3>2. form[i] \in Controls /\ form[i].disabled \in BOOLEAN
      BY <1>1, ControlHas
    <3>3. [initial[i] EXCEPT !.disabled = form[i].disabled] \in Controls
      BY <3>1, <3>2, Changing
    <3> QED
      BY <2>1, <3>3
  <2>3. form' = [i \in DOMAIN form |-> form'[i]]
    BY <2>1
  <2> QED
    BY <2>2, <2>3, Rebuilding DEF StillForm
<1>4. CASE Enable
  <2>1. PICK i \in DOMAIN form, b \in BOOLEAN : form' = [form EXCEPT ![i].disabled = ~b]
    BY <1>4 DEF Enable
  <2> DEFINE d == [form[i] EXCEPT !.disabled = ~b]
  <2>2. form' = [form EXCEPT ![i] = d]
    BY <2>1
  <2>3. d \in Controls
    <3>1. (~b) \in BOOLEAN /\ form[i] \in Controls
      BY <1>1
    <3>2. \A x \in BOOLEAN : [form[i] EXCEPT !.disabled = x] \in Controls
      BY <3>1, Changing
    <3> QED
      BY <3>1, <3>2
  <2> HIDE DEF d
  <2> QED
    BY <1>1, <2>2, <2>3 DEF StillForm
<1>5. CASE Select
  <2>1. PICK i \in DOMAIN form, select \in BOOLEAN :
          /\ form[i].kind \in {"checkbox", "radio"} \cup Selects
          /\ \E v \in ToSet(form[i].options) \cup {""} : form' = [form EXCEPT ![i] = SelectedField(@, v, select)]
          /\ form[i].kind \in Selects => form'[i].picked \subseteq ToSet(form[i].options)
    BY <1>5 DEF Select
  <2>2. PICK v : form' = [form EXCEPT ![i] = SelectedField(form[i], v, select)]
    BY <2>1
  <2> DEFINE d == SelectedField(form[i], v, select)
  <2>3. form'[i] = d
    BY <2>2
  <2>4. d \in Controls
    BY <1>1, <2>1, <2>3, Selecting
  <2>5. form' = [form EXCEPT ![i] = d]
    BY <2>2
  <2> HIDE DEF d
  <2> QED
    BY <1>1, <2>4, <2>5 DEF StillForm
<1> QED
  BY <1>2, <1>3, <1>4, <1>5

LEMMA FieldsStep == FieldsInv /\ [FieldsNext]_formVars => FieldsInv'
<1> SUFFICES ASSUME FieldsInv, [FieldsNext]_formVars PROVE FieldsInv'
  OBVIOUS
<1> USE DEF FieldsInv, FieldsTypeOK, ClickIsFresh
<1>1. CASE UNCHANGED formVars
  BY <1>1 DEF formVars, SentFrom
<1>2. CASE FieldsNext
  <2>1. UNCHANGED initial
    BY <1>2 DEF FieldsNext
  <2>2. /\ form \in Seq(Controls) /\ initial \in Seq(Controls) /\ DOMAIN form = DOMAIN initial
        /\ clk \in {None} \cup DOMAIN form /\ clickTimers \in Nat
        /\ clk # None => clk = latest /\ clickTimers > 0
        /\ sent = Nothing \/ SentFrom(sent)
    OBVIOUS
  <2>3. ASSUME StillForm, UNCHANGED <<clk, clickTimers, sent, latest>> PROVE FieldsInv'
    BY <2>1, <2>2, <2>3 DEF StillForm, SentFrom
  <2>4. CASE Enter
    <3>1. UNCHANGED <<clk, clickTimers, sent, latest>>
      BY <2>4 DEF Enter
    <3> QED
      BY <2>2, <2>3, <2>4, <3>1, EnterKeeps
  <2>5. CASE Clear \/ Reset \/ Enable \/ Select
    <3>1. UNCHANGED <<clk, clickTimers, sent, latest>>
      BY <2>5 DEF Clear, Reset, Enable, Select
    <3> QED
      BY <2>2, <2>3, <2>5, <3>1, ScriptsKeep
  <2>6. CASE ForgetTimer
    BY <2>1, <2>2, <2>6 DEF ForgetTimer, SentFrom
  <2>7. ASSUME NEW i \in DOMAIN form, NEW semantic \in BOOLEAN, NEW prevented \in BOOLEAN,
               CaptureSubmittingElement(i, semantic, prevented)
        PROVE  FieldsInv'
    <3>1. clk' = i /\ latest' = i /\ clickTimers' = clickTimers + 1 /\ form' = form
      BY <2>7 DEF CaptureSubmittingElement
    <3>2. sent' = sent \/ sent' = [pairs |-> FormToArray(form, semantic, i), semantic |-> semantic, by |-> i, form |-> form]
      BY <2>7 DEF CaptureSubmittingElement
    <3>3. sent' = Nothing \/ SentFrom(sent')
      <4>1. CASE sent' = sent
        BY <2>2, <4>1
      <4>2. CASE sent' = [pairs |-> FormToArray(form, semantic, i), semantic |-> semantic, by |-> i, form |-> form]
        BY <2>2, <4>2 DEF SentFrom
      <4> QED
        BY <3>2, <4>1, <4>2
    <3>4. FieldsTypeOK' /\ ClickIsFresh'
      BY <2>1, <2>2, <3>1
    <3>5. (sent = Nothing \/ SentFrom(sent))'
      BY <3>3 DEF SentFrom, Nothing, FormToArray, ClickedImage, None
    <3> QED
      BY <3>4, <3>5
  <2>8. ASSUME NEW semantic \in BOOLEAN, SubmitForm(semantic) PROVE FieldsInv'
    <3>1. UNCHANGED <<form, clk, clickTimers, latest>>
      BY <2>8 DEF SubmitForm
    <3>2. sent' = [pairs |-> FormToArray(form, semantic, clk), semantic |-> semantic, by |-> clk, form |-> form]
      BY <2>8 DEF SubmitForm
    <3>3. SentFrom(sent')
      BY <2>2, <3>2 DEF SentFrom
    <3> QED
      BY <2>1, <2>2, <3>1, <3>3
  <2> QED
    BY <1>2, <2>4, <2>5, <2>6, <2>7, <2>8 DEF FieldsNext
<1> QED
  BY <1>1, <1>2

LEMMA FieldsGive == FieldsInv => FieldsRight
<1> SUFFICES ASSUME FieldsInv PROVE FieldsRight
  OBVIOUS
<1>1. FieldsTypeOK /\ ClickIsFresh /\ (sent = Nothing \/ SentFrom(sent)) /\ form \in Seq(Controls)
  BY DEF FieldsInv, FieldsTypeOK
<1>2. SentAsBrowser
  <2>1. CASE sent = Nothing
    <3>1. sent.pairs = <<>> /\ sent.form = <<>> /\ sent.by = None
      BY <2>1 DEF Nothing
    <3>2. ToSet(<<>>) = {} /\ Browser(<<>>, None) = {}
      BY DEF ToSet, Browser
    <3> QED
      BY <3>1, <3>2 DEF SentAsBrowser
  <2>2. CASE SentFrom(sent)
    <3> DEFINE f == sent.form
               b == sent.by
               sem == sent.semantic
    <3>1. f \in Seq(Controls) /\ b \in {None} \cup DOMAIN f /\ sem \in BOOLEAN /\ sent.pairs = FormToArray(f, sem, b)
      BY <2>2 DEF SentFrom
    <3> HIDE DEF f, b, sem
    <3>2. ToSet(sent.pairs) = Browser(f, b)
      BY <3>1, ArrayIs
    <3>3. \A p : Times(FormToArray(f, TRUE, b), p) = Times(FormToArray(f, FALSE, b), p)
      BY <3>1, BothOrders
    <3>4. \A p : Times(sent.pairs, p) = Times(FormToArray(f, ~sem, b), p)
      <4>1. CASE sem = TRUE
        <5>1. (~sem) = FALSE
          BY <4>1
        <5> QED
          BY <3>1, <3>3, <4>1, <5>1
      <4>2. CASE sem = FALSE
        <5>1. (~sem) = TRUE
          BY <4>2
        <5> QED
          BY <3>1, <3>3, <4>2, <5>1
      <4> QED
        BY <3>1, <4>1, <4>2
    <3> QED
      BY <3>2, <3>4 DEF SentAsBrowser, f, b, sem
  <2> QED
    BY <1>1, <2>1, <2>2
<1>3. ClearedIsEmpty
  BY <1>1, ClearedSends DEF ClearedIsEmpty
<1>4. SerializesAlike
  <2> SUFFICES ASSUME \A i \in DOMAIN form : form[i].kind \notin {"file", "image"},
                      NEW b \in {None} \cup {i \in DOMAIN form : CanClick(form, i)}
               PROVE  FieldSerialize(form, TRUE, b) = FormToArray(form, FALSE, b)
    BY DEF SerializesAlike
  <2>1. b \in {None} \cup DOMAIN form
    OBVIOUS
  <2> QED
    BY <1>1, <2>1, Serializing
<1> QED
  BY <1>1, <1>2, <1>3, <1>4 DEF FieldsRight

(* For every form, whatever users and scripts do to it and whenever the note *)
(* of a click is forgotten: what was sent is what a browser would send of    *)
(* the form as it then was and of the button clicked last.                   *)
THEOREM FieldsAreRight == FieldsSpec => []FieldsRight
<1>1. FieldsInit => FieldsInv
  BY FieldsStart
<1>2. FieldsInv /\ [FieldsNext]_formVars => FieldsInv'
  BY FieldsStep
<1>3. FieldsInv => FieldsRight
  BY FieldsGive
<1> QED
  BY <1>1, <1>2, <1>3, PTL DEF FieldsSpec
=============================================================================
