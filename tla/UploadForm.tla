----------------------------- MODULE UploadForm -----------------------------
(* The form plugin (js/jquery.form.js): ajaxSubmit with its vetoes, and the  *)
(* upload through a hidden frame (fileUploadIframe), where a load event, a   *)
(* deadline, a probe for an abort by the server, a retry for frames that are *)
(* not ready and the caller's own abort race to settle an upload.            *)
(*                                                                           *)
(* What a frame shows is abstracted to a few kinds of document.  An upload   *)
(* by XMLHttpRequest is jQuery's affair from the start and not modelled.     *)
EXTENDS Integers, Sequences

CONSTANTS Uploads,  \* calls of ajaxSubmit
          Options,  \* the settings a page may pass, see OptionsAssumption
          Tries     \* domCheckCount, 50 in the code

ASSUME OptionsAssumption ==
  /\ Options \subseteq [global    : BOOLEAN,   \* s.global
                        limited   : BOOLEAN,   \* s.timeout
                        sync      : BOOLEAN,   \* s.forceSync
                        named     : BOOLEAN,   \* s.iframeTarget
                        keepAlive : BOOLEAN,   \* closeKeepAlive
                        clears    : BOOLEAN]   \* resetForm or clearForm
ASSUME TriesAssumption == Tries \in Nat \ {0}

VARIABLES at,        \* idle, vetoed, closing, queued, sent or refused
          opt,       \* the options of each upload
          docs,      \* what the frame of the upload shows
          loaded,    \* a load event of the frame is due
          hears,     \* the load listener is attached
          deadline,  \* the timer of s.timeout is set
          probe,     \* the timer of checkState is set
          retry,     \* the timer that calls cb again is set
          tries,     \* domCheckCount
          aborted,   \* xhr.aborted
          processed, \* callbackProcessed
          called,    \* the page's callbacks called so far, in order
          active,    \* $.active
          busy,      \* ajaxStart without an ajaxStop since
          late,      \* history variable: aborted by the caller when settled already
          threw      \* history variable: a callback of the page threw

timers == <<deadline, probe, retry, tries>>
frame == <<docs, loaded, hears>>
settled == <<aborted, processed, called, active, busy>>
history == <<late, threw>>
vars == <<at, opt, frame, timers, settled, history>>

(* blank before the server answers; failed is an error page or a text that   *)
(* cannot be parsed; closed cannot be looked into at all.                    *)
Documents == {"blank", "ok", "failed", "unready", "closed"}
Success(u) == (IF opt[u].clears THEN <<"clear">> ELSE <<>>) \o <<"success">>

Init ==
  /\ at = [u \in Uploads |-> "idle"] /\ opt \in [Uploads -> Options]
  /\ docs = [u \in Uploads |-> "blank"]
  /\ tries = [u \in Uploads |-> Tries] /\ called = [u \in Uploads |-> <<>>]
  /\ active = 0 /\ busy = FALSE
  /\ LET no == [u \in Uploads |-> FALSE]
     IN  /\ loaded = no /\ hears = no /\ deadline = no /\ probe = no /\ retry = no
         /\ aborted = no /\ processed = no /\ late = no /\ threw = no

-----------------------------------------------------------------------------
(* doSubmit, of the timer or at once: it does not look at xhr.aborted. *)
Submit(u) ==
  /\ at' = [at EXCEPT ![u] = "sent"]
  /\ deadline' = [deadline EXCEPT ![u] = opt[u].limited]
  /\ hears' = [hears EXCEPT ![u] = ~opt[u].named]
  /\ probe' = [probe EXCEPT ![u] = TRUE]

DoSubmit(u) ==
  /\ at[u] = "queued" /\ Submit(u)
  /\ UNCHANGED <<opt, docs, loaded, retry, tries, settled, history>>

(* The mock object's abort: error, then complete, unless error throws.  The  *)
(* count of active requests stays as it is.                                  *)
Abort(u) ==
  /\ aborted' = [aborted EXCEPT ![u] = TRUE]
  /\ \E throws \in BOOLEAN :
       /\ called' = [called EXCEPT ![u] = @ \o IF throws THEN <<"error">> ELSE <<"error", "complete">>]
       /\ threw' = [threw EXCEPT ![u] = @ \/ throws]
  /\ UNCHANGED <<processed, active, busy, late>>

(* fileUploadIframe: ajaxStart, then beforeSend, which may refuse the upload *)
(* (and then no ajaxStop follows) or abort it.                               *)
Upload(u) ==
  LET n == active + (IF opt[u].global THEN 1 ELSE 0)
  IN  /\ busy' = (busy \/ (opt[u].global /\ active = 0))
      /\ \/ /\ IF opt[u].sync THEN Submit(u)
               ELSE at' = [at EXCEPT ![u] = "queued"] /\ UNCHANGED <<deadline, hears, probe>>
            /\ active' = n /\ UNCHANGED <<aborted, called>>
         \/ /\ at' = [at EXCEPT ![u] = "refused"]
            /\ active' = active /\ UNCHANGED <<deadline, hears, probe, aborted, called>>
         \/ /\ at' = [at EXCEPT ![u] = "refused"] /\ active' = n
            /\ aborted' = [aborted EXCEPT ![u] = TRUE]
            /\ called' = [called EXCEPT ![u] = <<"error", "complete">>]
            /\ UNCHANGED <<deadline, hears, probe>>
      /\ UNCHANGED <<opt, docs, loaded, retry, tries, processed, history>>

(* ajaxSubmit: one of four hooks may veto; with closeKeepAlive the upload    *)
(* starts when that request is answered, and never if it fails.              *)
AjaxSubmit(u) ==
  /\ at[u] = "idle"
  /\ \/ at' = [at EXCEPT ![u] = "vetoed"]
        /\ UNCHANGED <<opt, frame, timers, settled, history>>
     \/ /\ opt[u].keepAlive /\ at' = [at EXCEPT ![u] = "closing"]
        /\ UNCHANGED <<opt, frame, timers, settled, history>>
     \/ ~opt[u].keepAlive /\ Upload(u)

KeptAlive(u) == at[u] = "closing" /\ Upload(u)

-----------------------------------------------------------------------------
(* The outcome of a document the frame shows: the page's callbacks, the      *)
(* global events and the clean-up.  A callback that throws ends all of it.   *)
Settle(u, d) ==
  \E threwIn \in {"none", "outcome", "complete"} :
    LET outcome == IF d \in {"ok", "unready"} THEN Success(u) ELSE <<"error">>
        ends    == threwIn # "outcome"
        n       == active - (IF opt[u].global THEN 1 ELSE 0)
    IN  /\ called' = [called EXCEPT ![u] = @ \o outcome \o IF ends THEN <<"complete">> ELSE <<>>]
        /\ active' = IF ends THEN n ELSE active
        /\ busy' = (busy /\ ~(ends /\ opt[u].global /\ n = 0))
        /\ threw' = [threw EXCEPT ![u] = @ \/ threwIn # "none"]
        /\ processed' = [processed EXCEPT ![u] = threwIn = "none"]
        /\ deadline' = [deadline EXCEPT ![u] = @ /\ threwIn # "none"]
        /\ UNCHANGED <<aborted, late>>

(* Mutant: an upload that was settled is looked at again. *)
Open_Settled(u) == ~aborted[u]
Open(u) == ~aborted[u] /\ ~processed[u]

(* Mutant: the tries are not counted. *)
TriesAfter_Same(u) == tries[u]
TriesAfter(u) == IF docs[u] = "unready" THEN tries[u] - 1 ELSE tries[u]

(* cb, for a load event, its retry, the deadline or an abort by the server:  *)
(* the first to find the upload open settles it; the frame's blank page is   *)
(* no answer; and a document that is not ready is tried again for a while.   *)
Cb(u, event) ==
  LET cause  == IF docs[u] = "closed" THEN "server" ELSE event
      answer == Open(u) /\ cause \in {"load", "retry"} /\ docs[u] # "blank"
      again  == answer /\ docs[u] = "unready" /\ TriesAfter(u) > 0
  IN  /\ hears' = [hears EXCEPT ![u] = @ /\ ~answer]
      /\ tries' = [tries EXCEPT ![u] = IF answer THEN TriesAfter(u) ELSE @]
      /\ retry' = [retry EXCEPT ![u] = again \/ (@ /\ event # "retry")]
      /\ \/ answer /\ ~again /\ Settle(u, docs[u])
         \/ Open(u) /\ cause \in {"timeout", "server"} /\ Abort(u) /\ deadline' = [deadline EXCEPT ![u] = @ /\ event \notin {"timeout", "server"}]
         \/ /\ IF Open(u) THEN cause \in {"load", "retry"} /\ (docs[u] = "blank" \/ again) ELSE TRUE
            /\ UNCHANGED <<settled, history>> /\ deadline' = [deadline EXCEPT ![u] = @ /\ event \notin {"timeout", "server"}]

(* The frame shows its blank page or the server's answer. *)
Answer(u, d) ==
  /\ at[u] = "sent" /\ docs[u] = "blank"
  /\ docs' = [docs EXCEPT ![u] = d] /\ loaded' = [loaded EXCEPT ![u] = TRUE]
  /\ UNCHANGED <<at, opt, hears, timers, settled, history>>

LoadEvent(u) ==
  /\ loaded[u] /\ loaded' = [loaded EXCEPT ![u] = FALSE]
  /\ IF hears[u] THEN Cb(u, "load") ELSE UNCHANGED <<hears, retry, tries, deadline, settled, history>>
  /\ UNCHANGED <<at, opt, docs, probe>>

Retry(u) ==
  retry[u] /\ Cb(u, "retry") /\ UNCHANGED <<at, opt, docs, loaded, probe>>

Deadline(u) ==
  deadline[u] /\ Cb(u, "timeout") /\ UNCHANGED <<at, opt, docs, loaded, probe>>

(* checkState takes a frame it may not look into for an abort by the server, *)
(* and clears the deadline then; it looks again later while the frame has no *)
(* document at all, which changes nothing.                                   *)
CheckState(u) ==
  /\ probe[u] /\ probe' = [probe EXCEPT ![u] = FALSE]
  /\ IF docs[u] = "closed" THEN Cb(u, "server")
     ELSE UNCHANGED <<hears, retry, tries, deadline, settled, history>>
  /\ UNCHANGED <<at, opt, docs, loaded>>

(* The page calls abort of the object it was given, at any time. *)
CallerAborts(u) ==
  /\ at[u] \in {"queued", "sent"} /\ ~late[u]
  /\ aborted' = [aborted EXCEPT ![u] = TRUE]
  /\ called' = [called EXCEPT ![u] = @ \o <<"error", "complete">>]
  /\ late' = [late EXCEPT ![u] = aborted[u] \/ processed[u]]
  /\ UNCHANGED <<at, opt, frame, timers, processed, active, busy, threw>>

Timers(u) == DoSubmit(u) \/ LoadEvent(u) \/ Retry(u) \/ Deadline(u) \/ CheckState(u)
Next == \E u \in Uploads : \/ AjaxSubmit(u) \/ KeptAlive(u) \/ Timers(u) \/ CallerAborts(u)
                           \/ \E d \in Documents : Answer(u, d)

(* The browser runs the timers and events that are due. *)
Fairness == \A u \in Uploads : WF_vars(DoSubmit(u)) /\ WF_vars(LoadEvent(u)) /\ WF_vars(Retry(u))
                               /\ WF_vars(Deadline(u)) /\ WF_vars(CheckState(u))
Spec == Init /\ [][Next]_vars /\ Fairness

-----------------------------------------------------------------------------
UploadTypeOK ==
  /\ at \in [Uploads -> {"idle", "vetoed", "closing", "queued", "sent", "refused"}]
  /\ opt \in [Uploads -> Options] /\ docs \in [Uploads -> Documents]
  /\ tries \in [Uploads -> 0..Tries] /\ active \in Nat /\ busy \in BOOLEAN
  /\ \A flag \in {loaded, hears, deadline, probe, retry, aborted, processed, late, threw} :
       flag \in [Uploads -> BOOLEAN]

(* An upload is reported to the page once, as a success or as an error, and  *)
(* then as complete, however its answer, its deadline, the probe, the retry  *)
(* and the caller's abort meet; unless a callback of the page threw, or the  *)
(* page aborted what was settled already.                                    *)
SettlesOnce ==
  \A u \in Uploads :
    \/ threw[u] \/ late[u]
    \/ /\ called[u] \in {<<>>, <<"error", "complete">>, Success(u) \o <<"complete">>}
       /\ (called[u] = <<>>) = Open(u)

(* The busy indicator, which pages hang on ajaxStart and ajaxStop, shows     *)
(* while an upload is in flight; and when it shows without one, then because *)
(* an upload was aborted or refused or a callback threw: those are never     *)
(* taken back from jQuery's count.                                           *)
IndicatorHasCause ==
  LET global   == {u \in Uploads : opt[u].global}
      InFlight(u) == at[u] \in {"queued", "sent"} /\ Open(u)
  IN  /\ (\E u \in global : InFlight(u) /\ ~threw[u]) => busy /\ active > 0
      /\ busy \/ active > 0 =>
           \E u \in global : InFlight(u) \/ aborted[u] \/ threw[u] \/ at[u] = "refused"

UploadSafe == SettlesOnce /\ IndicatorHasCause

(* An upload that was sent is reported as complete in the end, if it has a   *)
(* deadline or its frame shows an answer; a frame of the page's own choice   *)
(* (iframeTarget) is never listened to, so there only the deadline helps.    *)
Settles ==
  \A u \in Uploads :
    (at[u] = "sent" /\ (opt[u].limited \/ (docs[u] # "blank" /\ ~opt[u].named)))
      ~> (threw[u] \/ \E i \in DOMAIN called[u] : called[u][i] = "complete")
=============================================================================
