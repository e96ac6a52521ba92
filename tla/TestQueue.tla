------------------------------ MODULE TestQueue ------------------------------
(* QUnit's queue of test phases (jstest/qunit-1.10.0.js): what test() puts   *)
(* into it, the loop that works it off in slices of time, and stop, start    *)
(* and the test timeout that hold it and let it go on.                       *)
(*                                                                           *)
(* JavaScript runs a task to its end; here the loop takes one step per       *)
(* phase, and timers and callbacks wait while it runs.  Of a test only its   *)
(* dealings with the queue are kept, as a plan.                              *)
EXTENDS Integers, Sequences

CONSTANTS Order,  \* the tests of the page, in their order
          Plans,  \* the ways a test may behave:
                  \*   stops  calls of stop, that of asyncTest included
                  \*   starts calls of start by callbacks, later
                  \*   pauses the first callback calls stop again at once
                  \*   dies   the test throws at its end
          Error,  \* the test "global failure"
          NoTest  \* no test, and none of them is called so

Tests == {Order[i] : i \in DOMAIN Order}
All == Tests \cup {Error}

(* No test stands in the page twice; "global failure" is none of them. *)
ASSUME OrderAssumption ==
  /\ Order \in Seq(Tests) /\ \A i, j \in DOMAIN Order : Order[i] = Order[j] => i = j
  /\ Error \notin Tests /\ NoTest \notin All
ASSUME PlansAssumption == Plans \subseteq [stops : Nat, starts : Nat, pauses : BOOLEAN, dies : BOOLEAN]

VARIABLES plan,      \* the plan of each test
          limited,   \* config.testTimeout is set
          queue,     \* config.queue: pairs of a phase and a test
          looping,   \* process is on the stack: "no", "fresh" or "going"
          slices,    \* timers of process, to go on
          starting,  \* timers of start
          blocking,  \* config.blocking
          semaphore, \* config.semaphore
          timeout,   \* the timer config.timeout is set
          current,   \* config.current
          calls,     \* calls of start the callbacks of a test will still make
          ran,       \* history variable: the phases that ran, with their tests
          dones,     \* history variable: calls of done, which sets autorun
          gaveUp,    \* history variable: tests that timed out
          doubled,   \* history variable: two timers of start were set at a time
          disturbed  \* history variable: a test called start without waiting for it,
                     \* or a global error came after the end

setting == <<plan, limited>>
hold == <<starting, blocking, semaphore, timeout, doubled>>
queueVars == <<setting, queue, looping, slices, hold, current, calls, ran, dones, gaveUp, disturbed>>

Phases == <<"setup", "run", "teardown", "finish">>
PhasesOf(t) == [i \in 1..4 |-> <<Phases[i], t>>]

(* Test.queue: a test that failed the last time brings its phases at once,   *)
(* another one puts them behind all that is there when its turn comes.  Its   *)
(* init only draws it and is left out.                                       *)
Queued(t, failed) == IF failed THEN PhasesOf(t) ELSE <<<<"defer", t>>>>

(* The page is loaded and its tests are queued; start waits for its timer. *)
QueueInit ==
  /\ \E p \in [Tests -> Plans] :
       plan = [t \in All |-> IF t = Error THEN [stops |-> 0, starts |-> 0, pauses |-> FALSE, dies |-> FALSE]
                             ELSE p[t]]
  /\ limited \in BOOLEAN
  /\ \E failed \in SUBSET Tests :
       LET q[n \in 0..Len(Order)] ==
             IF n = 0 THEN <<>> ELSE q[n - 1] \o Queued(Order[n], Order[n] \in failed)
       IN  queue = q[Len(Order)]
  /\ looping = "no" /\ slices = 0 /\ starting = 1 /\ blocking = FALSE /\ semaphore = 0
  /\ timeout = FALSE /\ current = NoTest /\ calls = [t \in All |-> 0]
  /\ ran = <<>> /\ dones = 0 /\ gaveUp = {} /\ disturbed = FALSE /\ doubled = FALSE

-----------------------------------------------------------------------------
(* start: the semaphore goes down from s, and a timer is set when it is at   *)
(* 0; stop may be called again at once.                                      *)
Start(s, stops) ==
  /\ semaphore' = stops + IF s > 1 THEN s - 1 ELSE 0
  /\ starting' = IF s > 1 THEN starting ELSE starting + 1
  /\ doubled' = (doubled \/ (s <= 1 /\ starting > 0))

(* stop, called n times: the timeout starts anew. *)
Stop(n) ==
  /\ blocking' = (blocking \/ n > 0)
  /\ timeout' = (IF n > 0 /\ limited THEN TRUE ELSE timeout)

(* Mutant: the timer of start goes on although stop was called meanwhile. *)
Held_Never == FALSE
Held == semaphore > 0

StartTimer ==
  /\ looping = "no" /\ starting > 0 /\ starting' = starting - 1
  /\ IF Held THEN UNCHANGED <<blocking, timeout, looping>>
     ELSE blocking' = FALSE /\ timeout' = FALSE /\ looping' = "fresh"
  /\ UNCHANGED <<setting, queue, slices, semaphore, doubled, current, calls, ran, dones, gaveUp, disturbed>>

NextTimer ==
  /\ looping = "no" /\ slices > 0 /\ slices' = slices - 1 /\ looping' = "fresh"
  /\ UNCHANGED <<setting, queue, hold, current, calls, ran, dones, gaveUp, disturbed>>

(* Mutant: the semaphore stays as the test left it. *)
TimedOutSemaphore_Kept == semaphore
TimedOutSemaphore == 1

(* The timeout fails the test and starts the queue, however often the test   *)
(* called stop.  Without a current test its assertion throws.                *)
TimeoutFires ==
  /\ looping = "no" /\ timeout /\ timeout' = FALSE
  /\ IF current = NoTest THEN UNCHANGED <<semaphore, starting, doubled, gaveUp>>
     ELSE Start(TimedOutSemaphore, 0) /\ gaveUp' = gaveUp \cup {current}
  /\ UNCHANGED <<setting, queue, looping, slices, blocking, current, calls, ran, dones, disturbed>>

(* A callback of a test calls start, and perhaps stop right after it. *)
Callback(t) ==
  /\ looping = "no" /\ calls[t] > 0 /\ calls' = [calls EXCEPT ![t] = @ - 1]
  /\ disturbed' = (disturbed \/ t # current \/ semaphore = 0)
  /\ IF plan[t].pauses /\ calls[t] > plan[t].starts
     THEN Start(semaphore, 1) /\ Stop(1)
     ELSE Start(semaphore, 0) /\ UNCHANGED <<blocking, timeout>>
  /\ UNCHANGED <<setting, queue, looping, slices, current, ran, dones, gaveUp>>

-----------------------------------------------------------------------------
(* One round of process: the head of the queue runs. *)
Round(phase, t) ==
  /\ looping # "no" /\ ~blocking /\ queue # <<>> /\ Head(queue) = <<phase, t>>
  /\ looping' = "going" /\ UNCHANGED <<setting, slices, dones, gaveUp, disturbed>>

Defer(t) ==
  Round("defer", t) /\ queue' = Tail(queue) \o PhasesOf(t) /\ UNCHANGED <<hold, current, calls, ran>>

(* The phases setup and teardown, and finish, after which no test is current. *)
Phase(phase, t) ==
  /\ Round(phase, t) /\ queue' = Tail(queue) /\ ran' = Append(ran, <<phase, t>>)
  /\ current' = (IF phase = "finish" THEN NoTest ELSE t)
  /\ UNCHANGED <<hold, calls>>

(* Test.run: the test may call stop and may throw; then start is called for  *)
(* it once.                                                                  *)
RunTest(t) ==
  LET p == plan[t]  up == semaphore + p.stops
  IN  /\ Round("run", t) /\ queue' = Tail(queue) /\ ran' = Append(ran, <<"run", t>>)
      /\ current' = t /\ Stop(p.stops)
      /\ IF p.dies /\ p.stops > 0 THEN Start(up, 0) ELSE semaphore' = up /\ UNCHANGED <<starting, doubled>>
      /\ calls' = [calls EXCEPT ![t] = p.starts + IF p.pauses THEN 1 ELSE 0]

(* The time of the slice is over; the first round always has time. *)
Break ==
  /\ looping = "going" /\ ~blocking /\ queue # <<>>
  /\ looping' = "no" /\ slices' = slices + 1
  /\ UNCHANGED <<setting, queue, hold, current, calls, ran, dones, gaveUp, disturbed>>

EndLoop ==
  /\ looping # "no" /\ (blocking \/ queue = <<>>) /\ looping' = "no"
  /\ dones' = IF blocking THEN dones ELSE dones + 1
  /\ UNCHANGED <<setting, queue, slices, hold, current, calls, ran, gaveUp, disturbed>>

(* window.onerror: an error outside a test becomes a test of its own, which  *)
(* runs at once when all others have; it is shown for the first such error.  *)
(* When such an error was noted by an earlier run of the page (bad), done is *)
(* not called for it again.                                                  *)
GlobalError ==
  /\ looping = "no" /\ current = NoTest /\ ~\E i \in DOMAIN ran : ran[i][2] = Error
  /\ ~\E i \in DOMAIN queue : queue[i][2] = Error
  /\ \E bad \in BOOLEAN :
       IF dones = 0 \/ blocking
       THEN queue' = queue \o Queued(Error, bad) /\ UNCHANGED <<ran, dones, disturbed>>
       ELSE /\ queue = <<>> /\ ran' = ran \o PhasesOf(Error)
            /\ dones' = (IF bad THEN dones ELSE dones + 1)
            /\ disturbed' = TRUE /\ UNCHANGED queue
  /\ UNCHANGED <<setting, looping, slices, hold, current, calls, gaveUp>>

QueueTimers == StartTimer \/ NextTimer \/ TimeoutFires
Rounds == \/ Break \/ EndLoop
          \/ \E t \in All : \/ Defer(t) \/ RunTest(t)
                            \/ \E phase \in {"setup", "teardown", "finish"} : Phase(phase, t)
QueueNext == QueueTimers \/ Rounds \/ (\E t \in All : Callback(t)) \/ GlobalError

(* The browser runs the task that is on, timers that are due, and callbacks. *)
QueueFairness ==
  /\ WF_queueVars(Rounds) /\ WF_queueVars(StartTimer) /\ WF_queueVars(NextTimer) /\ WF_queueVars(TimeoutFires)
  /\ \A t \in Tests : WF_queueVars(Callback(t))
QueueSpec == QueueInit /\ [][QueueNext]_queueVars /\ QueueFairness

-----------------------------------------------------------------------------
QueueTypeOK ==
  /\ limited \in BOOLEAN /\ looping \in {"no", "fresh", "going"} /\ slices \in Nat /\ starting \in Nat
  /\ blocking \in BOOLEAN /\ semaphore \in Nat /\ timeout \in BOOLEAN
  /\ current \in All \cup {NoTest} /\ calls \in [All -> Nat] /\ dones \in Nat
  /\ gaveUp \subseteq All /\ doubled \in BOOLEAN /\ disturbed \in BOOLEAN

(* The phases of a test run one after the other, none of another test's in   *)
(* between.                                                                  *)
OneTestAtATime ==
  \A i \in DOMAIN ran : LET first == i - ((i - 1) % 4)
                        IN  ran[i] = <<Phases[((i - 1) % 4) + 1], ran[first][2]>>

(* A test that waits for its callbacks is not torn down before they came,    *)
(* unless it timed out.                                                      *)
NotCutShort ==
  \A t \in Tests : (/\ plan[t].starts = plan[t].stops /\ plan[t].stops > 0 /\ ~plan[t].dies /\ t \notin gaveUp
                    /\ \E i \in DOMAIN ran : ran[i] = <<"teardown", t>>) => calls[t] = 0

(* done is called when every test has run, and once, unless two timers of    *)
(* start were set at a time (a test stopped and started again before the     *)
(* first went off, or it timed out then): each of them ends in a call.       *)
DoneAtTheEnd ==
  /\ dones <= 1 \/ doubled
  /\ dones > 0 => \A t \in Tests : \E i \in DOMAIN ran : ran[i] = <<"finish", t>>

(* The queue keeps tests apart, waits for those that ask for it and reports  *)
(* once, as long as no test calls start without waiting for it: a late start *)
(* releases whichever test waits now, and is not ignored either when none    *)
(* does.                                                                     *)
QueueRight == QueueTypeOK /\ OneTestAtATime /\ (disturbed \/ (NotCutShort /\ DoneAtTheEnd))

(* The run of the tests ends if they are limited in time, or if each calls   *)
(* start as often as stop.                                                   *)
TestsEnd ==
  (limited \/ \A t \in Tests : plan[t].starts + (IF plan[t].dies THEN 1 ELSE 0) >= plan[t].stops)
    ~> (dones > 0)
=============================================================================
