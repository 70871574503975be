----------------------------- MODULE WebConsole -----------------------------
(***************************************************************************)
(* The polls of the web console (src/public/app.js): update_status and     *)
(* update_packet_counts ask the nanocap process for its status and its     *)
(* packet counts, and each schedules its next poll with a timer that it    *)
(* sets before the answer is there.  Answers of several polls can be       *)
(* outstanding, in any order, while the process goes down and comes back.  *)
(*                                                                         *)
(* Time is abstracted: a timer fires some time after it is set, an answer  *)
(* comes some time after its request.  `armed` keeps the delay a timer was *)
(* set with, in milliseconds, because an interval that is changed later    *)
(* does not change the timer.                                              *)
(***************************************************************************)
EXTENDS Naturals

CONSTANTS
    MaxInFlight,  \* bound: requests of a kind that are not answered
    MaxCrashes    \* bound: times the process goes down

ASSUME WebConsoleAssumption ==
    /\ MaxInFlight \in Nat \ {0}
    /\ MaxCrashes \in Nat

VARIABLES
    up,        \* the nanocap process runs and can be reached
    crashes,   \* times it went down
    interval,  \* status_interval and packet_count_interval
    armed,     \* the delay of the timer of each poll
    pending,   \* requests that will be answered
    lost,      \* requests that will fail
    offline    \* the indicator #status_network is shown

vars == <<up, crashes, interval, armed, pending, lost, offline>>

Polls == {"status", "counts"}

Init ==
    /\ up \in BOOLEAN
    /\ crashes = 0
    /\ interval = [status |-> 1200, counts |-> 2000]
    /\ armed = interval
    /\ pending = [p \in Polls |-> IF up THEN 1 ELSE 0]
    /\ lost    = [p \in Polls |-> IF up THEN 0 ELSE 1]
    /\ offline = FALSE

-----------------------------------------------------------------------------
(***************************************************************************)
(* A timer fires: the request is sent and the timer is set again, with the *)
(* interval as it is now, whatever becomes of the request.                 *)
(***************************************************************************)
Poll(p) ==
    /\ pending[p] + lost[p] < MaxInFlight
    /\ IF up THEN /\ pending' = [pending EXCEPT ![p] = @ + 1]
                  /\ UNCHANGED lost
             ELSE /\ lost' = [lost EXCEPT ![p] = @ + 1]
                  /\ UNCHANGED pending
    /\ armed' = [armed EXCEPT ![p] = interval[p]]
    /\ UNCHANGED <<up, crashes, interval, offline>>

Answered(p) ==
    /\ pending[p] > 0
    /\ pending' = [pending EXCEPT ![p] = @ - 1]
    /\ UNCHANGED <<up, crashes, armed, lost>>

Failed(p) ==
    /\ lost[p] > 0
    /\ lost' = [lost EXCEPT ![p] = @ - 1]
    /\ UNCHANGED <<up, crashes, armed, pending>>

\* Mutant: the interval is put back only if it is above three seconds.
StatusDoneLate ==
    /\ Answered("status")
    /\ interval' = [status |-> IF interval.status > 3000 THEN 1200 ELSE interval.status,
                    counts |-> IF interval.status > 1200 THEN 1700 ELSE interval.counts]
    /\ offline' = FALSE

\* .done of the status: when the process was down, the counts start over too.
StatusDone ==
    /\ Answered("status")
    /\ interval' = [status |-> 1200,
                    counts |-> IF interval.status > 1200 THEN 1700 ELSE interval.counts]
    /\ offline' = FALSE

\* .fail of the status
StatusFail ==
    /\ Failed("status")
    /\ interval' = [interval EXCEPT !.status = IF @ < 3000 THEN @ * 2 ELSE @]
    /\ offline' = TRUE

\* Mutant: an answer leaves the interval of the counts as it is.
CountsDoneKeep ==
    /\ Answered("counts")
    /\ UNCHANGED <<interval, offline>>

\* .done of the counts
CountsDone ==
    /\ Answered("counts")
    /\ interval' = [interval EXCEPT !.counts = 1000]
    /\ UNCHANGED offline

\* Mutant: the back-off has no end.
CountsFailAlways ==
    /\ Failed("counts")
    /\ interval' = [interval EXCEPT !.counts = IF @ < 1000000 THEN @ * 2 ELSE @]
    /\ UNCHANGED offline

\* .fail of the counts: back off exponentially.
CountsFail ==
    /\ Failed("counts")
    /\ interval' = [interval EXCEPT !.counts = IF @ < 60000 THEN @ * 2 ELSE @]
    /\ UNCHANGED offline

-----------------------------------------------------------------------------
(***************************************************************************)
(* The process goes down, with the requests it had, and comes back.        *)
(***************************************************************************)
GoDown ==
    /\ up /\ crashes < MaxCrashes
    /\ up' = FALSE
    /\ crashes' = crashes + 1
    /\ lost' = [p \in Polls |-> lost[p] + pending[p]]
    /\ pending' = [p \in Polls |-> 0]
    /\ UNCHANGED <<interval, armed, offline>>

ComeBack ==
    /\ ~up
    /\ up' = TRUE
    /\ UNCHANGED <<crashes, interval, armed, pending, lost, offline>>

Next ==
    \/ \E p \in Polls : Poll(p)
    \/ StatusDone \/ StatusFail \/ CountsDone \/ CountsFail
    \/ GoDown \/ ComeBack

\* Timers fire and requests are answered or fail in the end.  Nothing makes
\* the process go down or come back.
Spec ==
    /\ Init /\ [][Next]_vars
    /\ \A p \in Polls : WF_vars(Poll(p))
    /\ WF_vars(StatusDone) /\ WF_vars(StatusFail)
    /\ WF_vars(CountsDone) /\ WF_vars(CountsFail)

-----------------------------------------------------------------------------
(***************************************************************************)
(* Properties                                                              *)
(***************************************************************************)

\* Types.
TypeOK ==
    /\ up \in BOOLEAN /\ offline \in BOOLEAN
    /\ crashes \in 0..MaxCrashes
    /\ interval \in [status : Nat, counts : Nat]
    /\ armed \in [status : Nat, counts : Nat]
    /\ pending \in [Polls -> 0..MaxInFlight]
    /\ lost \in [Polls -> 0..MaxInFlight]

\* No interval and no timer passes its limit by a factor of two, also when
\* several failures come in between two polls.  The limit itself is passed: the
\* comments of app.js say "we don't back off more than to 3 secs" of the status
\* and "up to 1 minute" of the counts, but the test comes before the interval
\* is doubled, so that the status goes up to 4.8 seconds and the counts to 64 or
\* 108.8.
BackOffBounded ==
    /\ interval.status < 2 * 3000  /\ armed.status < 2 * 3000
    /\ interval.counts < 2 * 60000 /\ armed.counts < 2 * 60000

\* The indicator and the interval, which are set in different places, tell the
\* same story: the console shows that the process cannot be reached exactly
\* while it polls more slowly.  update_status takes the interval for the memory
\* of a failure.
IndicatorTellsBackOff == offline <=> interval.status > 1200

\* Once the process stays up, the console comes to rest: the indicator is gone
\* and both polls are at their quick interval, timers included, whatever answers
\* of the time before were still on their way.
BackToNormal ==
    <>[]up => <>[](/\ ~offline
                   /\ interval = [status |-> 1200, counts |-> 1000]
                   /\ armed = interval)
=============================================================================
