-------------------------- MODULE WebConsoleProofs --------------------------
(***************************************************************************)
(* Proofs about WebConsole, for any number of outstanding requests and of  *)
(* times the process goes down.                                            *)
(***************************************************************************)
EXTENDS WebConsole, TLAPS

\* The intervals below their bounds, in which doubling those below the limit
\* leaves them.
StatusIntervals == {v \in Nat : v >= 1200 /\ v < 6000}
CountIntervals == {v \in Nat : v < 120000}

\* A failed status poll doubles an interval below three seconds.
LEMMA StatusBackOff ==
    ASSUME NEW v \in StatusIntervals
    PROVE  /\ (IF v < 3000 THEN v * 2 ELSE v) \in StatusIntervals
           /\ (IF v < 3000 THEN v * 2 ELSE v) > 1200
BY DEF StatusIntervals

\* A failed poll of the counts doubles an interval below a minute.
LEMMA CountsBackOff ==
    ASSUME NEW v \in CountIntervals
    PROVE  (IF v < 60000 THEN v * 2 ELSE v) \in CountIntervals
BY DEF CountIntervals

\* The values the intervals start from and are put back to.
LEMMA Quick ==
    /\ 1200 \in StatusIntervals
    /\ {1000, 1700, 2000} \subseteq CountIntervals
    /\ StatusIntervals \subseteq Nat /\ CountIntervals \subseteq Nat
BY DEF StatusIntervals, CountIntervals

\* Requests of a kind that are outstanding, answered or not, keep the bound:
\* when the process goes down all of them are lost.
FlightBound == \A p \in Polls : pending[p] + lost[p] <= MaxInFlight

\* The types of everything but the flags, which have a lemma of their own.
NumberType ==
    /\ crashes \in 0..MaxCrashes
    /\ interval \in [status : StatusIntervals, counts : CountIntervals]
    /\ armed \in [status : StatusIntervals, counts : CountIntervals]
    /\ pending \in [Polls -> Nat]
    /\ lost \in [Polls -> Nat]

IInv == NumberType /\ FlightBound /\ IndicatorTellsBackOff

\* The page has been loaded and no poll answered.
LEMMA InitInv == Init => IInv
<1>. SUFFICES ASSUME Init PROVE IInv
    OBVIOUS
<1>. USE WebConsoleAssumption DEF WebConsoleAssumption, Init
<1>1. interval \in [status : StatusIntervals, counts : CountIntervals]
    BY Quick
<1>2. IndicatorTellsBackOff
    BY DEF IndicatorTellsBackOff
<1>3. /\ pending \in [Polls -> Nat] /\ lost \in [Polls -> Nat]
      /\ FlightBound
    <2>1. CASE up BY <2>1 DEF FlightBound
    <2>2. CASE ~up BY <2>2 DEF FlightBound
    <2>. QED BY <2>1, <2>2
<1>. QED BY <1>1, <1>2, <1>3 DEF IInv, NumberType

\* A poll that begins keeps the bounds.
LEMMA PollStep ==
    ASSUME IInv, NEW p \in Polls, Poll(p)
    PROVE  IInv'
<1>. USE WebConsoleAssumption DEF WebConsoleAssumption, IInv, Poll
<1>1. armed' \in [status : StatusIntervals, counts : CountIntervals]
    <2>1. CASE p = "status" BY <2>1 DEF NumberType
    <2>2. CASE p = "counts" BY <2>2 DEF NumberType
    <2>. QED BY <2>1, <2>2 DEF Polls
<1>2. /\ pending' \in [Polls -> Nat] /\ lost' \in [Polls -> Nat]
      /\ FlightBound'
    <2>1. CASE up BY <2>1 DEF NumberType, FlightBound
    <2>2. CASE ~up BY <2>2 DEF NumberType, FlightBound
    <2>. QED BY <2>1, <2>2
<1>3. IndicatorTellsBackOff'
    BY DEF IndicatorTellsBackOff
<1>. QED BY <1>1, <1>2, <1>3 DEF NumberType

\* An answer or a failure takes one request away.
LEMMA FlightStep ==
    ASSUME IInv, NEW p \in Polls, Answered(p) \/ Failed(p)
    PROVE  /\ crashes' = crashes /\ armed' = armed
           /\ pending' \in [Polls -> Nat] /\ lost' \in [Polls -> Nat]
           /\ FlightBound'
<1>. USE DEF IInv, NumberType, FlightBound
<1>1. /\ pending[p] \in Nat /\ lost[p] \in Nat
      /\ \A q \in Polls : pending[q] \in Nat /\ lost[q] \in Nat
    OBVIOUS
<1>2. CASE Answered(p)
    <2>1. pending[p] - 1 \in Nat BY <1>1, <1>2 DEF Answered
    <2>2. pending' \in [Polls -> Nat] /\ lost' = lost
        BY <2>1, <1>2 DEF Answered
    <2>3. \A q \in Polls : pending'[q] <= pending[q]
        BY <1>1, <1>2 DEF Answered
    <2>4. FlightBound'
        BY <2>2, <2>3, <1>1, WebConsoleAssumption DEF WebConsoleAssumption
    <2>. QED BY <2>2, <2>4, <1>2 DEF Answered
<1>3. CASE Failed(p)
    <2>1. lost[p] - 1 \in Nat BY <1>1, <1>3 DEF Failed
    <2>2. lost' \in [Polls -> Nat] /\ pending' = pending
        BY <2>1, <1>3 DEF Failed
    <2>3. \A q \in Polls : lost'[q] <= lost[q]
        BY <1>1, <1>3 DEF Failed
    <2>4. FlightBound'
        BY <2>2, <2>3, <1>1, WebConsoleAssumption DEF WebConsoleAssumption
    <2>. QED BY <2>2, <2>4, <1>3 DEF Failed
<1>. QED BY <1>2, <1>3

\* An answer or an error keeps the bounds.
LEMMA AnswerStep ==
    ASSUME IInv, StatusDone \/ StatusFail \/ CountsDone \/ CountsFail
    PROVE  IInv'
<1>1. "status" \in Polls /\ "counts" \in Polls
    BY DEF Polls
<1>2. /\ crashes' = crashes /\ armed' = armed
      /\ pending' \in [Polls -> Nat] /\ lost' \in [Polls -> Nat]
      /\ FlightBound'
    BY <1>1, FlightStep DEF StatusDone, StatusFail, CountsDone, CountsFail
<1>3. /\ interval \in [status : StatusIntervals, counts : CountIntervals]
      /\ IndicatorTellsBackOff
    BY DEF IInv, NumberType
<1>4. /\ interval' \in [status : StatusIntervals, counts : CountIntervals]
      /\ IndicatorTellsBackOff'
    <2>1. CASE StatusDone
        BY <2>1, <1>3, Quick DEF StatusDone, IndicatorTellsBackOff
    <2>2. CASE StatusFail
        <3>1. /\ interval'.status \in StatusIntervals
              /\ interval'.status > 1200
            BY <2>2, <1>3, StatusBackOff DEF StatusFail
        <3>. QED BY <3>1, <2>2, <1>3 DEF StatusFail, IndicatorTellsBackOff
    <2>3. CASE CountsDone
        BY <2>3, <1>3, Quick DEF CountsDone, IndicatorTellsBackOff
    <2>4. CASE CountsFail
        BY <2>4, <1>3, CountsBackOff DEF CountsFail, IndicatorTellsBackOff
    <2>. QED BY <2>1, <2>2, <2>3, <2>4
<1>. QED BY <1>2, <1>4 DEF IInv, NumberType

\* nanocap going down or coming back keeps the bounds.
LEMMA ProcessStep ==
    ASSUME IInv, GoDown \/ ComeBack
    PROVE  IInv'
<1>. USE WebConsoleAssumption
     DEF WebConsoleAssumption, IInv, NumberType, FlightBound, IndicatorTellsBackOff
<1>1. CASE GoDown BY <1>1 DEF GoDown
<1>2. CASE ComeBack BY <1>2 DEF ComeBack
<1>. QED BY <1>1, <1>2

\* The bounds hold whatever the answers.
LEMMA Invariance == Spec => []IInv
<1>1. Init => IInv
    BY InitInv
<1>2. IInv /\ [Next]_vars => IInv'
    <2>. SUFFICES ASSUME IInv, [Next]_vars PROVE IInv'
        OBVIOUS
    <2>1. CASE UNCHANGED vars
        BY <2>1 DEF vars, IInv, NumberType, FlightBound, IndicatorTellsBackOff
    <2>2. CASE Next
        BY <2>2, PollStep, AnswerStep, ProcessStep DEF Next
    <2>. QED BY <2>1, <2>2
<1>. QED BY <1>1, <1>2, PTL DEF Spec

\* The flags stay flags.
LEMMA FlagInvariance == Spec => [](up \in BOOLEAN /\ offline \in BOOLEAN)
<1>1. Init => up \in BOOLEAN /\ offline \in BOOLEAN
    <2>. SUFFICES ASSUME Init PROVE up \in BOOLEAN /\ offline \in BOOLEAN
        OBVIOUS
    <2>1. up \in BOOLEAN
        BY Zenon DEF Init
    <2>2. offline = FALSE
        BY Zenon DEF Init
    <2>. QED BY <2>1, <2>2
<1>2. (up \in BOOLEAN /\ offline \in BOOLEAN) /\ [Next]_vars
         => (up \in BOOLEAN /\ offline \in BOOLEAN)'
    <2>. SUFFICES ASSUME up \in BOOLEAN, offline \in BOOLEAN, [Next]_vars
                  PROVE  up' \in BOOLEAN /\ offline' \in BOOLEAN
        OBVIOUS
    <2>1. up' = up \/ up' = TRUE \/ up' = FALSE
        BY DEF Next, vars, Poll, StatusDone, StatusFail, CountsDone, CountsFail,
               Answered, Failed, GoDown, ComeBack
    <2>2. offline' = offline \/ offline' = TRUE \/ offline' = FALSE
        BY DEF Next, vars, Poll, StatusDone, StatusFail, CountsDone, CountsFail,
               Answered, Failed, GoDown, ComeBack
    <2>. QED BY <2>1, <2>2
<1>. QED BY <1>1, <1>2, PTL DEF Spec

\* The console's state keeps its type, for any number of outstanding requests.
THEOREM TypeCorrect == Spec => []TypeOK
<1>1. IInv /\ up \in BOOLEAN /\ offline \in BOOLEAN => TypeOK
    <2>. SUFFICES ASSUME IInv, up \in BOOLEAN, offline \in BOOLEAN PROVE TypeOK
        OBVIOUS
    <2>1. /\ pending \in [Polls -> 0..MaxInFlight]
          /\ lost \in [Polls -> 0..MaxInFlight]
        BY WebConsoleAssumption DEF WebConsoleAssumption, IInv, NumberType, FlightBound
    <2>2. /\ interval \in [status : StatusIntervals, counts : CountIntervals]
          /\ armed \in [status : StatusIntervals, counts : CountIntervals]
          /\ crashes \in 0..MaxCrashes
        BY DEF IInv, NumberType
    <2>3. /\ interval \in [status : Nat, counts : Nat]
          /\ armed \in [status : Nat, counts : Nat]
        BY <2>2 DEF StatusIntervals, CountIntervals
    <2>. QED BY <2>1, <2>2, <2>3 DEF TypeOK
<1>. QED BY <1>1, Invariance, FlagInvariance, PTL

\* No interval and no timer of the console passes its limit by a factor of two,
\* whatever the number of polls that fail at a time (app.js, update_status and
\* update_packet_counts).
THEOREM BackOffCorrect == Spec => []BackOffBounded
<1>1. IInv => BackOffBounded
    BY DEF IInv, NumberType, StatusIntervals, CountIntervals, BackOffBounded
<1>. QED BY <1>1, Invariance, PTL

\* The indicator of a lost connection is shown exactly while the status poll
\* backs off, in every order of answers, failures, crashes and restarts.
THEOREM IndicatorCorrect == Spec => []IndicatorTellsBackOff
<1>1. IInv => IndicatorTellsBackOff
    BY DEF IInv
<1>. QED BY <1>1, Invariance, PTL
=============================================================================
