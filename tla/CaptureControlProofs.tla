------------------------ MODULE CaptureControlProofs ------------------------
(***************************************************************************)
(* Proofs about CaptureControl for every period of the size test, every    *)
(* queue and every failure of the device, with requests that come at any   *)
(* time.                                                                   *)
(***************************************************************************)
EXTENDS CaptureControl, TLAPS

-----------------------------------------------------------------------------
(* The inductive invariant. *)

Off == ~capturing /\ ~dev /\ ~opened /\ ~running

\* The flag, the pointer and the device agree.
Agree == dev = capturing /\ opened = capturing /\ (running => opened)

\* How far a call of start_capture or stop_capture has changed the device; a
\* start may have found a capture.
StepInv(t) ==
  /\ pc[t] \in {"start", "stop"} => Agree
  /\ pc[t] = "clear" => capturing /\ dev = opened
  /\ pc[t] = "find" => capturing /\ ~dev
  /\ pc[t] = "open" => capturing /\ dev
  /\ pc[t] = "run" => capturing /\ dev /\ opened
  /\ pc[t] = "test" => ~capturing /\ dev = opened
  /\ pc[t] \in {"halt", "joining"} => ~capturing /\ dev /\ opened
  /\ pc[t] = "close" => ~capturing /\ dev /\ opened /\ ~running
  /\ pc[t] = "drop" => ~capturing /\ dev /\ ~opened /\ ~running
  /\ pc[t] \in {"destroying", "leave"} => Off

\* One controller at a time; when neither acts, all agree.
TurnInv ==
  /\ pc["web"] \notin {"idle", "gone"} => MainIsQuiet
  /\ MainIsQuiet /\ pc["web"] \in {"idle", "asked", "gone"} => Agree
  /\ pc["main"] = "begin" => Off
  /\ pc["main"] \in StartSteps => ~running /\ ~importing
  /\ pc["main"] = "raise" => Agree
  /\ pc["main"] \in {"join_web", "join_worker", "gone"} /\ running
       => hasty /\ importing

\* During an import nothing is captured and no request starts a capture, but
\* for a hasty start.
ImportInv ==
  /\ pc["main"] = "import" => importing
  /\ importing /\ ~hasty =>
       /\ Off /\ pc["web"] \notin StartSteps
       /\ request = "destroy" /\ pc["web"] \in StopSteps \cup {"destroying"}
            => ~again
  /\ pc["web"] = "destroying" => request = "destroy"

DeviceInv ==
  /\ StepInv("main") /\ StepInv("web")
  /\ TurnInv
  /\ ImportInv
  /\ running => opened

\* All that holds until a request overlaps or std::exit fails.
Ordered == ~overlapped /\ ended # "failed"

Guarded == Ordered => DeviceInv

\* The processing thread stops a capture only for a full database, and it
\* has handled no more than a period of payloads since then.
SizeInv ==
  /\ worker = "halt" => full
  /\ ended = "fault" /\ ~overlapped => full
  /\ ~full => over = 0
  /\ over <= Period
  /\ Ordered /\ running =>
       /\ ~dev => over = 0
       /\ over <= IF worker \in {"check", "halt", "joining"} /\ consumed = 0
                  THEN Period ELSE consumed

\* The types, without the bound of over.
ControlType ==
  /\ pc \in [Controllers -> MainSteps \cup WebSteps]
  /\ pc["main"] \in MainSteps /\ pc["web"] \in WebSteps
  /\ request \in Requests \cup {"none"}
  /\ worker \in WorkerSteps
  /\ queued \in 0..MaxQueued
  /\ consumed \in 0..Period - 1
  /\ over \in Nat
  /\ ended \in {"no", "exit", "fault", "failed"}

FlagType ==
  /\ again \in BOOLEAN
  /\ hasty \in BOOLEAN /\ overlapped \in BOOLEAN
  /\ dev \in BOOLEAN /\ opened \in BOOLEAN /\ running \in BOOLEAN
  /\ capturing \in BOOLEAN /\ importing \in BOOLEAN
  /\ stopped \in BOOLEAN /\ full \in BOOLEAN

StateType == ControlType /\ FlagType

Inv == StateType /\ Guarded /\ SizeInv

\* Main begins with an import, a capture or neither; nothing else has begun.
LEMMA InitInv == Init => Inv
  <1>1. SUFFICES ASSUME Init PROVE Inv
    OBVIOUS
  <1>2. StateType
    <2>1. PICK first \in {"begin", "start", "serve"} :
            pc = [t \in Controllers |-> IF t = "main" THEN first ELSE "idle"]
      BY <1>1 DEF Init
    <2>2. /\ pc["main"] \in MainSteps /\ pc["web"] = "idle"
          /\ pc \in [Controllers -> MainSteps \cup WebSteps]
      BY <2>1 DEF Controllers, MainSteps, WebSteps, StartSteps
    <2>3. importing \in BOOLEAN
      BY <1>1 DEF Init
    <2>4. "idle" \in WebSteps /\ "loop" \in WorkerSteps
      BY DEF WebSteps, WorkerSteps
    <2>5. queued \in 0..MaxQueued /\ consumed \in 0..Period - 1 /\ over \in Nat
      BY <1>1, CaptureControlAssumption DEF Init
    <2> QED
      BY <1>1, <2>2, <2>3, <2>4, <2>5 DEF Init, StateType, ControlType, FlagType
  <1>3. Guarded
    BY <1>1 DEF Init, Guarded, DeviceInv, StepInv, TurnInv, ImportInv,
                MainIsQuiet, Agree, Off, Controllers, StartSteps, StopSteps
  <1>4. SizeInv
    BY <1>1, CaptureControlAssumption DEF Init, SizeInv
  <1> QED
    BY <1>2, <1>3, <1>4 DEF Inv

-----------------------------------------------------------------------------
(* Steps. *)

\* Every step leaves the flags and the device's state Boolean.
LEMMA FlagStep ==
  ASSUME FlagType, [Next]_vars
  PROVE  FlagType'
  <1> USE DEF At, Goto, threads, device, flags, load, notes, histories, FlagType
  <1>1. ASSUME NEW t \in Controllers, StartFlag(t) PROVE FlagType'
    BY <1>1 DEF StartFlag
  <1>2. ASSUME NEW t \in Controllers, StartClear(t) PROVE FlagType'
    BY <1>2 DEF StartClear
  <1>3. ASSUME NEW t \in Controllers, StartFind(t) PROVE FlagType'
    BY <1>3 DEF StartFind, Exit
  <1>4. ASSUME NEW t \in Controllers, StartOpen(t) PROVE FlagType'
    BY <1>4 DEF StartOpen, Exit, Fault
  <1>5. ASSUME NEW t \in Controllers, StartRun(t) PROVE FlagType'
    BY <1>5 DEF StartRun, Fault, AfterStart
  <1>6. ASSUME NEW t \in Controllers, StopFlag(t) PROVE FlagType'
    BY <1>6 DEF StopFlag
  <1>7. ASSUME NEW t \in Controllers, StopTest(t) PROVE FlagType'
    BY <1>7 DEF StopTest, AfterStop
  <1>8. ASSUME NEW t \in Controllers, StopHalt(t) PROVE FlagType'
    BY <1>8 DEF StopHalt, Fault
  <1>9. ASSUME NEW t \in Controllers, StopJoined(t) PROVE FlagType'
    BY <1>9 DEF StopJoined
  <1>10. ASSUME NEW t \in Controllers, StopClose(t) PROVE FlagType'
    BY <1>10 DEF StopClose, Fault
  <1>11. ASSUME NEW t \in Controllers, StopDrop(t) PROVE FlagType'
    BY <1>11 DEF StopDrop, AfterStop
  <1>12. ASSUME NEW r \in Requests, Accept(r) PROVE FlagType'
    BY <1>12 DEF Accept
  <1>13. CASE ServeStart
    BY <1>13 DEF ServeStart
  <1>14. CASE ServeStop
    BY <1>14 DEF ServeStop
  <1>15. CASE ServeToggle
    BY <1>15 DEF ServeToggle
  <1>16. CASE ServeDestroy
    BY <1>16 DEF ServeDestroy
  <1>17. CASE DestroyData
    BY <1>17 DEF DestroyData
  <1>18. CASE Arrive
    BY <1>18 DEF Arrive
  <1>19. CASE CaptureEnds
    BY <1>19 DEF CaptureEnds
  <1>20. CASE Consume
    BY <1>20 DEF Consume
  <1>21. CASE Check
    BY <1>21 DEF Check
  <1>22. CASE AutoHalt
    BY <1>22 DEF AutoHalt, Fault
  <1>23. CASE AutoJoined
    BY <1>23 DEF AutoJoined
  <1>24. CASE WorkerLeaves
    BY <1>24 DEF WorkerLeaves
  <1>25. CASE Signal
    BY <1>25 DEF Signal
  <1>26. CASE ImportEnds
    BY <1>26 DEF ImportEnds
  <1>27. CASE RaiseStop
    BY <1>27 DEF RaiseStop
  <1>28. CASE Leave
    BY <1>28 DEF Leave
  <1>29. CASE JoinWeb
    BY <1>29 DEF JoinWeb
  <1>30. CASE JoinWorker
    BY <1>30 DEF JoinWorker
  <1>32. CASE Decode
    BY <1>32 DEF Decode
  <1>33. CASE DecodeForever
    BY <1>33 DEF DecodeForever
  <1>34. CASE ImportBegins
    BY <1>34 DEF ImportBegins
  <1>35. CASE ImportFails
    BY <1>35 DEF ImportFails
  <1>31. CASE UNCHANGED vars
    BY <1>31 DEF vars
  <1> QED
    BY <1>1, <1>2, <1>3, <1>4, <1>5, <1>6, <1>7, <1>8, <1>9, <1>10, <1>11, <1>12, <1>13, <1>14, <1>15, <1>16, <1>17, <1>18, <1>19, <1>20, <1>21, <1>22, <1>23, <1>24, <1>25, <1>26, <1>27, <1>28, <1>29, <1>30, <1>31,
       <1>32, <1>33, <1>34, <1>35
       DEF Next, StartStop, Web, Worker, Main

\* Every step leaves each thread at one of its steps.
LEMMA ControlStep ==
  ASSUME ControlType, [Next]_vars
  PROVE  ControlType'
  <1> USE DEF At, Goto, threads, device, flags, load, notes, histories, ControlType,
      Controllers, Requests, MainSteps, WebSteps, WorkerSteps, StartSteps,
      StopSteps
  <1>1. ASSUME NEW t \in Controllers, StartFlag(t) PROVE ControlType'
    BY <1>1, CaptureControlAssumption DEF StartFlag
  <1>2. ASSUME NEW t \in Controllers, StartClear(t) PROVE ControlType'
    BY <1>2, CaptureControlAssumption DEF StartClear
  <1>3. ASSUME NEW t \in Controllers, StartFind(t) PROVE ControlType'
    BY <1>3, CaptureControlAssumption DEF StartFind, Exit
  <1>4. ASSUME NEW t \in Controllers, StartOpen(t) PROVE ControlType'
    <2>1. CASE ~dev
      BY <1>4, <2>1 DEF StartOpen, Fault
    <2>2. CASE /\ At(t, "open") /\ dev /\ opened' = TRUE /\ Goto(t, "run")
               /\ UNCHANGED <<notes, worker, dev, running, flags, load, ended>>
      BY <1>4, <2>2
    <2>3. CASE /\ At(t, "open") /\ dev /\ Exit(t)
               /\ opened' \in {opened, FALSE}
      BY <1>4, <2>3 DEF Exit
    <2> QED
      BY <1>4, <2>1, <2>2, <2>3 DEF StartOpen
  <1>5. ASSUME NEW t \in Controllers, StartRun(t) PROVE ControlType'
    BY <1>5, CaptureControlAssumption DEF StartRun, Fault, AfterStart
  <1>6. ASSUME NEW t \in Controllers, StopFlag(t) PROVE ControlType'
    BY <1>6, CaptureControlAssumption DEF StopFlag
  <1>7. ASSUME NEW t \in Controllers, StopTest(t) PROVE ControlType'
    BY <1>7, CaptureControlAssumption DEF StopTest, AfterStop
  <1>8. ASSUME NEW t \in Controllers, StopHalt(t) PROVE ControlType'
    BY <1>8, CaptureControlAssumption DEF StopHalt, Fault
  <1>9. ASSUME NEW t \in Controllers, StopJoined(t) PROVE ControlType'
    BY <1>9, CaptureControlAssumption DEF StopJoined
  <1>10. ASSUME NEW t \in Controllers, StopClose(t) PROVE ControlType'
    BY <1>10, CaptureControlAssumption DEF StopClose, Fault
  <1>11. ASSUME NEW t \in Controllers, StopDrop(t) PROVE ControlType'
    BY <1>11, CaptureControlAssumption DEF StopDrop, AfterStop
  <1>12. ASSUME NEW r \in Requests, Accept(r) PROVE ControlType'
    BY <1>12, CaptureControlAssumption DEF Accept
  <1>13. CASE ServeStart
    BY <1>13, CaptureControlAssumption DEF ServeStart
  <1>14. CASE ServeStop
    BY <1>14, CaptureControlAssumption DEF ServeStop
  <1>15. CASE ServeToggle
    BY <1>15, CaptureControlAssumption DEF ServeToggle
  <1>16. CASE ServeDestroy
    BY <1>16, CaptureControlAssumption DEF ServeDestroy
  <1>17. CASE DestroyData
    BY <1>17, CaptureControlAssumption DEF DestroyData
  <1>18. CASE Arrive
    BY <1>18, CaptureControlAssumption DEF Arrive
  <1>19. CASE CaptureEnds
    BY <1>19, CaptureControlAssumption DEF CaptureEnds
  <1>20. CASE Consume
    BY <1>20, CaptureControlAssumption DEF Consume
  <1>21. CASE Check
    <2>1. worker' \in {"halt", "decode"}
      BY <1>21 DEF Check
    <2>2. UNCHANGED <<pc, request, load, ended>>
      BY <1>21 DEF Check
    <2> QED
      BY <2>1, <2>2 DEF ControlType, WorkerSteps, load
  <1>22. CASE AutoHalt
    BY <1>22, CaptureControlAssumption DEF AutoHalt, Fault
  <1>23. CASE AutoJoined
    BY <1>23, CaptureControlAssumption DEF AutoJoined
  <1>24. CASE WorkerLeaves
    BY <1>24, CaptureControlAssumption DEF WorkerLeaves
  <1>25. CASE Signal
    BY <1>25, CaptureControlAssumption DEF Signal
  <1>26. CASE ImportEnds
    BY <1>26, CaptureControlAssumption DEF ImportEnds
  <1>27. CASE RaiseStop
    BY <1>27, CaptureControlAssumption DEF RaiseStop
  <1>28. CASE Leave
    BY <1>28, CaptureControlAssumption DEF Leave
  <1>29. CASE JoinWeb
    BY <1>29, CaptureControlAssumption DEF JoinWeb
  <1>30. CASE JoinWorker
    BY <1>30, CaptureControlAssumption DEF JoinWorker
  <1>32. CASE Decode
    BY <1>32, CaptureControlAssumption DEF Decode
  <1>33. CASE DecodeForever
    BY <1>33, CaptureControlAssumption DEF DecodeForever
  <1>34. CASE ImportBegins
    BY <1>34, CaptureControlAssumption DEF ImportBegins
  <1>35. CASE ImportFails
    BY <1>35, CaptureControlAssumption DEF ImportFails
  <1>31. CASE UNCHANGED vars
    BY <1>31 DEF vars
  <1> QED
    BY <1>1, <1>2, <1>3, <1>4, <1>5, <1>6, <1>7, <1>8, <1>9, <1>10, <1>11, <1>12, <1>13, <1>14, <1>15, <1>16, <1>17, <1>18, <1>19, <1>20, <1>21, <1>22, <1>23, <1>24, <1>25, <1>26, <1>27, <1>28, <1>29, <1>30, <1>31,
       <1>32, <1>33, <1>34, <1>35
       DEF Next, StartStop, Web, Worker, Main

\* As long as one controller at a time acts on the device, every step keeps
\* what the positions of the threads say about it.
LEMMA DeviceStep ==
  ASSUME StateType, Guarded, [Next]_vars
  PROVE  Guarded'
  <1> USE DEF At, Goto, threads, device, flags, load, notes, histories, StateType, Guarded, Ordered,
      FlagType, ControlType, DeviceInv, StepInv, TurnInv, ImportInv,
      MainIsQuiet, Agree, Off, Controllers, StartSteps, StopSteps
  <1>1. ASSUME NEW t \in Controllers, StartFlag(t) PROVE Guarded'
    <2>1. /\ pc' = [pc EXCEPT ![t] = "clear"] /\ capturing' = TRUE
          /\ UNCHANGED <<request, again, hasty, overlapped, dev, opened, running,
                         importing, ended>>
          /\ pc[t] = "start" /\ ended = "no"
      BY <1>1 DEF StartFlag
    <2>2. SUFFICES ASSUME Ordered PROVE DeviceInv'
      BY <2>1
    <2>3. DeviceInv
      BY <2>2
    <2>4. CASE t = "main"
      <3>1. /\ pc'["main"] = "clear" /\ pc'["web"] = pc["web"]
            /\ pc["main"] = "start"
        BY <2>1, <2>4
      <3>2. pc["web"] \in {"idle", "gone"} /\ Agree /\ ~running /\ ~importing
        BY <2>3, <3>1
      <3> QED
        BY <2>1, <2>3, <3>1, <3>2
    <2>5. CASE t = "web"
      <3>1. /\ pc'["web"] = "clear" /\ pc'["main"] = pc["main"]
            /\ pc["web"] = "start"
        BY <2>1, <2>5
      <3>2. MainIsQuiet /\ Agree
        BY <2>3, <3>1
      <3> QED
        BY <2>1, <2>3, <3>1, <3>2
    <2> QED
      BY <2>4, <2>5
  <1>2. ASSUME NEW t \in Controllers, StartClear(t) PROVE Guarded'
    BY <1>2 DEF StartClear
  <1>3. ASSUME NEW t \in Controllers, StartFind(t) PROVE Guarded'
    BY <1>3 DEF StartFind, Exit
  <1>4. ASSUME NEW t \in Controllers, StartOpen(t) PROVE Guarded'
    <2>1. CASE ~dev
      BY <1>4, <2>1 DEF StartOpen, Fault
    <2>2. CASE /\ At(t, "open") /\ dev /\ opened' = TRUE /\ Goto(t, "run")
               /\ UNCHANGED <<notes, worker, dev, running, flags, load, ended>>
      BY <1>4, <2>2
    <2>3. CASE /\ At(t, "open") /\ dev /\ Exit(t)
               /\ opened' \in {opened, FALSE}
      BY <1>4, <2>3 DEF Exit
    <2> QED
      BY <1>4, <2>1, <2>2, <2>3 DEF StartOpen
  <1>5. ASSUME NEW t \in Controllers, StartRun(t) PROVE Guarded'
    BY <1>5 DEF StartRun, Fault, AfterStart
  <1>6. ASSUME NEW t \in Controllers, StopFlag(t) PROVE Guarded'
    BY <1>6 DEF StopFlag
  <1>7. ASSUME NEW t \in Controllers, StopTest(t) PROVE Guarded'
    BY <1>7 DEF StopTest, AfterStop
  <1>8. ASSUME NEW t \in Controllers, StopHalt(t) PROVE Guarded'
    BY <1>8 DEF StopHalt, Fault
  <1>9. ASSUME NEW t \in Controllers, StopJoined(t) PROVE Guarded'
    BY <1>9 DEF StopJoined
  <1>10. ASSUME NEW t \in Controllers, StopClose(t) PROVE Guarded'
    BY <1>10 DEF StopClose, Fault
  <1>11. ASSUME NEW t \in Controllers, StopDrop(t) PROVE Guarded'
    BY <1>11 DEF StopDrop, AfterStop
  <1>12. ASSUME NEW r \in Requests, Accept(r) PROVE Guarded'
    BY <1>12 DEF Accept
  <1>13. CASE ServeStart
    BY <1>13 DEF ServeStart
  <1>14. CASE ServeStop
    BY <1>14 DEF ServeStop
  <1>15. CASE ServeToggle
    BY <1>15 DEF ServeToggle
  <1>16. CASE ServeDestroy
    BY <1>16 DEF ServeDestroy
  <1>17. CASE DestroyData
    <2>1. pc' = [pc EXCEPT !["web"] = IF again THEN "start" ELSE "idle"]
      BY <1>17 DEF DestroyData, Goto
    <2>2. again = TRUE \/ again = FALSE
      BY DEF StateType, FlagType
    <2>3. CASE again = TRUE
      BY <1>17, <2>1, <2>3 DEF DestroyData
    <2>4. CASE again = FALSE
      BY <1>17, <2>1, <2>4 DEF DestroyData
    <2> QED
      BY <2>2, <2>3, <2>4
  <1>18. CASE Arrive
    BY <1>18 DEF Arrive
  <1>19. CASE CaptureEnds
    BY <1>19 DEF CaptureEnds
  <1>20. CASE Consume
    BY <1>20 DEF Consume
  <1>21. CASE Check
    BY <1>21 DEF Check
  <1>22. CASE AutoHalt
    BY <1>22 DEF AutoHalt, Fault
  <1>23. CASE AutoJoined
    BY <1>23 DEF AutoJoined
  <1>24. CASE WorkerLeaves
    BY <1>24 DEF WorkerLeaves
  <1>25. CASE Signal
    BY <1>25 DEF Signal
  <1>26. CASE ImportEnds
    BY <1>26 DEF ImportEnds
  <1>27. CASE RaiseStop
    BY <1>27 DEF RaiseStop
  <1>28. CASE Leave
    BY <1>28 DEF Leave
  <1>29. CASE JoinWeb
    BY <1>29 DEF JoinWeb
  <1>30. CASE JoinWorker
    BY <1>30 DEF JoinWorker
  <1>32. CASE Decode
    BY <1>32 DEF Decode
  <1>33. CASE DecodeForever
    BY <1>33 DEF DecodeForever
  <1>34. CASE ImportBegins
    BY <1>34 DEF ImportBegins
  <1>35. CASE ImportFails
    BY <1>35 DEF ImportFails
  <1>31. CASE UNCHANGED vars
    BY <1>31 DEF vars
  <1> QED
    BY <1>1, <1>2, <1>3, <1>4, <1>5, <1>6, <1>7, <1>8, <1>9, <1>10, <1>11, <1>12, <1>13, <1>14, <1>15, <1>16, <1>17, <1>18, <1>19, <1>20, <1>21, <1>22, <1>23, <1>24, <1>25, <1>26, <1>27, <1>28, <1>29, <1>30, <1>31,
       <1>32, <1>33, <1>34, <1>35
       DEF Next, StartStop, Web, Worker, Main

\* Every step keeps the bound of what is put after the limit was seen.
LEMMA SizeStep ==
  ASSUME StateType, Guarded, SizeInv, [Next]_vars
  PROVE  SizeInv'
  <1> USE DEF At, Goto, threads, device, flags, load, notes, histories, StateType, FlagType,
      ControlType, Guarded, Ordered, DeviceInv, StepInv, TurnInv, SizeInv, Agree,
      Off, Controllers
  <1>1. ASSUME NEW t \in Controllers, StartFlag(t) PROVE SizeInv'
    BY <1>1, CaptureControlAssumption DEF StartFlag
  <1>2. ASSUME NEW t \in Controllers, StartClear(t) PROVE SizeInv'
    BY <1>2, CaptureControlAssumption DEF StartClear
  <1>3. ASSUME NEW t \in Controllers, StartFind(t) PROVE SizeInv'
    BY <1>3, CaptureControlAssumption DEF StartFind, Exit
  <1>4. ASSUME NEW t \in Controllers, StartOpen(t) PROVE SizeInv'
    BY <1>4, CaptureControlAssumption DEF StartOpen, Exit, Fault
  <1>5. ASSUME NEW t \in Controllers, StartRun(t) PROVE SizeInv'
    BY <1>5, CaptureControlAssumption DEF StartRun, Fault, AfterStart
  <1>6. ASSUME NEW t \in Controllers, StopFlag(t) PROVE SizeInv'
    BY <1>6, CaptureControlAssumption DEF StopFlag
  <1>7. ASSUME NEW t \in Controllers, StopTest(t) PROVE SizeInv'
    BY <1>7, CaptureControlAssumption DEF StopTest, AfterStop
  <1>8. ASSUME NEW t \in Controllers, StopHalt(t) PROVE SizeInv'
    BY <1>8, CaptureControlAssumption DEF StopHalt, Fault
  <1>9. ASSUME NEW t \in Controllers, StopJoined(t) PROVE SizeInv'
    BY <1>9, CaptureControlAssumption DEF StopJoined
  <1>10. ASSUME NEW t \in Controllers, StopClose(t) PROVE SizeInv'
    BY <1>10, CaptureControlAssumption DEF StopClose, Fault
  <1>11. ASSUME NEW t \in Controllers, StopDrop(t) PROVE SizeInv'
    BY <1>11, CaptureControlAssumption DEF StopDrop, AfterStop
  <1>12. ASSUME NEW r \in Requests, Accept(r) PROVE SizeInv'
    BY <1>12, CaptureControlAssumption DEF Accept
  <1>13. CASE ServeStart
    BY <1>13, CaptureControlAssumption DEF ServeStart
  <1>14. CASE ServeStop
    BY <1>14, CaptureControlAssumption DEF ServeStop
  <1>15. CASE ServeToggle
    BY <1>15, CaptureControlAssumption DEF ServeToggle
  <1>16. CASE ServeDestroy
    BY <1>16, CaptureControlAssumption DEF ServeDestroy
  <1>17. CASE DestroyData
    BY <1>17, CaptureControlAssumption DEF DestroyData
  <1>18. CASE Arrive
    BY <1>18, CaptureControlAssumption DEF Arrive
  <1>19. CASE CaptureEnds
    BY <1>19, CaptureControlAssumption DEF CaptureEnds
  <1>20. CASE Consume
    BY <1>20, CaptureControlAssumption DEF Consume
  <1>21. CASE Check
    <2>1. CASE consumed = 0 /\ dev /\ full
      BY <1>21, <2>1, CaptureControlAssumption DEF Check
    <2>2. CASE ~(consumed = 0 /\ dev /\ full)
      <3>1. worker' = "decode" /\ full' = full /\ worker = "check" /\ ended = "no"
        BY <1>21, <2>2 DEF Check, flags
      <3>2. UNCHANGED <<running, consumed, over, ended>>
        BY <1>21 DEF Check, device, load
      <3>3. over \in Nat /\ consumed \in Nat /\ full \in BOOLEAN
        BY DEF StateType, FlagType, ControlType
      <3>4. Ordered /\ running => over <= consumed
        <4>1. CASE consumed = 0 /\ dev
          BY <2>2, <3>1, <3>3, <4>1 DEF SizeInv
        <4>2. CASE consumed = 0 /\ ~dev
          BY <3>3, <4>2 DEF SizeInv
        <4>3. CASE consumed # 0
          BY <3>3, <4>3 DEF SizeInv
        <4> QED
          BY <4>1, <4>2, <4>3 DEF StateType, FlagType
      <3>5. UNCHANGED <<dev, overlapped>>
        BY <1>21 DEF Check, device, notes, histories
      <3> QED
        BY <3>1, <3>2, <3>4, <3>5 DEF SizeInv, Ordered
    <2> QED
      BY <2>1, <2>2
  <1>22. CASE AutoHalt
    BY <1>22, CaptureControlAssumption DEF AutoHalt, Fault
  <1>23. CASE AutoJoined
    BY <1>23, CaptureControlAssumption DEF AutoJoined
  <1>24. CASE WorkerLeaves
    BY <1>24, CaptureControlAssumption DEF WorkerLeaves
  <1>25. CASE Signal
    BY <1>25, CaptureControlAssumption DEF Signal
  <1>26. CASE ImportEnds
    BY <1>26, CaptureControlAssumption DEF ImportEnds
  <1>27. CASE RaiseStop
    BY <1>27, CaptureControlAssumption DEF RaiseStop
  <1>28. CASE Leave
    BY <1>28, CaptureControlAssumption DEF Leave
  <1>29. CASE JoinWeb
    BY <1>29, CaptureControlAssumption DEF JoinWeb
  <1>30. CASE JoinWorker
    BY <1>30, CaptureControlAssumption DEF JoinWorker
  <1>32. CASE Decode
    BY <1>32, CaptureControlAssumption DEF Decode
  <1>33. CASE DecodeForever
    BY <1>33, CaptureControlAssumption DEF DecodeForever
  <1>34. CASE ImportBegins
    BY <1>34, CaptureControlAssumption DEF ImportBegins
  <1>35. CASE ImportFails
    BY <1>35, CaptureControlAssumption DEF ImportFails
  <1>31. CASE UNCHANGED vars
    BY <1>31 DEF vars
  <1> QED
    BY <1>1, <1>2, <1>3, <1>4, <1>5, <1>6, <1>7, <1>8, <1>9, <1>10, <1>11, <1>12, <1>13, <1>14, <1>15, <1>16, <1>17, <1>18, <1>19, <1>20, <1>21, <1>22, <1>23, <1>24, <1>25, <1>26, <1>27, <1>28, <1>29, <1>30, <1>31,
       <1>32, <1>33, <1>34, <1>35
       DEF Next, StartStop, Web, Worker, Main

-----------------------------------------------------------------------------
(* Theorems. *)

\* The three parts make one inductive invariant.
LEMMA Invariance == Spec => []Inv
  <1>1. Inv /\ [Next]_vars => Inv'
    BY FlagStep, ControlStep, DeviceStep, SizeStep DEF Inv, StateType
  <1> QED
    BY <1>1, InitInv, PTL DEF Spec

\* For every period, queue and failing device: every variable keeps its type,
\* and the history of a full database its bound.
THEOREM TypeCorrect == Spec => []TypeOK
  <1>1. Inv => TypeOK
    BY CaptureControlAssumption
       DEF Inv, TypeOK, StateType, ControlType, FlagType, SizeInv
  <1> QED
    BY <1>1, Invariance, PTL

\* Between calls a capture that the console shows as stopped is stopped: the
\* flag, the pointer, the device and its thread agree, if no request has
\* overlapped main's start-up or shutdown.
THEOREM StoppedCorrect == Spec => []StoppedIsStopped
  <1>1. Inv => StoppedIsStopped
    BY DEF Inv, Guarded, Ordered, DeviceInv, TurnInv, Agree, StoppedIsStopped,
           Quiet, StateType, FlagType
  <1> QED
    BY <1>1, Invariance, PTL

\* A capture feeds the reassembler beside an import only after a start that
\* was served during the import or a request that overlapped the start-up:
\* toggle and destroy never bring it about.
THEOREM ReassemblerCorrect == Spec => []OneReassembler
  <1>1. Inv => OneReassembler
    BY DEF Inv, Guarded, Ordered, DeviceInv, ImportInv, Off, OneReassembler
  <1> QED
    BY <1>1, Invariance, PTL

\* No device is closed and no handler destroyed under a running capture,
\* unless a request has overlapped main's start-up or shutdown or a hasty start
\* met the std::exit of an import.
THEOREM OutlivedCorrect == Spec => []CaptureOutlived
  <1>1. Inv => CaptureOutlived
    BY DEF Inv, Guarded, Ordered, DeviceInv, TurnInv, CaptureOutlived
  <1> QED
    BY <1>1, Invariance, PTL

\* While no request overlaps, start_capture and stop_capture never use a null
\* device themselves.
THEOREM FaultCorrect == Spec => []FaultOnlyWhenFull
  <1>1. Inv => FaultOnlyWhenFull
    BY DEF Inv, SizeInv, FaultOnlyWhenFull
  <1> QED
    BY <1>1, Invariance, PTL

\* While no request overlaps, the automatic stop comes within one period of
\* the database being full, or of the last start.
THEOREM OverrunCorrect == Spec => []OverrunBounded
  <1>1. Inv => OverrunBounded
    BY DEF Inv, SizeInv, OverrunBounded
  <1> QED
    BY <1>1, Invariance, PTL

\* While no request overlaps, a destroy deletes with the device closed and its
\* thread ended, however the capture it found was started or stopped.
THEOREM DestroyCorrect == Spec => []DestroyFindsNoCapture
  <1>1. Inv => DestroyFindsNoCapture
    BY DEF Inv, Guarded, Ordered, DeviceInv, StepInv, Off, DestroyFindsNoCapture
  <1> QED
    BY <1>1, Invariance, PTL

=============================================================================
