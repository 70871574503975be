--------------------------- MODULE CaptureControl ---------------------------
(***************************************************************************)
(* Who starts and stops a capture.  The main thread imports a file or      *)
(* starts the capture and later handles the signal and destroys the        *)
(* application; the web thread serves requests one after the other; the    *)
(* processing thread stops a capture when the database is full.  They      *)
(* share the plain pointer `dev`, the device behind it and the flags       *)
(* `capturing`, `importing` and `max_reached`, without a lock.  Requests    *)
(* come at any time, also while main starts up or shuts down; what they do *)
(* there is part of the model, and two histories record it.                *)
(*                                                                         *)
(* The capture thread belongs to the device (PcapPlusPlus): it runs        *)
(* between startCapture and stopCapture, which waits for it to end.        *)
(***************************************************************************)
EXTENDS Naturals

CONSTANTS
  MayFail,    \* may the device be missing, not open or reject the filter?
  Period,     \* payloads between two tests for a full database, 10000
  MaxQueued   \* bound of the queue between the threads

ASSUME CaptureControlAssumption ==
  /\ MayFail \in BOOLEAN
  /\ Period \in Nat \ {0}
  /\ MaxQueued \in Nat \ {0}

Controllers == {"main", "web"}
Requests == {"start", "stop", "toggle", "destroy"}

StartSteps == {"start", "clear", "find", "open", "run"}
StopSteps == {"stop", "test", "halt", "joining", "close", "drop"}
MainSteps == {"begin", "import", "serve", "raise", "leave", "join_web",
              "join_worker", "gone"} \cup StartSteps \cup StopSteps
WebSteps == {"idle", "asked", "destroying", "gone"} \cup StartSteps \cup StopSteps
WorkerSteps == {"loop", "check", "halt", "joining", "decode", "endless", "gone"}

VARIABLES
  pc,         \* the next step of each controller
  request,    \* the request that waits, or the destroy that is being served
  again,      \* is_capturing of the destroy request
  hasty,      \* history: was /capture/start served during an import?
  overlapped, \* history: was a request under way while main started or stopped?
  worker,     \* the next step of the processing thread
  dev,        \* is the pointer set?
  opened,     \* is the device open?
  running,    \* does the capture thread run?
  capturing, importing, stopped, full,
  queued,     \* payloads between the threads
  consumed,   \* payloads handled, modulo Period
  over,       \* history: handled since the database was full or a start last
              \* cleared dev, counted as long as no request has overlapped
  ended       \* how the process ended

histories == <<hasty, overlapped>>
notes == <<request, again, histories>>
threads == <<pc, notes, worker>>
device == <<dev, opened, running>>
flags == <<capturing, importing, stopped, full>>
load == <<queued, consumed, over>>
vars == <<threads, device, flags, load, ended>>

TypeOK ==
  /\ pc \in [Controllers -> MainSteps \cup WebSteps]
  /\ pc["main"] \in MainSteps /\ pc["web"] \in WebSteps
  /\ request \in Requests \cup {"none"}
  /\ again \in BOOLEAN
  /\ hasty \in BOOLEAN /\ overlapped \in BOOLEAN
  /\ worker \in WorkerSteps
  /\ dev \in BOOLEAN /\ opened \in BOOLEAN /\ running \in BOOLEAN
  /\ capturing \in BOOLEAN /\ importing \in BOOLEAN
  /\ stopped \in BOOLEAN /\ full \in BOOLEAN
  /\ queued \in 0..MaxQueued
  /\ consumed \in 0..Period - 1
  /\ over \in 0..2 * Period
  /\ ended \in {"no", "exit", "fault", "failed"}

\* main has launched the web server and goes on as the options say.
Init ==
  /\ \E first \in {"begin", "start", "serve"} :
       pc = [t \in Controllers |-> IF t = "main" THEN first ELSE "idle"]
  /\ request = "none" /\ again = FALSE
  /\ hasty = FALSE /\ overlapped = FALSE
  /\ worker = "loop"
  /\ dev = FALSE /\ opened = FALSE /\ running = FALSE
  /\ capturing = FALSE /\ importing = FALSE
  /\ stopped = FALSE /\ full = FALSE
  /\ queued = 0 /\ consumed = 0 /\ over = 0
  /\ ended = "no"

Goto(t, step) == pc' = [pc EXCEPT ![t] = step]
At(t, step) == ended = "no" /\ pc[t] = step

----------------------------------------------------------------------------
(* start_capture and stop_capture, one shared access per step.             *)

AfterStart(t) == IF t = "main" THEN "serve" ELSE "idle"

AfterStop(t) ==
  IF t = "main" THEN "leave"
  ELSE IF request = "destroy" THEN "destroying" ELSE "idle"

\* A null pointer is used.
Fault == ended' = "fault" /\ UNCHANGED <<threads, device, flags, load>>

\* std::exit: on the main thread it destroys the application, on the web
\* thread the destructor of the web server joins its own thread and throws.
Exit(t) ==
  /\ IF t = "main" THEN Goto(t, "join_web") /\ UNCHANGED ended
                   ELSE ended' = "failed" /\ UNCHANGED pc
  /\ UNCHANGED <<notes, worker, dev, running, flags, load>>

StartFlag(t) ==
  /\ At(t, "start")
  /\ capturing' = TRUE
  /\ Goto(t, "clear")
  /\ UNCHANGED <<notes, worker, device, importing, stopped, full, load, ended>>

StartClear(t) ==
  /\ At(t, "clear")
  /\ dev' = FALSE
  /\ over' = 0
  /\ Goto(t, "find")
  /\ UNCHANGED <<notes, worker, opened, running, flags, queued, consumed, ended>>

StartFind(t) ==
  /\ At(t, "find")
  /\ \/ /\ dev' = TRUE
        /\ Goto(t, "open")
        /\ UNCHANGED <<notes, worker, opened, running, flags, load, ended>>
     \/ MayFail /\ Exit(t) /\ UNCHANGED opened

StartOpen(t) ==
  /\ At(t, "open")
  /\ IF ~dev THEN Fault
     ELSE \/ /\ opened' = TRUE
             /\ Goto(t, "run")
             /\ UNCHANGED <<notes, worker, dev, running, flags, load, ended>>
          \/ MayFail /\ Exit(t) /\ opened' \in {opened, FALSE}

\* startCapture of a device that captures already, or is closed, does nothing.
StartRun(t) ==
  /\ At(t, "run")
  /\ IF ~dev THEN Fault
     ELSE /\ running' = (running \/ opened)
          /\ over' = 0
          /\ Goto(t, AfterStart(t))
          /\ UNCHANGED <<notes, worker, dev, opened, flags,
                         queued, consumed, ended>>

StopFlag(t) ==
  /\ At(t, "stop")
  /\ capturing' = FALSE
  /\ Goto(t, "test")
  /\ UNCHANGED <<notes, worker, device, importing, stopped, full, load, ended>>

\* Mutant: stop_capture does not look at dev.
StopTestNone(t) ==
  /\ At(t, "test")
  /\ Goto(t, "halt")
  /\ UNCHANGED <<notes, worker, device, flags, load, ended>>

\* Mutant: stop_capture looks at the flag it has just cleared.
StopTestFlag(t) ==
  /\ At(t, "test")
  /\ Goto(t, IF capturing THEN "halt" ELSE AfterStop(t))
  /\ UNCHANGED <<notes, worker, device, flags, load, ended>>

StopTest(t) ==
  /\ At(t, "test")
  /\ Goto(t, IF dev THEN "halt" ELSE AfterStop(t))
  /\ UNCHANGED <<notes, worker, device, flags, load, ended>>

StopHalt(t) ==
  /\ At(t, "halt")
  /\ IF ~dev THEN Fault
     ELSE Goto(t, "joining")
          /\ UNCHANGED <<notes, worker, device, flags, load, ended>>

\* Mutant: the device is closed without waiting for its thread.
StopJoinedEarly(t) ==
  /\ At(t, "joining")
  /\ Goto(t, "close")
  /\ UNCHANGED <<notes, worker, device, flags, load, ended>>

StopJoined(t) ==
  /\ At(t, "joining")
  /\ ~running
  /\ Goto(t, "close")
  /\ UNCHANGED <<notes, worker, device, flags, load, ended>>

StopClose(t) ==
  /\ At(t, "close")
  /\ IF ~dev THEN Fault
     ELSE /\ opened' = FALSE
          /\ Goto(t, "drop")
          /\ UNCHANGED <<notes, worker, dev, running, flags, load, ended>>

StopDrop(t) ==
  /\ At(t, "drop")
  /\ dev' = FALSE
  /\ Goto(t, AfterStop(t))
  /\ UNCHANGED <<notes, worker, opened, running, flags, load, ended>>

StartStop(t) ==
  \/ StartFlag(t) \/ StartClear(t) \/ StartFind(t) \/ StartOpen(t) \/ StartRun(t)
  \/ StopFlag(t) \/ StopTest(t) \/ StopHalt(t) \/ StopJoined(t)
  \/ StopClose(t) \/ StopDrop(t)

----------------------------------------------------------------------------
(* The web thread.                                                         *)

\* Whether main is neither starting up nor stopping.
MainIsQuiet == pc["main"] \in {"import", "serve"}

\* A request is taken whatever main does, until ~webserver stops the server.
Accept(r) ==
  /\ At("web", "idle")
  /\ pc["main"] # "join_web"
  /\ request' = r
  /\ overlapped' = (overlapped \/ ~MainIsQuiet)
  /\ Goto("web", "asked")
  /\ UNCHANGED <<again, hasty, worker, device, flags, load, ended>>

\* /capture/start looks at neither flag.
ServeStart ==
  /\ At("web", "asked") /\ request = "start"
  /\ hasty' = (hasty \/ importing)
  /\ request' = "none"
  /\ Goto("web", "start")
  /\ UNCHANGED <<again, overlapped, worker, device, flags, load, ended>>

ServeStop ==
  /\ At("web", "asked") /\ request = "stop"
  /\ request' = "none"
  /\ Goto("web", "stop")
  /\ UNCHANGED <<again, histories, worker, device, flags, load, ended>>

\* Mutant: the toggle does not look at the import.
ServeToggleAlways ==
  /\ At("web", "asked") /\ request = "toggle"
  /\ request' = "none"
  /\ Goto("web", IF capturing THEN "stop" ELSE "start")
  /\ UNCHANGED <<again, histories, worker, device, flags, load, ended>>

ServeToggle ==
  /\ At("web", "asked") /\ request = "toggle"
  /\ request' = "none"
  /\ Goto("web", CASE importing -> "idle"
                   [] ~importing /\ capturing -> "stop"
                   [] OTHER -> "start")
  /\ UNCHANGED <<again, histories, worker, device, flags, load, ended>>

\* Mutant: the capture goes on while the data are deleted.
ServeDestroyRunning ==
  /\ At("web", "asked") /\ request = "destroy"
  /\ again' = FALSE
  /\ Goto("web", "destroying")
  /\ UNCHANGED <<request, histories, worker, device, flags, load, ended>>

ServeDestroy ==
  /\ At("web", "asked") /\ request = "destroy"
  /\ again' = capturing
  /\ Goto("web", IF capturing THEN "stop" ELSE "destroying")
  /\ UNCHANGED <<request, histories, worker, device, flags, load, ended>>

\* destroy_capture_data empties the tables and leaves max_reached alone.
DestroyData ==
  /\ At("web", "destroying")
  /\ Goto("web", IF again THEN "start" ELSE "idle")
  /\ request' = "none" /\ again' = FALSE
  /\ UNCHANGED <<histories, worker, device, flags, load, ended>>

----------------------------------------------------------------------------
(* The capture thread of the device and the processing thread.             *)

\* A payload reaches the queue from the device, or from the file.
Arrive ==
  /\ ended = "no"
  /\ running \/ At("main", "import")
  /\ queued < MaxQueued
  /\ queued' = queued + 1
  /\ UNCHANGED <<threads, device, flags, consumed, over, ended>>

\* The capture thread ends once stopCapture waits for it.
CaptureEnds ==
  /\ ended = "no"
  /\ running
  /\ worker = "joining" \/ \E t \in Controllers : pc[t] = "joining"
  /\ running' = FALSE
  /\ UNCHANGED <<threads, dev, opened, flags, load, ended>>

\* A payload is taken and counted.
Consume ==
  /\ ended = "no" /\ worker = "loop" /\ ~stopped
  /\ queued > 0
  /\ queued' = queued - 1
  /\ consumed' = (consumed + 1) % Period
  /\ over' = IF full /\ running /\ dev /\ ~overlapped THEN over + 1 ELSE over
  /\ worker' = "check"
  /\ UNCHANGED <<pc, notes, device, flags, ended>>

\* Mutant: a capture is never stopped for the size of the database.
CheckNever ==
  /\ ended = "no" /\ worker = "check"
  /\ worker' = "decode"
  /\ UNCHANGED <<pc, notes, device, flags, load, ended>>

\* Every Period payloads the size is looked at.
Check ==
  /\ ended = "no" /\ worker = "check"
  /\ IF consumed = 0 /\ dev /\ full
     THEN worker' = "halt"
     ELSE worker' = "decode"
  /\ UNCHANGED <<pc, notes, device, flags, load, ended>>

AutoHalt ==
  /\ ended = "no" /\ worker = "halt"
  /\ IF ~dev THEN Fault
     ELSE worker' = "joining"
          /\ UNCHANGED <<pc, notes, device, flags, load, ended>>

AutoJoined ==
  /\ ended = "no" /\ worker = "joining"
  /\ ~running
  /\ worker' = "decode"
  /\ UNCHANGED <<pc, notes, device, flags, load, ended>>

\* The rest of handle_tcp, whose puts may find the database too large ...
Decode ==
  /\ ended = "no" /\ worker = "decode"
  /\ full' \in {full, TRUE}
  /\ worker' = "loop"
  /\ UNCHANGED <<pc, notes, device, capturing, importing, stopped, load, ended>>

\* ... or which never returns, from the loop over a bulk_pull_account answer
\* with flags 2 (LoopsEnd of StreamDecoder).
DecodeForever ==
  /\ ended = "no" /\ worker = "decode"
  /\ worker' = "endless"
  /\ UNCHANGED <<pc, notes, device, flags, load, ended>>

WorkerLeaves ==
  /\ ended = "no" /\ worker = "loop" /\ stopped
  /\ worker' = "gone"
  /\ UNCHANGED <<pc, notes, device, flags, load, ended>>

Worker ==
  \/ Consume \/ Check \/ AutoHalt \/ AutoJoined
  \/ Decode \/ DecodeForever \/ WorkerLeaves

----------------------------------------------------------------------------
(* The main thread.                                                        *)

\* analyze_pcap_file; until now the requests have seen no import.
ImportBegins ==
  /\ At("main", "begin")
  /\ importing' = TRUE
  /\ Goto("main", "import")
  /\ UNCHANGED <<notes, worker, device, capturing, stopped, full, load, ended>>

\* The filter of the configuration is rejected: std::exit, with importing set.
ImportFails ==
  /\ MayFail
  /\ At("main", "import")
  /\ Goto("main", "join_web")
  /\ overlapped' = (overlapped \/ pc["web"] # "idle")
  /\ UNCHANGED <<request, again, hasty, worker, device, flags, load, ended>>

\* The file ends, cannot be opened, or the database is full.
ImportEnds ==
  /\ At("main", "import")
  /\ importing' = FALSE
  /\ Goto("main", "serve")
  /\ UNCHANGED <<notes, worker, device, capturing, stopped, full, load, ended>>

\* sig_handler: stop_packet_processing_thread, then stop_capture.
Signal ==
  /\ At("main", "serve")
  /\ Goto("main", "raise")
  /\ overlapped' = (overlapped \/ pc["web"] # "idle")
  /\ UNCHANGED <<request, again, hasty, worker, device, flags, load, ended>>

RaiseStop ==
  /\ At("main", "raise")
  /\ stopped' = TRUE
  /\ Goto("main", "stop")
  /\ UNCHANGED <<notes, worker, device, capturing, importing, full, load, ended>>

\* io_ctx.run returns and with it main; the application is destroyed, and
\* ~webserver stops the server.
Leave ==
  /\ At("main", "leave")
  /\ Goto("main", "join_web")
  /\ UNCHANGED <<notes, worker, device, flags, load, ended>>

\* Mutant: the destructor raises stopped only after the join.
JoinWebNoStop ==
  /\ At("main", "join_web")
  /\ pc["web"] = "idle"
  /\ pc' = [pc EXCEPT !["main"] = "join_worker", !["web"] = "gone"]
  /\ UNCHANGED <<notes, worker, device, flags, load, ended>>

\* ~webserver waits for the request that is being served; ~packet_handler
\* raises stopped.
JoinWeb ==
  /\ At("main", "join_web")
  /\ pc["web"] = "idle"
  /\ pc' = [pc EXCEPT !["main"] = "join_worker", !["web"] = "gone"]
  /\ stopped' = TRUE
  /\ UNCHANGED <<notes, worker, device, capturing, importing, full, load, ended>>

\* ~packet_handler has raised stopped and waits for the processing thread;
\* ~db commits.
JoinWorker ==
  /\ At("main", "join_worker")
  /\ worker = "gone"
  /\ Goto("main", "gone")
  /\ ended' = "exit"
  /\ UNCHANGED <<notes, worker, device, flags, load>>

Main ==
  ImportBegins \/ ImportEnds \/ RaiseStop \/ Leave \/ JoinWeb \/ JoinWorker

Web == ServeStart \/ ServeStop \/ ServeToggle \/ ServeDestroy \/ DestroyData

Next ==
  \/ \E t \in Controllers : StartStop(t)
  \/ \E r \in Requests : Accept(r)
  \/ Web \/ Arrive \/ CaptureEnds \/ Worker \/ Signal \/ ImportFails \/ Main

\* Threads that can go on do; nothing obliges a request, a signal or a
\* payload to come, a device to fail or the handling of a payload to end.  The
\* join of a signal's stop_capture returns once the thread it waits for has
\* ended, though requests may go on to start and to stop new ones.
Fairness ==
  /\ \A t \in Controllers : WF_vars(StartStop(t))
  /\ SF_vars(StopJoined("main"))
  /\ WF_vars(Web) /\ WF_vars(Main) /\ WF_vars(Worker) /\ WF_vars(CaptureEnds)

Spec == Init /\ [][Next]_vars /\ Fairness

----------------------------------------------------------------------------
(* Properties.                                                             *)

Quiet == ended = "no" /\ pc["web"] = "idle" /\ MainIsQuiet

\* What the status request calls not capturing is not capturing: between
\* calls, the device is closed and forgotten and its thread has ended, unless a
\* request has met main's start-up or shutdown, which share no lock with it.
StoppedIsStopped ==
  Quiet /\ ~capturing /\ ~overlapped => ~running /\ ~opened /\ ~dev

\* The reassembler and the connection map, which have no lock, are used by
\* one thread at a time: a capture runs beside an import only after a start
\* request, which nothing refuses during an import, or after a request that
\* came before the import had set its flag.
OneReassembler ==
  ended = "no" /\ pc["main"] = "import" /\ running => hasty \/ overlapped

\* A device is not closed, and the handler it calls not destroyed, while its
\* capture thread runs, through hasty starts, automatic stops and failures.
\* Only a request that overlaps main's start-up or shutdown can bring it about,
\* and std::exit in an import beside which a hasty start has begun a capture:
\* importing is set to the end then.
CaptureOutlived ==
  ended # "failed" /\ ~overlapped =>
    /\ running => opened
    /\ pc["main"] \in {"join_worker", "gone"} => ~running \/ (hasty /\ importing)

\* Without a full database no null device is ever used: while no request
\* overlaps start-up or shutdown, the processing thread's automatic stop is
\* the only one that can meet another.
FaultOnlyWhenFull == ended = "fault" /\ ~overlapped => full

\* A capture goes on for at most Period payloads after the database is full.
\* A start request in the midst of it, which nothing refuses, makes dev null
\* for a while and may hide it from a test: the count begins anew.
OverrunBounded == ended = "no" /\ running /\ ~overlapped => over <= Period

\* A destroy deletes while no capture thread feeds the queue, also when the
\* capture it finds was started by a hasty start or stopped by itself: it has
\* closed the device of any capture before the first row goes.  (Payloads that
\* are queued already are still stored meanwhile.)
DestroyFindsNoCapture ==
  ended = "no" /\ pc["web"] = "destroying" /\ ~overlapped =>
    ~running /\ ~opened /\ ~capturing

\* A signal or a failed start on the main thread ends the process, and a
\* request is answered or the process ends, whatever the other threads are
\* doing and however they overlap.  Only a payload that is handled for ever
\* keeps the destructor in its join; requests are answered even then.
ControlEnds ==
  /\ pc["main"] \in {"raise", "join_web"} ~> (ended # "no" \/ worker = "endless")
  /\ pc["web"] = "asked" ~> (pc["web"] \in {"idle", "gone"} \/ ended # "no")

=============================================================================
