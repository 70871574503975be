---------------------------- MODULE PacketQueue ----------------------------
(***************************************************************************)
(* The hand-off of captured TCP payloads in packet_handler.cpp.  The       *)
(* capture thread (or main, while it imports a pcap file) runs             *)
(* tcpReassemblyMsgReadyCallback, which appends to packet_queue under      *)
(* packet_queue_mutex and then notifies packet_queue_cond.  The processing *)
(* thread runs run_packet_processing_loop: it waits with a 500 ms timeout, *)
(* pops under the mutex and handles outside of it.  Main raises the atomic *)
(* flag stopped and notifies WITHOUT holding the mutex, on a signal and    *)
(* again in the destructor, which then joins the processing thread.  The   *)
(* web thread takes the mutex to report the queue's size.                  *)
(*                                                                         *)
(* Every step between two accesses to shared state is an action, so a      *)
(* notification may fall between the test of the wait predicate and the    *)
(* wait, and a stop between the test of the inner loop and the pop.  A     *)
(* payload is its number in the order of arrival; Blank is an element that *)
(* emplace_back() has created and the callback has not filled yet.         *)
(***************************************************************************)
EXTENDS Naturals, Sequences

CONSTANTS
  MaxPackets,  \* bound: payloads that arrive in a behaviour
  ImportOnly   \* started with --pcap, web and live capture both disabled

ASSUME PacketQueueAssumption ==
  /\ MaxPackets \in Nat
  /\ ImportOnly \in BOOLEAN

VARIABLES
  mutex,     \* the thread that holds packet_queue_mutex, or "none"
  queue,     \* packet_queue
  capture,   \* where the callback is: idle, lock, fill, notify
  worker,    \* where run_packet_processing_loop is
  hand,      \* the popped payload ("info"), a sequence of at most one
  stopped,   \* the stop flag
  main,      \* where the main thread is
  pushed,    \* history: the payloads queued
  handled,   \* history: the payloads handle_tcp has finished
  stopMark   \* history: how many were handled when stopped was first set

vars == <<mutex, queue, capture, worker, hand, stopped, main,
          pushed, handled, stopMark>>

Blank == 0

Threads == {"capture", "worker", "web"}

CaptureSteps == {"idle", "lock", "fill", "notify"}

WorkerSteps == {"loop", "lock", "test", "block", "waiting", "woken",
                "expired", "inner", "pop", "handle", "endless", "relock", "done"}

MainSteps == {"running", "importing", "sigNotify", "stopCapture", "exiting",
              "dtorNotify", "joining", "exited"}

Init ==
  /\ mutex = "none"
  /\ queue = <<>>
  /\ capture = "idle"
  /\ worker = "loop"
  /\ hand = <<>>
  /\ stopped = FALSE
  /\ main \in IF ImportOnly THEN {"importing"} ELSE {"importing", "running"}
  /\ pushed = <<>>
  /\ handled = <<>>
  /\ stopMark = 0

-----------------------------------------------------------------------------
(* Mutex and condition variable. *)

\* A thread that found the mutex free takes it.
Take(thread) == mutex = "none" /\ mutex' = thread

Release == mutex' = "none"

\* notify_all: the worker is woken only if it is waiting at this moment.
NotifyAll == worker' = IF worker = "waiting" THEN "woken" ELSE worker

-----------------------------------------------------------------------------
(* The capture callback. *)

\* A payload with data arrives and the callback heads for the queue.  Main
\* has not yet joined the capture thread, or is itself reading the file.
MsgReady ==
  /\ capture = "idle"
  /\ main \in {"running", "importing", "sigNotify", "stopCapture"}
  /\ Len(pushed) < MaxPackets
  /\ capture' = "lock"
  /\ UNCHANGED <<mutex, queue, worker, hand, stopped, main,
                 pushed, handled, stopMark>>

\* Mutant: the lock covers emplace_back() only.
EmplaceUnlocked ==
  /\ capture = "lock"
  /\ mutex = "none"
  /\ queue' = Append(queue, Blank)
  /\ capture' = "fill"
  /\ UNCHANGED <<mutex, worker, hand, stopped, main, pushed, handled, stopMark>>

\* unique_lock, then emplace_back().
Emplace ==
  /\ capture = "lock"
  /\ Take("capture")
  /\ queue' = Append(queue, Blank)
  /\ capture' = "fill"
  /\ UNCHANGED <<worker, hand, stopped, main, pushed, handled, stopMark>>

\* The fields of queue.back() are assigned, then the mutex is unlocked.
Fill ==
  /\ capture = "fill"
  /\ queue' = [queue EXCEPT ![Len(queue)] = Len(pushed) + 1]
  /\ pushed' = Append(pushed, Len(pushed) + 1)
  /\ Release
  /\ capture' = "notify"
  /\ UNCHANGED <<worker, hand, stopped, main, handled, stopMark>>

\* notify_all after the unlock.
NotifyPacket ==
  /\ capture = "notify"
  /\ NotifyAll
  /\ capture' = "idle"
  /\ UNCHANGED <<mutex, queue, hand, stopped, main, pushed, handled, stopMark>>

-----------------------------------------------------------------------------
(* The processing thread. *)

\* while (!stopped)
LoopTest ==
  /\ worker = "loop"
  /\ worker' = IF stopped THEN "done" ELSE "lock"
  /\ UNCHANGED <<mutex, queue, capture, hand, stopped, main,
                 pushed, handled, stopMark>>

\* unique_lock at the top of the loop body.
LoopLock ==
  /\ worker = "lock"
  /\ Take("worker")
  /\ worker' = "test"
  /\ UNCHANGED <<queue, capture, hand, stopped, main,
                 pushed, handled, stopMark>>

\* wait_for evaluates its predicate, the mutex held.
WaitTest ==
  /\ worker = "test"
  /\ worker' = IF stopped \/ queue # <<>> THEN "inner" ELSE "block"
  /\ UNCHANGED <<mutex, queue, capture, hand, stopped, main,
                 pushed, handled, stopMark>>

\* wait_for releases the mutex and starts to wait, in one step.
Block ==
  /\ worker = "block"
  /\ Release
  /\ worker' = "waiting"
  /\ UNCHANGED <<queue, capture, hand, stopped, main,
                 pushed, handled, stopMark>>

\* Mutant: wait instead of wait_for (no spurious wakeup either).
ExpireNever == FALSE /\ UNCHANGED vars

\* 500 ms have passed without a notification, or the wait ends spuriously.
Expire ==
  /\ worker = "waiting"
  /\ worker' \in {"expired", "woken"}
  /\ UNCHANGED <<mutex, queue, capture, hand, stopped, main,
                 pushed, handled, stopMark>>

\* wait_for takes the mutex again: notified, it goes back to the predicate;
\* timed out, it returns whatever the predicate is.
Reacquire ==
  /\ worker \in {"woken", "expired"}
  /\ Take("worker")
  /\ worker' = IF worker = "woken" THEN "test" ELSE "inner"
  /\ UNCHANGED <<queue, capture, hand, stopped, main,
                 pushed, handled, stopMark>>

\* Mutant: the inner loop drains the queue whatever the flag.
InnerTestDrain ==
  /\ worker = "inner"
  /\ IF queue # <<>>
       THEN worker' = "pop" /\ UNCHANGED mutex
       ELSE worker' = "loop" /\ Release
  /\ UNCHANGED <<queue, capture, hand, stopped, main,
                 pushed, handled, stopMark>>

\* while (!stopped && packet_queue.size() > 0); when it fails, the scope of
\* the lock ends.
InnerTest ==
  /\ worker = "inner"
  /\ IF ~stopped /\ queue # <<>>
       THEN worker' = "pop" /\ UNCHANGED mutex
       ELSE worker' = "loop" /\ Release
  /\ UNCHANGED <<queue, capture, hand, stopped, main,
                 pushed, handled, stopMark>>

\* Mutant: the newest element is taken instead of the oldest.
PopNewest ==
  /\ worker = "pop"
  /\ hand' = <<queue[Len(queue)]>>
  /\ queue' = SubSeq(queue, 1, Len(queue) - 1)
  /\ Release
  /\ worker' = "handle"
  /\ UNCHANGED <<capture, stopped, main, pushed, handled, stopMark>>

\* Copy the front element, pop it, unlock.
Pop ==
  /\ worker = "pop"
  /\ hand' = <<Head(queue)>>
  /\ queue' = Tail(queue)
  /\ Release
  /\ worker' = "handle"
  /\ UNCHANGED <<capture, stopped, main, pushed, handled, stopMark>>

\* handle_tcp returns, having let no exception out.
Handle ==
  /\ worker = "handle"
  /\ handled' = handled \o hand
  /\ hand' = <<>>
  /\ worker' = "relock"
  /\ UNCHANGED <<mutex, queue, capture, stopped, main, pushed, stopMark>>

\* handle_tcp never returns: its loop over a bulk_pull_account answer with whole
\* entries (flags 2) is left at the terminator or a parse error only, and does
\* not erase the entry it has stored, so an entry that is not the terminator is
\* stored again for ever.  The mutex is free and the payload stays in hand.
HandleForever ==
  /\ worker = "handle"
  /\ worker' = "endless"
  /\ UNCHANGED <<mutex, queue, capture, hand, stopped, main,
                 pushed, handled, stopMark>>

\* lk.lock() at the end of the inner loop.
Relock ==
  /\ worker = "relock"
  /\ Take("worker")
  /\ worker' = "inner"
  /\ UNCHANGED <<queue, capture, hand, stopped, main,
                 pushed, handled, stopMark>>

-----------------------------------------------------------------------------
(* The main thread. *)

\* stopped = true in stop_packet_processing_thread, at any moment of the
\* other threads: the mutex is not taken.
RaiseStop ==
  /\ stopped' = TRUE
  /\ stopMark' = IF stopped THEN stopMark ELSE Len(handled)

\* The file is read; main waits for a signal, unless nothing keeps it.
ImportDone ==
  /\ main = "importing"
  /\ capture = "idle"
  /\ main' = IF ImportOnly THEN "exiting" ELSE "running"
  /\ UNCHANGED <<mutex, queue, capture, worker, hand, stopped,
                 pushed, handled, stopMark>>

\* SIGINT or SIGTERM: sig_handler stops the processing thread first.
Signal ==
  /\ main = "running"
  /\ RaiseStop
  /\ main' = "sigNotify"
  /\ UNCHANGED <<mutex, queue, capture, worker, hand, pushed, handled>>

\* Its notify_all.
SigNotify ==
  /\ main = "sigNotify"
  /\ NotifyAll
  /\ main' = "stopCapture"
  /\ UNCHANGED <<mutex, queue, capture, hand, stopped,
                 pushed, handled, stopMark>>

\* stop_capture joins the capture thread; then the I/O context is stopped.
StopCapture ==
  /\ main = "stopCapture"
  /\ capture = "idle"
  /\ main' = "exiting"
  /\ UNCHANGED <<mutex, queue, capture, worker, hand, stopped,
                 pushed, handled, stopMark>>

\* main has returned and the application singleton is destroyed: the web
\* server is joined first, then ~packet_handler raises the flag.
Destroy ==
  /\ main = "exiting"
  /\ mutex # "web"
  /\ RaiseStop
  /\ main' = "dtorNotify"
  /\ UNCHANGED <<mutex, queue, capture, worker, hand, pushed, handled>>

\* The destructor's notify_all.
DtorNotify ==
  /\ main = "dtorNotify"
  /\ NotifyAll
  /\ main' = "joining"
  /\ UNCHANGED <<mutex, queue, capture, hand, stopped,
                 pushed, handled, stopMark>>

\* packet_processing_thread.join() returns.
Join ==
  /\ main = "joining"
  /\ worker = "done"
  /\ main' = "exited"
  /\ UNCHANGED <<mutex, queue, capture, worker, hand, stopped,
                 pushed, handled, stopMark>>

-----------------------------------------------------------------------------
(* The web thread: packet_queue_size, for GET /api/v1/status. *)

SizeLock ==
  /\ ~ImportOnly
  /\ main \in {"importing", "running", "sigNotify", "stopCapture", "exiting"}
  /\ Take("web")
  /\ UNCHANGED <<queue, capture, worker, hand, stopped, main,
                 pushed, handled, stopMark>>

SizeUnlock ==
  /\ mutex = "web"
  /\ Release
  /\ UNCHANGED <<queue, capture, worker, hand, stopped, main,
                 pushed, handled, stopMark>>

-----------------------------------------------------------------------------
Capture == MsgReady \/ Emplace \/ Fill \/ NotifyPacket

\* The steps in which the worker waits for the mutex.
WorkerAcquire == LoopLock \/ Reacquire \/ Relock

WorkerStep ==
  \/ LoopTest \/ WaitTest \/ Block \/ Expire \/ InnerTest \/ Pop
  \/ Handle \/ HandleForever

Main ==
  ImportDone \/ Signal \/ SigNotify \/ StopCapture \/ Destroy \/ DtorNotify \/ Join

Web == SizeLock \/ SizeUnlock

Next == Capture \/ WorkerAcquire \/ WorkerStep \/ Main \/ Web

\* Threads keep running and a timeout expires (weak fairness).  The status
\* page polls the mutex for ever, so a thread that waits for it needs strong
\* fairness: a free mutex is not always stolen.  Nothing obliges a packet, a
\* signal or a status request to arrive.  A payload that is being handled is
\* either finished or found to be endless; that it is finished is not assumed.
Fairness ==
  /\ WF_vars(WorkerStep)
  /\ SF_vars(WorkerAcquire)
  /\ SF_vars(Emplace)
  /\ WF_vars(Fill \/ NotifyPacket)
  /\ WF_vars(SizeUnlock)
  /\ WF_vars(ImportDone \/ SigNotify \/ StopCapture \/ DtorNotify \/ Join)
  /\ SF_vars(Destroy)

Safety == Init /\ [][Next]_vars

Spec == Safety /\ Fairness

-----------------------------------------------------------------------------
(* Properties. *)

\* The values the variables can take.  A payload that has left the queue is
\* a real one: no Blank in hand, pushed or handled.
TypeOK ==
  /\ mutex \in Threads \cup {"none"}
  /\ queue \in Seq(0 .. MaxPackets)
  /\ capture \in CaptureSteps
  /\ worker \in WorkerSteps
  /\ hand \in Seq(1 .. MaxPackets)
  /\ stopped \in BOOLEAN
  /\ main \in MainSteps
  /\ pushed \in Seq(1 .. MaxPackets)
  /\ handled \in Seq(1 .. MaxPackets)
  /\ stopMark \in Nat

\* The element of the queue the callback has not filled yet.
Unfilled == IF capture = "fill" THEN <<Blank>> ELSE <<>>

\* tcpReassemblyMsgReadyCallback and run_packet_processing_loop together lose
\* no payload, duplicate none and reorder none, wherever the two threads are:
\* those handled, the one in hand and those in the queue are those queued, in
\* order, with the one being filled at the back.
HandOffInOrder == pushed \o Unfilled = handled \o hand \o queue

\* After stop_packet_processing_thread has set stopped, the processing loop
\* finishes at most the payload it had already chosen; it does not drain.
StopIsPrompt == stopped => Len(handled) <= stopMark + 1

\* Once stop is requested the processing thread leaves its loop, is joined,
\* and main ends, though the flag is raised and notified without the mutex and
\* the wakeup can be lost: the 500 ms timeout of wait_for makes up for it.  The
\* only thing that keeps the destructor in its join is an endless handle_tcp.
StopCompletes == stopped ~> (main = "exited" \/ worker = "endless")

Channel == INSTANCE PacketChannel WITH
  sent <- pushed, received <- handled, closed <- stopped, mark <- stopMark,
  dead <- worker = "endless"

\* The queue, its lock and its condition variable implement the channel: each
\* step is a step of the channel or invisible to it, and what is queued is
\* handled unless a stop or an endless payload intervenes.
ImplementsChannel == Channel!ChannelSpec

\* Option --pcap is documented as "Populate database using this pcap file"
\* (app.cpp:35): when the process has ended, every payload read from the file
\* should have been handled.
ImportedPacketsHandled == main = "exited" => handled = pushed

=============================================================================
