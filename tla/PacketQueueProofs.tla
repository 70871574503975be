------------------------- MODULE PacketQueueProofs -------------------------
(***************************************************************************)
(* The safety of the packet hand-off for any number of payloads: the       *)
(* inductive invariant of PacketQueue, its consequences, and the step      *)
(* simulation of PacketChannel.  Liveness stays with TLC.                  *)
(***************************************************************************)
EXTENDS PacketQueue, SequenceTheorems, TLAPS

Cells == 0 .. MaxPackets

\* The holder of the mutex is known from the threads' positions.
LockInv ==
  /\ mutex = "worker" <=> worker \in {"test", "block", "inner", "pop"}
  /\ mutex = "capture" <=> capture = "fill"

\* A payload under way still fits the bound, the worker pops only from a
\* non-empty queue, and it has one payload in hand exactly while it handles it.
PositionInv ==
  /\ capture \in {"lock", "fill"} => Len(pushed) < MaxPackets
  /\ worker = "pop" => queue # <<>>
  /\ IF worker \in {"handle", "endless"} THEN Len(hand) = 1 ELSE hand = <<>>

\* What is left to the worker once stopped: nothing, when it has handled a
\* payload since; no more than the payload it is busy with otherwise.
StopInv ==
  stopped => \/ Len(handled) = stopMark
             \/ /\ Len(handled) = stopMark + 1
                /\ worker \notin {"pop", "handle", "endless"}

IInv ==
  /\ TypeOK
  /\ LockInv
  /\ PositionInv
  /\ HandOffInOrder
  /\ StopInv

-----------------------------------------------------------------------------
(* Lemmas about sequences. *)

\* A non-empty sequence is its front and its last element.
LEMMA FrontAndLast ==
  ASSUME NEW S, NEW q \in Seq(S), q # <<>>
  PROVE  /\ SubSeq(q, 1, Len(q) - 1) \in Seq(S)
         /\ q[Len(q)] \in S
         /\ q = Append(SubSeq(q, 1, Len(q) - 1), q[Len(q)])
<1>1. PICK t \in Seq(S), e \in S : q = Append(t, e)
  BY SequenceEmptyOrAppend
<1>2. /\ Len(q) = Len(t) + 1 /\ Len(t) \in Nat
      /\ q[Len(q)] = e
      /\ \A i \in 1 .. Len(t) : q[i] = t[i]
  BY <1>1, AppendProperties, LenProperties
<1> DEFINE f == SubSeq(q, 1, Len(q) - 1)
<1>3. f \in Seq(S) /\ Len(f) = Len(t) /\ \A i \in 1 .. Len(t) : f[i] = t[i]
  BY <1>2, LenProperties, SubSeqProperties, ElementOfSeq
<1>4. f = t
  <2> HIDE DEF f
  <2> QED
    BY <1>3, SeqEqual
<1> QED
  BY <1>1, <1>2, <1>3, <1>4

\* When what is in the queue ends the whole, so does its last cell.
SameLastCell(p, a, q, b) ==
  p = a \o SubSeq(q, 1, Len(q) - 1) /\ q[Len(q)] = b

\* If a and q make up p with b appended, q without its last cell and a make up p.
LEMMA LastCell ==
  ASSUME NEW S, NEW p \in Seq(S), NEW a \in Seq(S), NEW q \in Seq(S),
         NEW b \in S, q # <<>>, Append(p, b) = a \o q
  PROVE  SameLastCell(p, a, q, b)
<1> DEFINE t == SubSeq(q, 1, Len(q) - 1)  e == q[Len(q)]  c == a \o t
<1>1. t \in Seq(S) /\ e \in S /\ q = Append(t, e)
  BY FrontAndLast
<1>2. c \in Seq(S) /\ <<e>> \in Seq(S)
  BY <1>1, ConcatProperties
<1>3. a \o q = Append(c, e)
  <2> HIDE DEF t, e
  <2> QED
    BY <1>1, <1>2, AppendIsConcat, ConcatAssociative
<1>4. \A s \in Seq(S) : Append(p, b) = Append(s, e) => p = s /\ b = e
  BY <1>1, AppendInjective
<1> HIDE DEF c, e, t
<1>5. p = c /\ b = e
  BY <1>2, <1>3, <1>4
<1> QED
  BY <1>5 DEF c, e, t, SameLastCell

\* Overwriting the last cell: the callback's fill of queue.back().
LEMMA OverwriteLast ==
  ASSUME NEW S, NEW t \in Seq(S), NEW n \in S, NEW u \in Seq(S),
         Len(u) = Len(t) + 1, \A j \in 1 .. Len(t) : u[j] = t[j]
  PROVE  [u EXCEPT ![Len(u)] = n] = Append(t, n)
<1> DEFINE v == [u EXCEPT ![Len(u)] = n]  w == Append(t, n)
<1>1. /\ v \in Seq(S)
      /\ Len(v) = Len(u)
      /\ \A j \in 1 .. Len(u) : v[j] = IF j = Len(u) THEN n ELSE u[j]
  BY ExceptSeq, LenProperties
<1>2. /\ w \in Seq(S)
      /\ Len(w) = Len(u)
      /\ \A j \in 1 .. Len(u) : w[j] = IF j = Len(u) THEN n ELSE u[j]
  BY AppendProperties, LenProperties
<1> HIDE DEF v, w
<1>3. v = w
  BY <1>1, <1>2, SeqEqual
<1> QED
  BY <1>3 DEF v, w

\* Moving the head of q to the hand changes nothing of the whole.
LEMMA PopHead ==
  ASSUME NEW S, NEW a \in Seq(S), NEW q \in Seq(S), q # <<>>
  PROVE  (a \o <<Head(q)>>) \o Tail(q) = a \o q
<1>1. /\ Head(q) \in S /\ Tail(q) \in Seq(S) /\ <<Head(q)>> \in Seq(S)
  BY HeadTailProperties
<1>2. <<Head(q)>> \o Tail(q) = q
  BY <1>1
<1> QED
  BY <1>1, <1>2, ConcatAssociative

-----------------------------------------------------------------------------
(* The inductive invariant. *)

\* Nothing was pushed and nothing handled.
LEMMA InitInv == Init => IInv
<1> SUFFICES ASSUME Init PROVE IInv
  OBVIOUS
<1> USE PacketQueueAssumption DEF Init
<1>1. TypeOK
  BY EmptySeq DEF TypeOK, CaptureSteps, WorkerSteps, MainSteps
<1>2. HandOffInOrder
  BY DEF HandOffInOrder, Unfilled
<1> QED
  BY <1>1, <1>2 DEF IInv, LockInv, PositionInv, StopInv

\* handle_tcp finishes one payload at a time.
LEMMA OneMoreHandled ==
  ASSUME TypeOK, PositionInv, Handle
  PROVE  Len(handled') = Len(handled) + 1 /\ Len(handled) \in Nat
<1>1. hand \in Seq(1 .. MaxPackets) /\ handled \in Seq(1 .. MaxPackets)
  BY DEF TypeOK
<1>2. Len(hand) = 1 /\ handled' = handled \o hand
  BY DEF PositionInv, Handle
<1>3. Len(handled \o hand) = Len(handled) + Len(hand)
  BY <1>1, ConcatProperties
<1>4. Len(handled) \in Nat
  BY <1>1, LenProperties
<1> QED
  BY <1>2, <1>3, <1>4

\* The parts of the invariant that are about positions, flags and counts.
LEMMA ControlStep == IInv /\ [Next]_vars => /\ LockInv'
                                            /\ PositionInv'
                                            /\ StopInv'
<1> SUFFICES ASSUME IInv, [Next]_vars
             PROVE  LockInv' /\ PositionInv' /\ StopInv'
  OBVIOUS
<1> USE PacketQueueAssumption
    DEF IInv, TypeOK, LockInv, PositionInv, StopInv, Take, Release, NotifyAll,
        Threads, CaptureSteps, WorkerSteps, MainSteps
<1>1. CASE MsgReady
  BY <1>1 DEF MsgReady
<1>2. CASE Emplace
  BY <1>2 DEF Emplace
<1>3. CASE Fill
  BY <1>3 DEF Fill
<1>4. CASE NotifyPacket
  BY <1>4 DEF NotifyPacket
<1>5. CASE LoopTest
  BY <1>5 DEF LoopTest
<1>6. CASE LoopLock
  BY <1>6 DEF LoopLock
<1>7. CASE WaitTest
  BY <1>7 DEF WaitTest
<1>8. CASE Block
  BY <1>8 DEF Block
<1>9. CASE Expire
  BY <1>9 DEF Expire
<1>10. CASE Reacquire
  BY <1>10 DEF Reacquire
<1>11. CASE InnerTest
  BY <1>11 DEF InnerTest
<1>12. CASE Relock
  BY <1>12 DEF Relock
<1>13. CASE Pop
  BY <1>13 DEF Pop
<1>14. CASE Handle
  <2>1. Len(handled') = Len(handled) + 1 /\ Len(handled) \in Nat
    BY <1>14, OneMoreHandled
  <2> QED
    BY <1>14, <2>1 DEF Handle
<1>15. CASE Signal \/ Destroy
  BY <1>15 DEF Signal, Destroy, RaiseStop
<1>16. CASE ImportDone \/ StopCapture \/ Join
  <2>1. UNCHANGED <<mutex, capture, worker, queue, hand, pushed, handled,
                    stopped, stopMark>>
    BY <1>16 DEF ImportDone, StopCapture, Join
  <2> QED
    BY <2>1
<1>17. CASE SigNotify \/ DtorNotify
  <2>1. /\ UNCHANGED <<mutex, capture, queue, hand, pushed, handled,
                       stopped, stopMark>>
        /\ worker' = worker \/ (worker = "waiting" /\ worker' = "woken")
    BY <1>17 DEF SigNotify, DtorNotify
  <2> QED
    BY <2>1
<1>18. CASE SizeLock
  BY <1>18 DEF SizeLock
<1>19. CASE SizeUnlock
  BY <1>19 DEF SizeUnlock
<1>20. CASE HandleForever
  BY <1>20 DEF HandleForever
<1>21. CASE UNCHANGED vars
  BY <1>21 DEF vars
<1> QED
  BY <1>1, <1>2, <1>3, <1>4, <1>5, <1>6, <1>7, <1>8, <1>9, <1>10, <1>11, <1>12, <1>13, <1>14, <1>15, <1>16, <1>18,
     <1>19, <1>20, <1>21, <1>17
     DEF Next, Capture, WorkerAcquire, WorkerStep, Main, Web

\* When nothing is being filled, the payloads in the queue are those pushed
\* after the ones handled and in hand: none of them is Blank.
LEMMA HeadIsPushed ==
  ASSUME TypeOK, HandOffInOrder, capture # "fill", queue # <<>>
  PROVE  Head(queue) \in 1 .. MaxPackets
<1> DEFINE S == Cells  a == handled \o hand  k == Len(a) + 1
<1>1. /\ pushed \in Seq(S) /\ hand \in Seq(S) /\ handled \in Seq(S)
      /\ queue \in Seq(S)
  BY SeqMonotonic, 1 .. MaxPackets \subseteq Cells DEF TypeOK, Cells
<1>2. a \in Seq(S)
  BY <1>1, ConcatProperties
<1>3. pushed = a \o queue
  BY <1>1, ConcatEmptySeq DEF HandOffInOrder, Unfilled
<1>4. Len(queue) \in Nat \ {0} /\ Len(a) \in Nat
  BY <1>1, <1>2, EmptySeq, LenProperties
<1>5. /\ Len(pushed) = Len(a) + Len(queue)
      /\ pushed[k] = queue[1]
  BY <1>1, <1>2, <1>3, <1>4, ConcatProperties, k \in 1 .. Len(a) + Len(queue)
<1>6. pushed[k] \in 1 .. MaxPackets
  BY <1>4, <1>5, ElementOfSeq, k \in 1 .. Len(pushed) DEF TypeOK
<1> QED
  BY <1>1, <1>4, <1>5, <1>6

\* The element being filled is still in the queue: pushed holds no Blank.
LEMMA BackIsThere ==
  ASSUME TypeOK, HandOffInOrder, capture = "fill"
  PROVE  queue # <<>>
<1> DEFINE a == handled \o hand  n == Len(pushed) + 1
<1> SUFFICES ASSUME queue = <<>> PROVE FALSE
  OBVIOUS
<1>1. a \in Seq(1 .. MaxPackets)
  BY ConcatProperties DEF TypeOK
<1>2. pushed \o <<Blank>> = a
  BY <1>1, ConcatEmptySeq DEF HandOffInOrder, Unfilled
<1>3. pushed \in Seq(Cells) /\ <<Blank>> \in Seq(Cells)
  BY SeqMonotonic, 1 .. MaxPackets \subseteq Cells, PacketQueueAssumption
     DEF TypeOK, Cells, Blank
<1>4. n \in 1 .. Len(a) /\ a[n] = Blank
  BY <1>2, <1>3, ConcatProperties, LenProperties
<1>5. a[n] \in 1 .. MaxPackets
  BY <1>1, <1>4, ElementOfSeq
<1> QED
  BY <1>4, <1>5 DEF Blank

\* Every step keeps the types.
LEMMA TypeStep == IInv /\ [Next]_vars => TypeOK'
<1> SUFFICES ASSUME IInv, [Next]_vars
             PROVE  TypeOK'
  OBVIOUS
<1> USE PacketQueueAssumption
    DEF TypeOK, Take, Release, NotifyAll,
        Threads, CaptureSteps, WorkerSteps, MainSteps
<1>0. TypeOK /\ LockInv /\ PositionInv /\ HandOffInOrder
  BY DEF IInv
<1>1. CASE MsgReady
  BY <1>0, <1>1 DEF MsgReady
<1>2. CASE Emplace
  <2>1. queue' \in Seq(Cells)
    BY <1>0, <1>2, AppendProperties DEF Emplace, Blank, Cells
  <2> QED
    BY <1>0, <1>2, <2>1 DEF Emplace, Cells
<1>3. CASE Fill
  <2>1. Len(pushed) + 1 \in 1 .. MaxPackets
    BY <1>0, <1>3, LenProperties DEF Fill, PositionInv
  <2>2. pushed' \in Seq(1 .. MaxPackets)
    BY <1>0, <1>3, <2>1, AppendProperties DEF Fill
  <2>3. queue' \in Seq(0 .. MaxPackets)
    BY <1>0, <1>3, <2>1, BackIsThere, EmptySeq, ExceptSeq DEF Fill
  <2> QED
    BY <1>0, <1>3, <2>2, <2>3 DEF Fill
<1>4. CASE NotifyPacket
  BY <1>0, <1>4 DEF NotifyPacket
<1>5. CASE LoopTest \/ LoopLock \/ WaitTest \/ Block \/ Expire
  BY <1>0, <1>5 DEF LoopTest, LoopLock, WaitTest, Block, Expire
<1>6. CASE Reacquire \/ InnerTest \/ Relock
  BY <1>0, <1>6 DEF Reacquire, InnerTest, Relock
<1>12. CASE HandleForever
  BY <1>0, <1>12 DEF HandleForever
<1>7. CASE Pop
  <2>1. queue # <<>> /\ capture # "fill"
    BY <1>0, <1>7 DEF Pop, PositionInv, LockInv
  <2>2. hand' \in Seq(1 .. MaxPackets)
    BY <1>0, <1>7, <2>1, HeadIsPushed DEF Pop
  <2>3. queue' \in Seq(0 .. MaxPackets)
    BY <1>0, <1>7, <2>1, HeadTailProperties DEF Pop
  <2> QED
    BY <1>0, <1>7, <2>2, <2>3 DEF Pop
<1>8. CASE Handle
  <2>1. handled' \in Seq(1 .. MaxPackets) /\ hand' \in Seq(1 .. MaxPackets)
    BY <1>0, <1>8, ConcatProperties DEF Handle
  <2> QED
    BY <1>0, <1>8, <2>1 DEF Handle
<1>9. CASE Main
  BY <1>0, <1>9, LenProperties
     DEF Main, ImportDone, Signal, SigNotify, StopCapture, Destroy,
         DtorNotify, Join, RaiseStop
<1>10. CASE Web
  BY <1>0, <1>10 DEF Web, SizeLock, SizeUnlock
<1>11. CASE UNCHANGED vars
  BY <1>0, <1>11 DEF vars
<1> QED
  BY <1>1, <1>2, <1>3, <1>4, <1>5, <1>6, <1>7, <1>8, <1>9, <1>10, <1>11, <1>12
     DEF Next, Capture, WorkerAcquire, WorkerStep

\* Filling queue.back() keeps the order.
LEMMA FillOrder ==
  ASSUME TypeOK, PositionInv, HandOffInOrder, Fill
  PROVE  HandOffInOrder'
<1> DEFINE S == Cells  a == handled \o hand  n == Len(pushed) + 1
           t == SubSeq(queue, 1, Len(queue) - 1)
<1>1. /\ pushed \in Seq(S) /\ hand \in Seq(S) /\ handled \in Seq(S)
      /\ queue \in Seq(S) /\ Blank \in S
  BY SeqMonotonic, 1 .. MaxPackets \subseteq Cells, PacketQueueAssumption
     DEF TypeOK, Cells, Blank
<1>2. a \in Seq(S)
  BY <1>1, ConcatProperties
<1>3. n \in S
  BY LenProperties, PacketQueueAssumption DEF TypeOK, PositionInv, Fill, Cells
<1>4. queue # <<>> /\ Append(pushed, Blank) = a \o queue
  BY <1>1, BackIsThere, AppendIsConcat DEF HandOffInOrder, Unfilled, Fill
<1>5. pushed = a \o t /\ queue[Len(queue)] = Blank
  <2>1. SameLastCell(pushed, a, queue, Blank)
    <3> HIDE DEF a, S, t, n
    <3> QED
      BY <1>1, <1>2, <1>4, LastCell
  <2> QED
    BY <2>1 DEF SameLastCell
<1>6. t \in Seq(S) /\ queue = Append(t, Blank)
  BY <1>1, <1>4, <1>5, FrontAndLast
<1> HIDE DEF t
<1>7. queue' = Append(t, n)
  <2>1. /\ Len(queue) = Len(t) + 1 /\ \A j \in 1 .. Len(t) : queue[j] = t[j]
        /\ queue \in Seq(S) /\ t \in Seq(S) /\ n \in S
    BY <1>1, <1>3, <1>6, AppendProperties
  <2>2. [queue EXCEPT ![Len(queue)] = n] = Append(t, n)
    <3> HIDE DEF n, S
    <3> QED
      BY <2>1, OverwriteLast
  <2> QED
    BY <2>2 DEF Fill
<1>8. a \o Append(t, n) = Append(a \o t, n)
  <2>1. <<n>> \in Seq(S) /\ a \o t \in Seq(S)
    BY <1>2, <1>3, <1>6, ConcatProperties
  <2> QED
    BY <1>2, <1>3, <1>6, <2>1, AppendIsConcat, ConcatAssociative
<1>9. pushed' = a \o queue' /\ pushed' \in Seq(S)
  BY <1>1, <1>3, <1>5, <1>7, <1>8, AppendProperties DEF Fill
<1>10. pushed' \o <<>> = pushed'
  BY <1>9, ConcatEmptySeq
<1> QED
  BY <1>9, <1>10 DEF HandOffInOrder, Unfilled, Fill

\* Every step keeps the order; only the push and the pop touch it.
LEMMA OrderStep == IInv /\ [Next]_vars => HandOffInOrder'
<1> SUFFICES ASSUME IInv, [Next]_vars
             PROVE  HandOffInOrder'
  OBVIOUS
<1> DEFINE S == Cells  a == handled \o hand
<1>0. TypeOK /\ LockInv /\ PositionInv /\ HandOffInOrder
  BY DEF IInv
<1>a. /\ pushed \in Seq(S) /\ hand \in Seq(S) /\ handled \in Seq(S)
      /\ queue \in Seq(S) /\ a \in Seq(S) /\ Blank \in S
  <2>1. pushed \in Seq(S) /\ hand \in Seq(S) /\ handled \in Seq(S)
    BY <1>0, SeqMonotonic, 1 .. MaxPackets \subseteq Cells DEF TypeOK, Cells
  <2> QED
    BY <1>0, <2>1, PacketQueueAssumption, ConcatProperties DEF TypeOK, Cells, Blank
<1>1. CASE Emplace
  <2>1. pushed = a \o queue /\ hand' = hand /\ handled' = handled
    BY <1>0, <1>1, <1>a, ConcatEmptySeq DEF HandOffInOrder, Unfilled, Emplace
  <2>2. queue' = queue \o <<Blank>>
    BY <1>1, <1>a, AppendIsConcat DEF Emplace
  <2>3. a \o queue' = (a \o queue) \o <<Blank>>
    BY <1>a, <2>2, ConcatAssociative, <<Blank>> \in Seq(S)
  <2> QED
    BY <1>1, <2>1, <2>3 DEF HandOffInOrder, Unfilled, Emplace
<1>2. CASE Fill
  BY <1>0, <1>2, FillOrder
<1>3. CASE Pop
  <2>1. queue # <<>> /\ hand = <<>> /\ a = handled
    BY <1>0, <1>3, <1>a, ConcatEmptySeq DEF Pop, PositionInv
  <2>2. (handled \o <<Head(queue)>>) \o Tail(queue) = handled \o queue
    BY <1>a, <2>1, PopHead
  <2> QED
    BY <1>0, <1>3, <2>1, <2>2 DEF HandOffInOrder, Unfilled, Pop
<1>4. CASE Handle
  <2>1. handled' \o hand' = a
    BY <1>4, <1>a, ConcatEmptySeq DEF Handle
  <2> QED
    BY <1>0, <1>4, <2>1 DEF HandOffInOrder, Unfilled, Handle
<1>5. CASE MsgReady \/ NotifyPacket
  BY <1>0, <1>5 DEF HandOffInOrder, Unfilled, MsgReady, NotifyPacket
<1>6. CASE \/ LoopTest \/ WaitTest \/ Block \/ Expire \/ InnerTest \/ WorkerAcquire
           \/ HandleForever
  BY <1>0, <1>6 DEF HandOffInOrder, Unfilled, LoopTest, WaitTest, Block, Expire,
                    InnerTest, WorkerAcquire, LoopLock, Reacquire, Relock,
                    HandleForever
<1>7. CASE Main
  BY <1>0, <1>7 DEF HandOffInOrder, Unfilled, Main, ImportDone, Signal, SigNotify,
                    StopCapture, Destroy, DtorNotify, Join
<1>8. CASE Web
  BY <1>0, <1>8 DEF HandOffInOrder, Unfilled, Web, SizeLock, SizeUnlock
<1>9. CASE UNCHANGED vars
  BY <1>0, <1>9 DEF HandOffInOrder, Unfilled, vars
<1> QED
  BY <1>1, <1>2, <1>3, <1>4, <1>5, <1>6, <1>7, <1>8, <1>9
     DEF Next, Capture, WorkerStep

\* The parts make one inductive invariant.
LEMMA Invariance == Safety => []IInv
<1>1. IInv /\ [Next]_vars => IInv'
  BY ControlStep, TypeStep, OrderStep DEF IInv
<1> QED
  BY <1>1, InitInv, PTL DEF Safety

-----------------------------------------------------------------------------
(* The theorems. *)

\* The hand-off of tcpReassemblyMsgReadyCallback and run_packet_processing_loop
\* is well typed: no half-filled element of packet_queue is ever handled.
THEOREM TypeCorrect == Spec => []TypeOK
<1>1. IInv => TypeOK
  BY DEF IInv
<1> QED
  BY <1>1, Invariance, PTL DEF Spec

\* The queue loses, duplicates and reorders no payload, wherever the capture
\* callback and the processing loop are interrupted.
THEOREM OrderCorrect == Spec => []HandOffInOrder
<1>1. IInv => HandOffInOrder
  BY DEF IInv
<1> QED
  BY <1>1, Invariance, PTL DEF Spec

\* At most one more payload is handled after stop_packet_processing_thread.
THEOREM StopCorrect == Spec => []StopIsPrompt
<1>1. IInv => StopIsPrompt
  BY LenProperties DEF IInv, StopInv, StopIsPrompt, TypeOK
<1> QED
  BY <1>1, Invariance, PTL DEF Spec

-----------------------------------------------------------------------------
(* The hand-off implements the channel, step by step. *)

\* The payload in hand is the oldest one not handled yet.
LEMMA HandIsNext ==
  ASSUME TypeOK, PositionInv, HandOffInOrder, worker = "handle"
  PROVE  /\ Len(handled) < Len(pushed)
         /\ handled \o hand = Append(handled, pushed[Len(handled) + 1])
<1> DEFINE S == Cells  a == handled \o hand  k == Len(handled) + 1
<1>1. /\ pushed \in Seq(S) /\ hand \in Seq(S) /\ handled \in Seq(S)
      /\ queue \in Seq(S) /\ Unfilled \in Seq(S)
  <2>1. pushed \in Seq(S) /\ hand \in Seq(S) /\ handled \in Seq(S)
    BY SeqMonotonic, 1 .. MaxPackets \subseteq Cells DEF TypeOK, Cells
  <2>2. <<>> \in Seq(S) /\ <<Blank>> \in Seq(S)
    BY EmptySeq, PacketQueueAssumption DEF Cells, Blank
  <2> QED
    BY <2>1, <2>2 DEF TypeOK, Cells, Unfilled
<1>2. Len(hand) = 1 /\ hand[1] \in 1 .. MaxPackets
  <2>1. Len(hand) = 1
    BY DEF PositionInv
  <2>2. hand \in Seq(1 .. MaxPackets)
    BY DEF TypeOK
  <2>3. \A i \in 1 .. Len(hand) : hand[i] \in 1 .. MaxPackets
    BY <2>2, ElementOfSeq
  <2>4. 1 \in 1 .. Len(hand)
    BY <2>1
  <2> QED
    BY <2>1, <2>3, <2>4
<1>3. /\ a \in Seq(S) /\ Len(a) = k /\ a[k] = hand[1]
      /\ Len(handled) \in Nat /\ Len(queue) \in Nat /\ Len(pushed) \in Nat
  <2>1. Len(handled) \in Nat /\ Len(queue) \in Nat /\ Len(pushed) \in Nat
    BY <1>1, LenProperties
  <2>2. /\ a \in Seq(S) /\ Len(a) = Len(handled) + Len(hand)
        /\ \A i \in 1 .. Len(handled) + Len(hand) :
             a[i] = IF i <= Len(handled) THEN handled[i] ELSE hand[i - Len(handled)]
    BY <1>1, ConcatProperties
  <2> HIDE DEF a
  <2> QED
    BY <1>2, <2>1, <2>2
<1>4. (a \o queue)[k] = hand[1] /\ Len(a \o queue) = k + Len(queue)
  <2>1. /\ Len(a \o queue) = Len(a) + Len(queue)
        /\ \A i \in 1 .. Len(a) + Len(queue) :
             (a \o queue)[i] = IF i <= Len(a) THEN a[i] ELSE queue[i - Len(a)]
    <3> HIDE DEF a
    <3> QED
      BY <1>1, <1>3, ConcatProperties
  <2> HIDE DEF a
  <2> QED
    BY <1>3, <2>1
<1>5. /\ Len(pushed \o Unfilled) = Len(pushed) + Len(Unfilled)
      /\ \A i \in 1 .. Len(pushed) + Len(Unfilled) :
           (pushed \o Unfilled)[i] = IF i <= Len(pushed)
                                       THEN pushed[i]
                                       ELSE Unfilled[i - Len(pushed)]
  BY <1>1, ConcatProperties
<1>6. pushed \o Unfilled = a \o queue
  BY DEF HandOffInOrder
<1>7. k <= Len(pushed)
  <2> SUFFICES ASSUME k > Len(pushed) PROVE FALSE
    BY <1>3
  <2>1. Len(Unfilled) \in {0, 1}
    BY DEF Unfilled
  <2>2. Len(pushed) + Len(Unfilled) = k + Len(queue)
    BY <1>4, <1>5, <1>6
  <2>3. Len(Unfilled) = 1 /\ k = Len(pushed) + 1
    <3>1. k \in Nat /\ Len(pushed) \in Nat /\ Len(queue) \in Nat
      BY <1>3
    <3>2. CASE Len(Unfilled) = 0
      <4>1. Len(pushed) = k + Len(queue)
        BY <2>2, <3>1, <3>2
      <4> QED
        BY <3>1, <4>1
    <3>3. CASE Len(Unfilled) = 1
      <4>1. Len(pushed) + 1 = k + Len(queue)
        BY <2>2, <3>3
      <4> QED
        BY <3>1, <3>3, <4>1
    <3> QED
      BY <2>1, <3>2, <3>3
  <2>4. Unfilled[1] = Blank
    BY <2>3 DEF Unfilled
  <2>5. (pushed \o Unfilled)[k] = Unfilled[1]
    BY <1>3, <1>5, <2>3
  <2>6. hand[1] = Blank
    BY <1>4, <1>6, <2>4, <2>5
  <2> QED
    BY <1>2, <2>6 DEF Blank
<1>8. pushed[k] = hand[1]
  <2>1. k \in 1 .. Len(pushed) + Len(Unfilled)
    BY <1>1, <1>3, <1>7, LenProperties
  <2> QED
    BY <1>4, <1>5, <1>6, <1>7, <2>1
<1>9. hand = <<hand[1]>>
  BY <1>1, <1>2
<1>10. handled \o <<hand[1]>> = Append(handled, hand[1])
  BY <1>1, <1>2, AppendIsConcat, ElementOfSeq
<1> QED
  BY <1>3, <1>7, <1>8, <1>9, <1>10

\* Every step is one of the channel, or none.
LEMMA ChannelStep ==
  IInv /\ [Next]_vars => [Channel!ChannelNext]_(Channel!chanVars)
<1> SUFFICES ASSUME IInv, [Next]_vars
             PROVE  [Channel!ChannelNext]_(Channel!chanVars)
  OBVIOUS
<1> USE DEF Channel!chanVars
<1>0. TypeOK /\ PositionInv /\ HandOffInOrder /\ StopInv
  BY DEF IInv
<1>1. CASE Fill
  BY <1>1 DEF Fill, Channel!ChannelNext, Channel!Send
<1>10. CASE HandleForever
  <2>1. stopped => Len(handled) = stopMark
    BY <1>0, <1>10 DEF HandleForever, StopInv
  <2>2. Len(handled) < Len(pushed)
    BY <1>0, <1>10, HandIsNext DEF HandleForever
  <2>3. Channel!Die
    BY <1>10, <2>1, <2>2 DEF HandleForever, Channel!Die, Channel!Served
  <2> QED
    BY <2>3 DEF Channel!ChannelNext
<1>2. CASE Handle
  <2>1. stopped => Len(handled) = stopMark
    BY <1>0, <1>2 DEF Handle, StopInv
  <2>2. /\ Len(handled) < Len(pushed)
        /\ handled' = Append(handled, pushed[Len(handled) + 1])
    BY <1>0, <1>2, HandIsNext DEF Handle
  <2>3. Channel!Receive
    BY <1>2, <2>1, <2>2 DEF Handle, Channel!Receive, Channel!Served
  <2> QED
    BY <2>3 DEF Channel!ChannelNext
<1>3. CASE Signal \/ Destroy
  <2>1. /\ UNCHANGED <<pushed, handled>> /\ stopped' = TRUE
        /\ stopMark' = IF stopped THEN stopMark ELSE Len(handled)
        /\ worker' = worker
    BY <1>3 DEF Signal, Destroy, RaiseStop
  <2>2. CASE stopped
    BY <1>0, <2>1, <2>2 DEF TypeOK
  <2>3. CASE ~stopped
    BY <2>1, <2>3 DEF Channel!ChannelNext, Channel!Close
  <2> QED
    BY <2>2, <2>3
<1>4. CASE MsgReady \/ Emplace \/ NotifyPacket
  <2>1. /\ UNCHANGED <<pushed, handled, stopped, stopMark>>
        /\ worker' = worker \/ (worker = "waiting" /\ worker' = "woken")
    BY <1>4 DEF MsgReady, Emplace, NotifyPacket, NotifyAll
  <2> QED
    BY <2>1
<1>5. CASE WorkerAcquire
  BY <1>5 DEF WorkerAcquire, LoopLock, Reacquire, Relock
<1>6. CASE LoopTest \/ WaitTest \/ Block \/ Expire \/ InnerTest \/ Pop
  BY <1>6 DEF LoopTest, WaitTest, Block, Expire, InnerTest, Pop
<1>7. CASE ImportDone \/ SigNotify \/ StopCapture \/ DtorNotify \/ Join
  <2>1. /\ UNCHANGED <<pushed, handled, stopped, stopMark>>
        /\ worker' = worker \/ (worker = "waiting" /\ worker' = "woken")
    BY <1>7 DEF ImportDone, SigNotify, StopCapture, DtorNotify, Join, NotifyAll
  <2> QED
    BY <2>1
<1>8. CASE Web
  BY <1>8 DEF Web, SizeLock, SizeUnlock
<1>9. CASE UNCHANGED vars
  BY <1>9 DEF vars
<1> QED
  BY <1>1, <1>2, <1>3, <1>4, <1>5, <1>6, <1>7, <1>8, <1>9, <1>10
     DEF Next, Capture, WorkerStep, Main

\* Every behaviour of the mutex, the condition variable and the three threads
\* is a behaviour of the channel: payloads queued by the callback are handled
\* one by one in order, at most the one already chosen after a stop, and none
\* after one whose handling does not end.
THEOREM ImplementsChannelSafety == Safety => Channel!ChannelSafety
<1>1. Init => Channel!ChannelInit
  BY DEF Init, Channel!ChannelInit
<1> QED
  BY <1>1, ChannelStep, Invariance, PTL DEF Safety, Channel!ChannelSafety

=============================================================================
