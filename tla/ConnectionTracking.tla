------------------------- MODULE ConnectionTracking -------------------------
(***************************************************************************)
(* The connection map of packet_handler.cpp.  On the capture thread the    *)
(* reassembler reports the start, the payloads and the end of every        *)
(* connection; connMgr keeps one tcp_flow_data per flow key, and a queued  *)
(* payload carries a pointer to it.  On the processing thread handle_tcp   *)
(* decides by that flow's current message whether a payload is a message   *)
(* or the next part of an answer, and notes the request an entry answers.  *)
(*                                                                         *)
(* A flow key is used again by later connections (sessions).  A unit is a  *)
(* message, a request that is answered by a stream, an entry of the answer *)
(* or its terminator; units of entries are cut into bytes in StreamDecoder *)
(* and the queue is taken apart in PacketQueue.  Both sides of a           *)
(* connection go through the same flow data and the side is never looked   *)
(* at, so a connection is the one sequence of what either side sends.      *)
(***************************************************************************)
EXTENDS Naturals, Sequences

CONSTANTS
  Keys,         \* flow keys
  Single,       \* does a payload hold one message only?
  Prompt,       \* is a key reused only when its payloads have been handled?
  MayLose,      \* may the capture miss bytes or the start of a connection?
  MaxSessions,  \* connections, of all keys together; they are numbered
  MaxSent,      \* units sent in a connection
  MaxQueued     \* payloads in the queue

ASSUME ConnectionTrackingAssumption ==
  /\ Single \in BOOLEAN /\ Prompt \in BOOLEAN /\ MayLose \in BOOLEAN
  /\ MaxSessions \in Nat \ {0}
  /\ MaxSent \in Nat \ {0}
  /\ MaxQueued \in Nat \ {0}

Connections == 1..MaxSessions

\* A message; requests: frontier_req or bulk_pull, and bulk_pull_account for
\* whole entries (flags 2) or brief ones (flags 0 and 1); and what may be sent
\* while an answer is under way: its entries and terminator, or a message of
\* the other side.
AskingKinds == {"req", "account", "brief"}
AnswerKinds == {"entry", "end", "other"}
Kinds == {"msg"} \cup AskingKinds \cup AnswerKinds

\* A unit knows its connection, its place there and the request it answers.
Units == [session : Connections, n : 1..MaxSent, kind : Kinds, req : 0..MaxSent]

NoRequest == <<0, 0>>

VARIABLES
  peer,     \* of each key: the connection at present and the request it answers
  opened,   \* the number of connections so far
  connMgr,  \* flow key -> flow data, 0 if there is none
  flows,    \* the tcp_flow_data objects
  queue,    \* payloads, each with its key and its flow data
  hand,     \* the payload handle_tcp works on, or None
  sent,     \* history: what was sent on each connection
  stored,   \* history: what has been put into the database, per connection
  damaged   \* history: the connections that were not captured completely, or
            \* whose streams the code cannot follow (see Unfollowed)

vars == <<peer, opened, connMgr, flows, queue, hand, sent, stored, damaged>>

None == [key |-> "none"]

Fresh == [type |-> "none", request |-> NoRequest, data |-> <<>>]

Peers == [session : 0..MaxSessions, open : BOOLEAN, req : 0..MaxSent]
Requests == (0..MaxSessions) \X (0..MaxSent)
Flows == [type : {"none", "stream", "account", "brief"}, request : Requests, data : Seq(Units)]
Parts == Seq(Units) \ {<<>>}
Queued == [key : Keys, flow : Nat \ {0}, units : Parts]
Hands == [key : Keys, flow : Nat \ {0}, units : Parts, step : {"branch", "loop"}]
Rows == [unit : Units, as : {"message", "entry", "event"}, request : Requests]

\* Types; whatever is queued or in hand has flow data.
TypeOK ==
  /\ peer \in [Keys -> Peers] /\ opened \in 0..MaxSessions
  /\ flows \in Seq(Flows) /\ connMgr \in [Keys -> 0..Len(flows)]
  /\ queue \in Seq(Queued) /\ \A i \in 1..Len(queue) : queue[i].flow <= Len(flows)
  /\ hand = None \/ (hand \in Hands /\ hand.flow <= Len(flows))
  /\ sent \in [Connections -> Seq(Units)]
  /\ stored \in [Connections -> Seq(Rows)]
  /\ damaged \subseteq Connections

Init ==
  /\ peer = [k \in Keys |-> [session |-> 0, open |-> FALSE, req |-> 0]]
  /\ opened = 0
  /\ connMgr = [k \in Keys |-> 0]
  /\ flows = <<>>
  /\ queue = <<>>
  /\ hand = None
  /\ sent = [c \in Connections |-> <<>>]
  /\ stored = [c \in Connections |-> <<>>]
  /\ damaged = {}

----------------------------------------------------------------------------
(* The capture thread. *)

Handling(k) == hand # None /\ hand.key = k

Waiting(k) == \E i \in 1..Len(queue) : queue[i].key = k

\* The key has a flow data object, a new one if there was none.
Insert(k) ==
  IF connMgr[k] # 0 THEN UNCHANGED <<connMgr, flows>>
  ELSE /\ flows' = Append(flows, Fresh)
       /\ connMgr' = [connMgr EXCEPT ![k] = Len(flows) + 1]

\* A new connection; payloads of the last one may have come after its end.
Connect(k) ==
  /\ ~peer[k].open
  /\ opened < MaxSessions
  /\ Prompt => ~Waiting(k) /\ ~Handling(k)
  /\ opened' = opened + 1
  /\ peer' = [peer EXCEPT ![k] = [session |-> opened', open |-> TRUE, req |-> 0]]

\* Mutant: the flow data of an earlier connection is taken over as it is.
ConnectionStartKeep(k) ==
  /\ Connect(k)
  /\ Insert(k)
  /\ UNCHANGED <<queue, hand, sent, stored, damaged>>

\* tcpReassemblyConnectionStartCallback.
ConnectionStart(k) ==
  /\ Connect(k)
  /\ IF connMgr[k] = 0 THEN Insert(k)
     ELSE /\ flows' = [flows EXCEPT ![connMgr[k]] = Fresh]
          /\ UNCHANGED connMgr
  /\ UNCHANGED <<queue, hand, sent, stored, damaged>>

\* The start of the connection is not captured.
ConnectionUnseen(k) ==
  /\ MayLose
  /\ Connect(k)
  /\ damaged' = damaged \cup {opened'}
  /\ UNCHANGED <<connMgr, flows, queue, hand, sent, stored>>

\* Mutant: the entry is erased, though payloads may still come.
ConnectionEndErase(k) ==
  /\ peer[k].open
  /\ peer' = [peer EXCEPT ![k].open = FALSE]
  /\ connMgr' = [connMgr EXCEPT ![k] = 0]
  /\ UNCHANGED <<opened, flows, queue, hand, sent, stored, damaged>>

\* tcpReassemblyConnectionEndCallback: the entry of the map stays, because
\* the last payloads may be reported after the end.
ConnectionEnd(k) ==
  /\ peer[k].open
  /\ peer' = [peer EXCEPT ![k].open = FALSE]
  /\ UNCHANGED <<opened, connMgr, flows, queue, hand, sent, stored, damaged>>

\* The kinds of units that one payload may hold: entries of an answer, with
\* the terminator behind them or not, or what the other side sends meanwhile;
\* or messages.
AnswerParts ==
  {<<"other">>} \cup
  {kinds \in UNION {[1..m -> {"entry", "end"}] : m \in 1..MaxSent} :
     \A i \in 1..Len(kinds) - 1 : kinds[i] = "entry"}

MessageParts ==
  {<<kind>> : kind \in {"msg"} \cup AskingKinds}
    \cup (IF Single THEN {} ELSE {<<"msg", "msg">>, <<"msg", "req">>})

\* What a connection may send next in one payload.
Payloads(k) ==
  LET p == peer[k]
      unit(i, kind) == [session |-> p.session, n |-> Len(sent[p.session]) + i,
                        kind |-> kind, req |-> p.req]
  IN { [i \in 1..Len(kinds) |-> unit(i, kinds[i])] :
         kinds \in IF p.req # 0 THEN AnswerParts ELSE MessageParts }

\* The request that is being answered after a unit.
Answering(u) ==
  CASE u.kind \in AskingKinds        -> u.n
    [] u.kind \in {"entry", "other"} -> u.req
    [] OTHER                         -> 0

Send(k, units) ==
  LET c == peer[k].session IN
  /\ Len(sent[c]) + Len(units) <= MaxSent
  /\ sent' = [sent EXCEPT ![c] = @ \o units]
  /\ peer' = [peer EXCEPT ![k].req = Answering(units[Len(units)])]

\* What makes handle_tcp lose a connection's thread though nothing is missed: it
\* never consults the side of a payload, so a message sent against an answer is
\* decoded as part of it, and it never erases the entries of an account's answer.
Unfollowed == {"account", "brief", "other"}

Spoil(k, units) ==
  damaged' = IF Head(units).kind \in Unfollowed
             THEN damaged \cup {peer[k].session} ELSE damaged

\* Mutant: every payload is given flow data of its own.
MsgReadyOwn(k, units) ==
  /\ Len(queue) < MaxQueued
  /\ Send(k, units)
  /\ flows' = Append(flows, Fresh)
  /\ connMgr' = [connMgr EXCEPT ![k] = Len(flows) + 1]
  /\ queue' = Append(queue, [key |-> k, flow |-> connMgr'[k], units |-> units])
  /\ Spoil(k, units)
  /\ UNCHANGED <<opened, hand, stored>>

\* Mutant: the callback counts on the start having been reported.
MsgReadyNoInsert(k, units) ==
  /\ Len(queue) < MaxQueued
  /\ Send(k, units)
  /\ queue' = Append(queue, [key |-> k, flow |-> connMgr[k], units |-> units])
  /\ Spoil(k, units)
  /\ UNCHANGED <<opened, connMgr, flows, hand, stored>>

\* tcpReassemblyMsgReadyCallback.
MsgReady(k, units) ==
  /\ Len(queue) < MaxQueued
  /\ Send(k, units)
  /\ Insert(k)
  /\ queue' = Append(queue, [key |-> k, flow |-> connMgr'[k], units |-> units])
  /\ Spoil(k, units)
  /\ UNCHANGED <<opened, hand, stored>>

\* The same for a payload with a gap in it, which is dropped.
MsgMissing(k, units) ==
  /\ MayLose
  /\ Send(k, units)
  /\ Insert(k)
  /\ damaged' = damaged \cup {peer[k].session}
  /\ UNCHANGED <<opened, queue, hand, stored>>

Capture ==
  \E k \in Keys :
    \/ ConnectionStart(k) \/ ConnectionUnseen(k) \/ ConnectionEnd(k)
    \/ /\ peer[k].session # 0
       /\ \E units \in Payloads(k) : MsgReady(k, units) \/ MsgMissing(k, units)

----------------------------------------------------------------------------
(* The processing thread. *)

\* What is put for a damaged connection is left out of the history: it may be
\* anything, for its units need not be read as what they are.
Note(unit, as, request) ==
  LET c == unit.session IN
  stored' = IF c \in damaged THEN stored
            ELSE [stored EXCEPT ![c] =
                    Append(@, [unit |-> unit, as |-> as, request |-> request])]

Take ==
  /\ hand = None /\ queue # <<>>
  /\ hand' = [key |-> Head(queue).key, flow |-> Head(queue).flow,
              units |-> Head(queue).units, step |-> "branch"]
  /\ queue' = Tail(queue)
  /\ UNCHANGED <<peer, opened, connMgr, flows, sent, stored, damaged>>

\* In an answer: the payload is added to the flow's data.
Accumulate ==
  /\ hand # None /\ hand.step = "branch"
  /\ flows[hand.flow].type # "none"
  /\ flows' = [flows EXCEPT ![hand.flow].data = @ \o hand.units]
  /\ hand' = [hand EXCEPT !.step = "loop"]
  /\ UNCHANGED <<peer, opened, connMgr, queue, sent, stored, damaged>>

\* Otherwise the payload's first message is parsed and stored, and what
\* follows it in the payload is not looked at.
Message ==
  /\ hand # None /\ hand.step = "branch"
  /\ flows[hand.flow].type = "none"
  /\ LET u == Head(hand.units) IN
       IF u.kind \in {"entry", "end"} THEN UNCHANGED <<flows, stored>>
       ELSE /\ flows' = [flows EXCEPT ![hand.flow] =
                 IF u.kind \notin AskingKinds THEN Fresh
                 ELSE [type |-> IF u.kind = "req" THEN "stream" ELSE u.kind,
                       request |-> <<u.session, u.n>>, data |-> <<>>]]
            /\ Note(u, "message", NoRequest)
  /\ hand' = None
  /\ UNCHANGED <<peer, opened, connMgr, queue, sent, damaged>>

\* Mutant: the entry stays in the flow's data.
EntryKept ==
  /\ hand # None /\ hand.step = "loop"
  /\ LET f == flows[hand.flow] IN
       /\ f.type = "stream"
       /\ f.data # <<>> /\ Head(f.data).kind # "end"
       /\ Note(Head(f.data), "entry", f.request)
  /\ UNCHANGED <<peer, opened, connMgr, flows, queue, hand, sent, damaged>>

\* An entry is put with the flow's request; then the next one is read.
Entry ==
  /\ hand # None /\ hand.step = "loop"
  /\ LET f == flows[hand.flow] IN
       /\ f.type = "stream"
       /\ f.data # <<>> /\ Head(f.data).kind # "end"
       /\ Note(Head(f.data), "entry", f.request)
       /\ flows' = [flows EXCEPT ![hand.flow].data = Tail(@)]
  /\ UNCHANGED <<peer, opened, connMgr, queue, hand, sent, damaged>>

\* A whole entry of an account's answer is put as well, but not erased: the loop
\* reads it again, and never ends.
AccountEntry ==
  /\ hand # None /\ hand.step = "loop"
  /\ LET f == flows[hand.flow] IN
       /\ f.type = "account"
       /\ f.data # <<>> /\ Head(f.data).kind # "end"
       /\ Note(Head(f.data), "entry", f.request)
  /\ UNCHANGED <<peer, opened, connMgr, flows, queue, hand, sent, damaged>>

\* The terminator is put as an event and resets the flow: messages are
\* expected again.  A brief entry lacks one of the fields looked at, which
\* counts as zero, and is taken for the terminator.
EndOfAnswer ==
  /\ hand # None /\ hand.step = "loop"
  /\ LET f == flows[hand.flow] IN
       /\ f.data # <<>>
       /\ Head(f.data).kind = "end" \/ f.type = "brief"
       /\ Note(Head(f.data), "event", NoRequest)
  /\ flows' = [flows EXCEPT ![hand.flow] = Fresh]
  /\ hand' = None
  /\ UNCHANGED <<peer, opened, connMgr, queue, sent, damaged>>

Consumed ==
  /\ hand # None /\ hand.step = "loop"
  /\ flows[hand.flow].data = <<>>
  /\ hand' = None
  /\ UNCHANGED <<peer, opened, connMgr, flows, queue, sent, stored, damaged>>

Process ==
  Take \/ Accumulate \/ Message \/ Entry \/ AccountEntry \/ EndOfAnswer \/ Consumed

Next == Capture \/ Process

Spec == Init /\ [][Next]_vars

----------------------------------------------------------------------------
(* Properties. *)

\* All payloads of a key share the flow data in the map, and no other key does.
FlowsShared ==
  /\ \A i \in 1..Len(queue) : queue[i].flow = connMgr[queue[i].key]
  /\ \A j, k \in Keys : connMgr[j] = connMgr[k] => j = k \/ connMgr[j] = 0
  /\ hand = None \/ hand.flow = connMgr[hand.key]

\* How a unit is stored: an entry with the request it answers, the end of an
\* answer as an event, and anything else as a message.
Row(u) ==
  CASE u.kind = "entry" -> [unit |-> u, as |-> "entry", request |-> <<u.session, u.req>>]
    [] u.kind = "end"   -> [unit |-> u, as |-> "event", request |-> NoRequest]
    [] OTHER            -> [unit |-> u, as |-> "message", request |-> NoRequest]

\* What is stored of a connection that is not damaged is what it was: its
\* messages as messages, and each entry with the request of the same
\* connection that it answers.  Bytes missed in an earlier connection with
\* the same key, or in any other, make no difference, nor do answers that the
\* code cannot follow there.
AnswersBelong ==
  \A c \in Connections \ damaged :
    \A i \in 1..Len(stored[c]) : stored[c][i] = Row(stored[c][i].unit)

Pending(c) ==
  \/ hand # None /\ Head(hand.units).session = c
  \/ \E i \in 1..Len(queue) : Head(queue[i].units).session = c

\* Of a connection that is not damaged everything is stored in the order in
\* which it was sent, nothing twice and nothing skipped, and all of it once
\* no payload of the connection is queued or handled.
StoredAsSent ==
  \A c \in Connections \ damaged :
    /\ Len(stored[c]) <= Len(sent[c])
    /\ \A i \in 1..Len(stored[c]) : stored[c][i].unit = sent[c][i]
    /\ ~Pending(c) => Len(stored[c]) = Len(sent[c])

Log == INSTANCE ConnectionLog WITH rows <- stored, lost <- damaged,
                                   RowOf <- [u \in Units |-> Row(u)]

\* The map, the queue and the branches of handle_tcp do what ConnectionLog says
\* of each connection by itself: rows are only ever added, one at a time, each
\* the row of the next unit of its connection.
ImplementsLog == Log!LogSpec

=============================================================================
