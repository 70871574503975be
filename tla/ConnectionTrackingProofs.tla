---------------------- MODULE ConnectionTrackingProofs ----------------------
(***************************************************************************)
(* Proofs about ConnectionTracking, for any set of flow keys, any number   *)
(* of connections and any bounds: types and the sharing of flow data       *)
(* (IInv), whatever is lost and however keys are reused; and, for keys     *)
(* that are reused only when their payloads have been handled, what is     *)
(* stored and the implementation of ConnectionLog (DInv), which says how   *)
(* far each connection is decoded and what the queue and the hand hold of  *)
(* it.                                                                     *)
(***************************************************************************)
EXTENDS ConnectionTracking, TLAPS

\* The two halves of the types: connections and histories, flow data and queue.
HistoryType ==
  /\ peer \in [Keys -> Peers] /\ opened \in 0..MaxSessions
  /\ sent \in [Connections -> Seq(Units)]
  /\ stored \in [Connections -> Seq(Rows)]
  /\ damaged \subseteq Connections

FlowType ==
  /\ flows \in Seq(Flows) /\ connMgr \in [Keys -> 0..Len(flows)]
  /\ queue \in Seq(Queued) /\ \A i \in 1..Len(queue) : queue[i].flow <= Len(flows)
  /\ hand = None \/ (hand \in Hands /\ hand.flow <= Len(flows))

IInv == TypeOK /\ FlowsShared

LEMMA TypeHalves == TypeOK <=> HistoryType /\ FlowType
BY DEF TypeOK, HistoryType, FlowType

\* The same after a step, with the flow data shared as it should be.
LEMMA HalvesNext == HistoryType' /\ FlowType' /\ FlowsShared' => IInv'
BY DEF IInv, TypeOK, HistoryType, FlowType

----------------------------------------------------------------------------
(* Sequences, payloads and flow data.                                      *)

\* A function on 1..n is a sequence of that length.
LEMMA FunctionIsSeq ==
  ASSUME NEW S, NEW n \in Nat, NEW f \in [1..n -> S]
  PROVE  f \in Seq(S) /\ Len(f) = n
OBVIOUS

\* A sequence with an element replaced is one of the same length.
LEMMA AssignedInPlace ==
  ASSUME NEW S, NEW s \in Seq(S), NEW i \in Nat, NEW v \in S
  PROVE  [s EXCEPT ![i] = v] \in Seq(S) /\ Len([s EXCEPT ![i] = v]) = Len(s)
<1>. DEFINE t == [s EXCEPT ![i] = v]
<1>1. s \in [1..Len(s) -> S] /\ Len(s) \in Nat
  OBVIOUS
<1>2. t \in [1..Len(s) -> S]
  BY <1>1
<1>. HIDE DEF t
<1>3. t \in Seq(S) /\ Len(t) = Len(s)
  BY <1>1, <1>2, FunctionIsSeq
<1>. QED BY <1>3 DEF t

\* What is appended comes last.
LEMMA AppendedLast ==
  ASSUME NEW S, NEW s \in Seq(S), NEW e \in S
  PROVE  /\ Len(Append(s, e)) = Len(s) + 1 /\ Len(s) \in Nat
         /\ \A i \in 1..Len(s) : Append(s, e)[i] = s[i]
         /\ Append(s, e)[Len(s) + 1] = e
         /\ \A i \in 1..Len(s) + 1 : i \in 1..Len(s) \/ i = Len(s) + 1
OBVIOUS

\* The kinds of messages, of either side.
Messages == {"msg"} \cup AskingKinds

\* A message is followed only by messages, an entry by entries and the
\* terminator, and nothing follows a request or a terminator.  What makes the
\* connection lose its thread is alone in its payload.
LEMMA PartsShaped ==
  /\ \A kinds \in AnswerParts :
       /\ kinds \in Seq(AnswerKinds) /\ Len(kinds) \in Nat \ {0}
       /\ \A i \in 1..Len(kinds) : i < Len(kinds) => kinds[i] = "entry"
       /\ \A i \in 1..Len(kinds) : kinds[i] \in Unfollowed => i = 1
  /\ \A kinds \in MessageParts :
       /\ kinds \in Seq(Messages) /\ Len(kinds) \in Nat \ {0}
       /\ \A i \in 1..Len(kinds) : i < Len(kinds) => kinds[i] = "msg"
       /\ \A i \in 1..Len(kinds) : kinds[i] \in Unfollowed => i = 1
       /\ Single => Len(kinds) = 1
<1>1. ASSUME NEW kinds \in AnswerParts
      PROVE  /\ kinds \in Seq(AnswerKinds) /\ Len(kinds) \in Nat \ {0}
             /\ \A i \in 1..Len(kinds) : i < Len(kinds) => kinds[i] = "entry"
             /\ \A i \in 1..Len(kinds) : kinds[i] \in Unfollowed => i = 1
  <2>1. CASE kinds = <<"other">>
    <3>1. "other" \in AnswerKinds
      BY DEF AnswerKinds
    <3>. QED BY <2>1, <3>1
  <2>2. CASE kinds # <<"other">>
    <3>0. kinds \in {ks \in UNION {[1..m -> {"entry", "end"}] : m \in 1..MaxSent} :
                      \A i \in 1..Len(ks) - 1 : ks[i] = "entry"}
      BY <2>2, Zenon DEF AnswerParts
    <3>1. PICK m \in 1..MaxSent : kinds \in [1..m -> {"entry", "end"}]
      BY <3>0
    <3>2. m \in Nat \ {0}
      BY <3>1, ConnectionTrackingAssumption
    <3>3. kinds \in Seq({"entry", "end"}) /\ Len(kinds) = m
      BY <3>1, <3>2, FunctionIsSeq
    <3>4. \A i \in 1..Len(kinds) - 1 : kinds[i] = "entry"
      BY <3>0
    <3>5. \A i \in 1..Len(kinds) : kinds[i] \in AnswerKinds /\ kinds[i] \notin Unfollowed
      BY <3>3 DEF AnswerKinds, Unfollowed
    <3>6. kinds \in Seq(AnswerKinds)
      BY <3>1, <3>2, <3>3, <3>5, FunctionIsSeq
    <3>. QED BY <3>2, <3>3, <3>4, <3>5, <3>6
  <2>. QED BY <2>1, <2>2
<1>2. ASSUME NEW kinds \in MessageParts
      PROVE  /\ kinds \in Seq(Messages) /\ Len(kinds) \in Nat \ {0}
             /\ \A i \in 1..Len(kinds) : i < Len(kinds) => kinds[i] = "msg"
             /\ \A i \in 1..Len(kinds) : kinds[i] \in Unfollowed => i = 1
             /\ Single => Len(kinds) = 1
  <2>1. CASE \E a \in Messages : kinds = <<a>>
    <3>1. PICK a \in Messages : kinds = <<a>>
      BY <2>1
    <3>2. kinds \in Seq(Messages) /\ Len(kinds) = 1
      BY <3>1
    <3>. QED BY <3>2
  <2>2. CASE ~Single /\ \E b \in {"msg", "req"} : kinds = <<"msg", b>>
    <3>1. PICK b \in {"msg", "req"} : kinds = <<"msg", b>>
      BY <2>2
    <3>2. b \in Messages /\ "msg" \in Messages /\ b \notin Unfollowed
      BY <3>1 DEF Messages, AskingKinds, Unfollowed
    <3>3. kinds \in Seq(Messages) /\ Len(kinds) = 2 /\ kinds[1] = "msg" /\ kinds[2] = b
      BY <3>1, <3>2
    <3>. QED BY <2>2, <3>2, <3>3
  <2>3. \/ \E a \in Messages : kinds = <<a>>
        \/ ~Single /\ \E b \in {"msg", "req"} : kinds = <<"msg", b>>
    <3>1. \/ kinds \in {<<kind>> : kind \in Messages}
          \/ ~Single /\ kinds \in {<<"msg", "msg">>, <<"msg", "req">>}
      <4>1. CASE Single
        BY <4>1, Zenon DEF MessageParts, Messages
      <4>2. CASE ~Single
        BY <4>2, Zenon DEF MessageParts, Messages
      <4>. QED BY <4>1, <4>2
    <3>. QED BY <3>1, Zenon
  <2>. QED BY <2>1, <2>2, <2>3
<1>. QED BY <1>1, <1>2

\* What a connection sends next continues what it has sent.
Continues(c, s, r, units) ==
  /\ Len(units) \in Nat \ {0}
  /\ \A i \in 1..Len(units) :
       /\ units[i].session = c /\ units[i].n = Len(s) + i /\ units[i].req = r
       /\ units[i].kind \in AnswerKinds <=> r # 0
       /\ i < Len(units) => units[i].kind \in {"msg", "entry"}
       /\ units[i].kind \in Unfollowed => i = 1
  /\ Single /\ r = 0 => Len(units) = 1

LEMMA PayloadsTyped ==
  ASSUME TypeOK, NEW k \in Keys, peer[k].session # 0,
         NEW units \in Payloads(k), Send(k, units)
  PROVE  /\ units \in Parts
         /\ Continues(peer[k].session, sent[peer[k].session], peer[k].req, units)
<1>. DEFINE c == peer[k].session
            r == peer[k].req
            at == Len(sent[c])
            unit(i, kind) == [session |-> c, n |-> at + i, kind |-> kind, req |-> r]
            of(kinds) == [i \in 1..Len(kinds) |-> unit(i, kinds[i])]
<1>1. c \in Connections /\ r \in 0..MaxSent /\ at \in Nat /\ MaxSent \in Nat
  <2>1. peer[k] \in Peers /\ sent \in [Connections -> Seq(Units)]
    BY DEF TypeOK
  <2>2. c \in Connections /\ r \in 0..MaxSent
    BY <2>1 DEF Peers, Connections
  <2>3. sent[c] \in Seq(Units)
    BY <2>1, <2>2
  <2>. QED BY <2>2, <2>3, ConnectionTrackingAssumption
<1>2. PICK kinds \in IF r # 0 THEN AnswerParts ELSE MessageParts : units = of(kinds)
  BY Zenon DEF Payloads
<1>3. /\ kinds \in Seq(Kinds) /\ Len(kinds) \in Nat \ {0}
      /\ \A i \in 1..Len(kinds) : kinds[i] \in AnswerKinds <=> r # 0
      /\ \A i \in 1..Len(kinds) : i < Len(kinds) => kinds[i] \in {"msg", "entry"}
      /\ \A i \in 1..Len(kinds) : kinds[i] \in Unfollowed => i = 1
      /\ Single /\ r = 0 => Len(kinds) = 1
  <2>1. CASE r # 0
    <3>1. kinds \in AnswerParts
      BY <1>2, <2>1
    <3>2. /\ kinds \in Seq(AnswerKinds) /\ Len(kinds) \in Nat \ {0}
          /\ \A i \in 1..Len(kinds) : i < Len(kinds) => kinds[i] = "entry"
          /\ \A i \in 1..Len(kinds) : kinds[i] \in Unfollowed => i = 1
      BY <3>1, PartsShaped
    <3>3. AnswerKinds \subseteq Kinds
      BY DEF AnswerKinds, Kinds
    <3>. QED BY <2>1, <3>2, <3>3
  <2>2. CASE r = 0
    <3>1. kinds \in MessageParts
      BY <1>2, <2>2
    <3>2. /\ kinds \in Seq(Messages) /\ Len(kinds) \in Nat \ {0}
          /\ \A i \in 1..Len(kinds) : i < Len(kinds) => kinds[i] = "msg"
          /\ \A i \in 1..Len(kinds) : kinds[i] \in Unfollowed => i = 1
          /\ Single => Len(kinds) = 1
      BY <3>1, PartsShaped
    <3>3. \A x \in Messages : x \in Kinds /\ x \notin AnswerKinds
      BY DEF AnswerKinds, Kinds, Messages, AskingKinds
    <3>. QED BY <2>2, <3>2, <3>3
  <2>. QED BY <2>1, <2>2
<1>. HIDE DEF c, r, at
<1>. DEFINE AnyUnit == [session : Connections, n : Nat, kind : Kinds, req : 0..MaxSent]
<1>4. \A i \in 1..Len(kinds) : unit(i, kinds[i]) \in AnyUnit
  <2>. SUFFICES ASSUME NEW i \in 1..Len(kinds)
                PROVE  unit(i, kinds[i]) \in AnyUnit
    OBVIOUS
  <2>1. kinds[i] \in Kinds /\ at + i \in Nat
    BY <1>1, <1>3
  <2>. QED BY <1>1, <2>1
<1>5. units \in [1..Len(kinds) -> AnyUnit] /\ \A i \in 1..Len(kinds) : units[i] = unit(i, kinds[i])
  BY <1>2, <1>4
<1>6. units \in Seq(AnyUnit) /\ Len(units) = Len(kinds)
  <2>. HIDE DEF AnyUnit
  <2>1. Len(kinds) \in Nat /\ units \in [1..Len(kinds) -> AnyUnit]
    BY <1>3, <1>5
  <2>. QED BY <2>1, FunctionIsSeq
<1>7. at + Len(units) <= MaxSent
  BY DEF Send, at, c
<1>8. \A i \in 1..Len(kinds) : units[i] \in Units
  <2>. SUFFICES ASSUME NEW i \in 1..Len(kinds)
                PROVE  units[i] \in Units
    OBVIOUS
  <2>1. at + i \in 1..MaxSent
    BY <1>1, <1>3, <1>6, <1>7
  <2>2. kinds[i] \in Kinds
    BY <1>3
  <2>. QED BY <1>1, <1>5, <2>1, <2>2 DEF Units
<1>9. units \in Seq(Units)
  <2>1. units \in [1..Len(kinds) -> Units]
    BY <1>5, <1>8
  <2>. QED BY <1>3, <2>1, FunctionIsSeq
<1>10. units \in Parts
  BY <1>3, <1>6, <1>9 DEF Parts
<1>11. Continues(c, sent[c], r, units)
  BY <1>3, <1>5, <1>6 DEF Continues, at
<1>. QED BY <1>10, <1>11 DEF c, r

\* The history of what was sent grows by what is sent, and the connection
\* remembers the request it answers.
LEMMA SendTyped ==
  ASSUME TypeOK, NEW k \in Keys, peer[k].session # 0,
         NEW units \in Payloads(k), Send(k, units)
  PROVE  /\ peer' \in [Keys -> Peers]
         /\ sent' \in [Connections -> Seq(Units)]
         /\ peer[k].session \in Connections
         /\ peer'[k].session = peer[k].session
         /\ peer'[k].req = Answering(units[Len(units)])
         /\ \A j \in Keys \ {k} : peer'[j] = peer[j]
         /\ sent'[peer[k].session] = sent[peer[k].session] \o units
         /\ \A c \in Connections \ {peer[k].session} : sent'[c] = sent[c]
<1>. DEFINE c == peer[k].session
<1>1. units \in Seq(Units) /\ Len(units) \in Nat \ {0}
  BY PayloadsTyped DEF Parts, Continues
<1>2. peer \in [Keys -> Peers] /\ peer[k] \in Peers /\ sent \in [Connections -> Seq(Units)]
  BY DEF TypeOK
<1>3. c \in Connections /\ peer[k].req \in 0..MaxSent
  BY <1>2 DEF Peers, Connections
<1>4. Answering(units[Len(units)]) \in 0..MaxSent
  <2>. DEFINE u == units[Len(units)]
  <2>1. u \in Units
    BY <1>1
  <2>2. u.n \in 0..MaxSent /\ u.req \in 0..MaxSent /\ 0 \in 0..MaxSent
    BY <2>1, ConnectionTrackingAssumption DEF Units
  <2>. HIDE DEF u
  <2>3. Answering(u) \in {u.n, u.req, 0}
    <3>1. CASE u.kind \in AskingKinds
      BY <3>1 DEF Answering, AskingKinds
    <3>2. CASE u.kind \in {"entry", "other"}
      BY <3>2 DEF Answering, AskingKinds
    <3>3. CASE u.kind \notin AskingKinds /\ u.kind \notin {"entry", "other"}
      BY <3>3 DEF Answering
    <3>. QED BY <3>1, <3>2, <3>3
  <2>4. Answering(u) \in 0..MaxSent
    BY <2>2, <2>3
  <2>. QED BY <2>4 DEF u
<1>5. peer' = [peer EXCEPT ![k] = [peer[k] EXCEPT !.req = Answering(units[Len(units)])]]
  BY DEF Send
<1>6. [peer[k] EXCEPT !.req = Answering(units[Len(units)])] \in Peers
  BY <1>2, <1>4 DEF Peers
<1>7. sent' = [sent EXCEPT ![c] = sent[c] \o units]
  BY DEF Send
<1>8. sent[c] \o units \in Seq(Units)
  BY <1>1, <1>2, <1>3
<1>9. /\ peer' \in [Keys -> Peers]
      /\ peer'[k].session = peer[k].session
      /\ peer'[k].req = Answering(units[Len(units)])
      /\ \A j \in Keys \ {k} : peer'[j] = peer[j]
  <2>1. peer' \in [Keys -> Peers] /\ \A j \in Keys \ {k} : peer'[j] = peer[j]
    BY <1>2, <1>5, <1>6
  <2>2. peer'[k] = [peer[k] EXCEPT !.req = Answering(units[Len(units)])]
    BY <1>2, <1>5
  <2>3. /\ [peer[k] EXCEPT !.req = Answering(units[Len(units)])].session = peer[k].session
        /\ [peer[k] EXCEPT !.req = Answering(units[Len(units)])].req = Answering(units[Len(units)])
    BY <1>2 DEF Peers
  <2>. QED BY <2>1, <2>2, <2>3
<1>10. /\ sent' \in [Connections -> Seq(Units)]
       /\ sent'[c] = sent[c] \o units
       /\ \A d \in Connections \ {c} : sent'[d] = sent[d]
  <2>. HIDE DEF c
  <2>. QED BY <1>2, <1>3, <1>7, <1>8
<1>. QED BY <1>3, <1>9, <1>10

\* A new connection has the next number.
LEMMA ConnectTyped ==
  ASSUME TypeOK, NEW k \in Keys, Connect(k)
  PROVE  /\ peer' \in [Keys -> Peers] /\ opened' \in Connections
         /\ opened' = opened + 1
         /\ peer'[k].session = opened' /\ peer'[k].req = 0
         /\ \A j \in Keys \ {k} : peer'[j] = peer[j]
<1>1. peer \in [Keys -> Peers] /\ opened \in 0..MaxSessions /\ MaxSessions \in Nat /\ MaxSent \in Nat
  BY ConnectionTrackingAssumption DEF TypeOK
<1>2. opened' = opened + 1 /\ opened < MaxSessions
      /\ peer' = [peer EXCEPT ![k] = [session |-> opened', open |-> TRUE, req |-> 0]]
  BY DEF Connect
<1>3. opened' \in Connections
  BY <1>1, <1>2 DEF Connections
<1>4. [session |-> opened', open |-> TRUE, req |-> 0] \in Peers
  BY <1>1, <1>3 DEF Peers, Connections
<1>. QED BY <1>1, <1>2, <1>3, <1>4

\* What is noted is a row, behind those of its connection.
LEMMA NoteTyped ==
  ASSUME TypeOK, NEW u \in Units, NEW as \in {"message", "entry", "event"},
         NEW request \in Requests, Note(u, as, request)
  PROVE  /\ stored' \in [Connections -> Seq(Rows)]
         /\ \A c \in Connections :
              stored'[c] = IF c = u.session /\ c \notin damaged
                           THEN Append(stored[c], [unit |-> u, as |-> as, request |-> request])
                           ELSE stored[c]
<1>. DEFINE row == [unit |-> u, as |-> as, request |-> request]
            c == u.session
<1>1. row \in Rows /\ c \in Connections /\ stored \in [Connections -> Seq(Rows)]
  BY DEF Rows, Units, TypeOK
<1>2. stored' = IF c \in damaged THEN stored ELSE [stored EXCEPT ![c] = Append(stored[c], row)]
  BY DEF Note
<1>. HIDE DEF row, c
<1>3. Append(stored[c], row) \in Seq(Rows)
  BY <1>1
<1>4. /\ stored' \in [Connections -> Seq(Rows)]
      /\ \A d \in Connections :
           stored'[d] = IF d = c /\ d \notin damaged THEN Append(stored[d], row) ELSE stored[d]
  <2>1. CASE c \in damaged
    BY <1>1, <1>2, <2>1
  <2>2. CASE c \notin damaged
    BY <1>1, <1>2, <1>3, <2>2
  <2>. QED BY <2>1, <2>2
<1>. QED BY <1>4 DEF row, c

\* Flow data as the code assigns it is flow data.
LEMMA FreshTyped ==
  /\ Fresh \in Flows
  /\ \A u \in Units, type \in {"stream", "account", "brief"} :
       [type |-> type, request |-> <<u.session, u.n>>, data |-> <<>>] \in Flows
<1>1. MaxSessions \in Nat /\ MaxSent \in Nat
  BY ConnectionTrackingAssumption
<1>2. <<>> \in Seq(Units) /\ NoRequest \in Requests
  BY <1>1 DEF NoRequest, Requests
<1>3. \A u \in Units : <<u.session, u.n>> \in Requests
  BY <1>1 DEF Requests, Units, Connections
<1>. QED BY <1>2, <1>3 DEF Fresh, Flows

\* The key's entry, made if there was none, is its own.
LEMMA InsertKeeps ==
  ASSUME IInv, NEW k \in Keys, Insert(k)
  PROVE  /\ flows' \in Seq(Flows) /\ connMgr' \in [Keys -> 0..Len(flows')]
         /\ Len(flows) <= Len(flows') /\ \A i \in 1..Len(flows) : flows'[i] = flows[i]
         /\ connMgr'[k] # 0
         /\ connMgr[k] # 0 => connMgr'[k] = connMgr[k]
         /\ connMgr[k] = 0 => flows'[connMgr'[k]] = Fresh
         /\ \A j \in Keys \ {k} : connMgr'[j] = connMgr[j]
         /\ \A i, j \in Keys : connMgr'[i] = connMgr'[j] => i = j \/ connMgr'[i] = 0
<1>1. /\ flows \in Seq(Flows) /\ connMgr \in [Keys -> 0..Len(flows)] /\ Len(flows) \in Nat
      /\ \A i, j \in Keys : connMgr[i] = connMgr[j] => i = j \/ connMgr[i] = 0
  BY DEF IInv, TypeOK, FlowsShared
<1>2. CASE connMgr[k] # 0
  BY <1>1, <1>2 DEF Insert
<1>3. CASE connMgr[k] = 0
  <2>1. flows' = Append(flows, Fresh) /\ connMgr' = [connMgr EXCEPT ![k] = Len(flows) + 1]
    BY <1>3 DEF Insert
  <2>2. /\ flows' \in Seq(Flows) /\ Len(flows') = Len(flows) + 1
        /\ \A i \in 1..Len(flows) : flows'[i] = flows[i]
        /\ flows'[Len(flows) + 1] = Fresh
    BY <1>1, <2>1, FreshTyped
  <2>3. /\ connMgr'[k] = Len(flows) + 1
        /\ \A j \in Keys \ {k} : connMgr'[j] = connMgr[j] /\ connMgr[j] \in 0..Len(flows)
    BY <1>1, <2>1
  <2>4. connMgr' \in [Keys -> 0..Len(flows')]
    BY <1>1, <2>1, <2>2
  <2>. QED BY <1>1, <1>3, <2>2, <2>3, <2>4
<1>. QED BY <1>2, <1>3

\* A step that changes flow data only in place, and keeps what is queued.
LEMMA KeptInPlace ==
  ASSUME IInv, HistoryType', flows' \in Seq(Flows), Len(flows') = Len(flows),
         UNCHANGED <<connMgr, queue>>,
         \/ hand' = None
         \/ hand' \in Hands /\ hand # None /\ hand'.key = hand.key /\ hand'.flow = hand.flow
  PROVE  IInv'
<1>1. FlowType'
  BY DEF IInv, TypeOK, FlowType, None
<1>2. FlowsShared'
  BY DEF IInv, FlowsShared
<1>. QED BY <1>1, <1>2, HalvesNext

\* Every payload in the queue is one, and has the flow data of its key.
LEMMA QueuedTyped ==
  ASSUME IInv, NEW i \in 1..Len(queue)
  PROVE  /\ queue[i] \in Queued /\ queue[i].key \in Keys /\ queue[i].units \in Parts
         /\ queue[i].flow = connMgr[queue[i].key] /\ connMgr[queue[i].key] # 0
         /\ queue[i].flow \in 1..Len(flows)
<1>1. queue \in Seq(Queued)
  BY DEF IInv, TypeOK
<1>2. queue[i] \in Queued
  BY <1>1
<1>3. queue[i].key \in Keys /\ queue[i].units \in Parts /\ queue[i].flow \in Nat \ {0}
  BY <1>2 DEF Queued
<1>4. queue[i].flow = connMgr[queue[i].key] /\ queue[i].flow <= Len(flows)
  BY DEF IInv, TypeOK, FlowsShared
<1>5. Len(flows) \in Nat
  BY DEF IInv, TypeOK
<1>. QED BY <1>2, <1>3, <1>4, <1>5

\* What handle_tcp works on has flow data.
LEMMA InHand ==
  ASSUME IInv, hand # None
  PROVE  /\ hand \in Hands /\ hand.key \in Keys /\ hand.units \in Parts
         /\ hand.flow = connMgr[hand.key] /\ connMgr[hand.key] # 0
         /\ hand.flow \in 1..Len(flows) /\ flows[hand.flow] \in Flows
<1>1. hand \in Hands /\ hand.flow <= Len(flows) /\ flows \in Seq(Flows) /\ Len(flows) \in Nat
  BY DEF IInv, TypeOK
<1>2. hand.key \in Keys /\ hand.units \in Parts /\ hand.flow \in Nat \ {0}
  BY <1>1 DEF Hands
<1>3. hand.flow = connMgr[hand.key]
  BY DEF IInv, FlowsShared
<1>. QED BY <1>1, <1>2, <1>3

\* A payload queued with the key's flow data: those before it keep their places.
LEMMA Behind ==
  ASSUME IInv, NEW k \in Keys, NEW units \in Parts, NEW f \in Nat \ {0},
         queue' = Append(queue, [key |-> k, flow |-> f, units |-> units])
  PROVE  /\ queue' \in Seq(Queued) /\ Len(queue) \in Nat /\ Len(queue') = Len(queue) + 1
         /\ \A i \in 1..Len(queue) : queue'[i] = queue[i]
         /\ queue'[Len(queue) + 1].key = k
         /\ queue'[Len(queue) + 1].flow = f
         /\ queue'[Len(queue) + 1].units = units
         /\ \A i \in 1..Len(queue') : i \in 1..Len(queue) \/ i = Len(queue) + 1
<1>. DEFINE q == [key |-> k, flow |-> f, units |-> units]
<1>1. q \in Queued /\ q.key = k /\ q.flow = f /\ q.units = units
  BY DEF Queued
<1>2. queue' = Append(queue, q) /\ queue \in Seq(Queued)
  BY DEF IInv, TypeOK
<1>. HIDE DEF q
<1>. QED BY <1>1, <1>2

\* The key gets an entry, and a payload of the key is queued or dropped.
LEMMA KeptByInsert ==
  ASSUME IInv, HistoryType', NEW k \in Keys, Insert(k), hand' = hand,
         \/ queue' = queue
         \/ \E units \in Parts :
              queue' = Append(queue, [key |-> k, flow |-> connMgr'[k], units |-> units])
  PROVE  IInv'
<1>1. /\ flows' \in Seq(Flows) /\ connMgr' \in [Keys -> 0..Len(flows')]
      /\ Len(flows) <= Len(flows') /\ Len(flows) \in Nat /\ Len(flows') \in Nat
      /\ connMgr'[k] # 0
      /\ connMgr[k] # 0 => connMgr'[k] = connMgr[k]
      /\ \A j \in Keys \ {k} : connMgr'[j] = connMgr[j]
      /\ \A i, j \in Keys : connMgr'[i] = connMgr'[j] => i = j \/ connMgr'[i] = 0
  <2>1. flows \in Seq(Flows)
    BY DEF IInv, TypeOK
  <2>2. flows' \in Seq(Flows)
    BY InsertKeeps
  <2>. QED BY <2>1, <2>2, InsertKeeps
<1>2. \A j \in Keys : connMgr[j] # 0 => connMgr'[j] = connMgr[j]
  BY <1>1
<1>3. connMgr'[k] \in Nat \ {0} /\ connMgr'[k] <= Len(flows')
  BY <1>1
<1>4. \A i \in 1..Len(queue) :
        /\ queue[i].flow = connMgr'[queue[i].key] /\ queue[i].flow <= Len(flows')
  BY <1>1, <1>2, QueuedTyped
<1>5. /\ queue' \in Seq(Queued)
      /\ \A i \in 1..Len(queue') :
           queue'[i].flow = connMgr'[queue'[i].key] /\ queue'[i].flow <= Len(flows')
  <2>1. CASE queue' = queue
    BY <1>4, <2>1 DEF IInv, TypeOK
  <2>2. CASE \E units \in Parts :
               queue' = Append(queue, [key |-> k, flow |-> connMgr'[k], units |-> units])
    <3>1. PICK units \in Parts :
            queue' = Append(queue, [key |-> k, flow |-> connMgr'[k], units |-> units])
      BY <2>2
    <3>. QED BY <1>3, <1>4, <3>1, Behind
  <2>. QED BY <2>1, <2>2
<1>6. hand = None \/ (hand \in Hands /\ hand.flow <= Len(flows') /\ hand.flow = connMgr'[hand.key])
  BY <1>1, <1>2, InHand
<1>7. FlowType'
  BY <1>1, <1>5, <1>6 DEF FlowType, None
<1>8. FlowsShared'
  BY <1>1, <1>5, <1>6 DEF FlowsShared
<1>. QED BY <1>7, <1>8, HalvesNext

----------------------------------------------------------------------------
(* What each action does, step by step.                                    *)

\* The start of a connection is seen: the key has flow data as at the start.
LEMMA Started ==
  ASSUME IInv, NEW k \in Keys, ConnectionStart(k)
  PROVE  /\ IInv'
         /\ connMgr'[k] # 0 /\ flows'[connMgr'[k]] = Fresh
         /\ \A j \in Keys \ {k} : /\ connMgr'[j] = connMgr[j]
                                  /\ connMgr[j] # 0 => flows'[connMgr[j]] = flows[connMgr[j]]
<1>1. HistoryType'
  <2>1. HistoryType /\ UNCHANGED <<sent, stored, damaged>> /\ Connect(k)
    BY TypeHalves DEF IInv, ConnectionStart
  <2>2. peer' \in [Keys -> Peers] /\ opened' \in 0..MaxSessions
    BY <2>1, ConnectTyped, ConnectionTrackingAssumption DEF IInv, Connections
  <2>. QED BY <2>1, <2>2 DEF HistoryType
<1>2. /\ flows \in Seq(Flows) /\ connMgr \in [Keys -> 0..Len(flows)] /\ Len(flows) \in Nat
      /\ \A i, j \in Keys : connMgr[i] = connMgr[j] => i = j \/ connMgr[i] = 0
  BY DEF IInv, TypeOK, FlowsShared
<1>3. CASE connMgr[k] = 0
  <2>1. Insert(k) /\ hand' = hand /\ queue' = queue
    BY <1>3 DEF ConnectionStart
  <2>. QED BY <1>1, <1>2, <1>3, <2>1, KeptByInsert, InsertKeeps
<1>4. CASE connMgr[k] # 0
  <2>1. /\ flows' = [flows EXCEPT ![connMgr[k]] = Fresh]
        /\ UNCHANGED <<connMgr, queue>> /\ hand' = hand
    BY <1>4 DEF ConnectionStart
  <2>2. flows' \in Seq(Flows) /\ Len(flows') = Len(flows)
    BY <1>2, <2>1, FreshTyped, AssignedInPlace
  <2>3. hand' = None \/ (hand' \in Hands /\ hand # None)
    BY <2>1 DEF IInv, TypeOK
  <2>4. IInv'
    BY <1>1, <2>1, <2>2, <2>3, KeptInPlace
  <2>5. connMgr[k] \in 1..Len(flows)
    BY <1>2, <1>4
  <2>. QED BY <1>2, <1>4, <2>1, <2>4, <2>5
<1>. QED BY <1>3, <1>4

\* The start of a connection is not seen.
LEMMA Unseen ==
  ASSUME IInv, NEW k \in Keys, ConnectionUnseen(k)
  PROVE  IInv'
<1>1. HistoryType'
  <2>1. /\ HistoryType /\ UNCHANGED <<sent, stored>> /\ Connect(k)
        /\ damaged' = damaged \cup {opened'}
    BY TypeHalves DEF IInv, ConnectionUnseen
  <2>2. peer' \in [Keys -> Peers] /\ opened' \in 0..MaxSessions /\ opened' \in Connections
    BY <2>1, ConnectTyped, ConnectionTrackingAssumption DEF IInv, Connections
  <2>. QED BY <2>1, <2>2 DEF HistoryType
<1>2. UNCHANGED <<connMgr, flows, queue, hand>>
  BY DEF ConnectionUnseen
<1>3. flows \in Seq(Flows) /\ (hand' = None \/ (hand' \in Hands /\ hand # None))
  BY <1>2 DEF IInv, TypeOK
<1>. QED BY <1>1, <1>2, <1>3, KeptInPlace

\* The end of a connection changes nothing but what the peer does next.
LEMMA Ended ==
  ASSUME IInv, NEW k \in Keys, ConnectionEnd(k)
  PROVE  /\ IInv'
         /\ \A j \in Keys : peer'[j].session = peer[j].session /\ peer'[j].req = peer[j].req
<1>1. peer \in [Keys -> Peers] /\ HistoryType
  BY TypeHalves DEF IInv, TypeOK
<1>2. peer' = [peer EXCEPT ![k] = [peer[k] EXCEPT !.open = FALSE]]
      /\ UNCHANGED <<opened, connMgr, flows, queue, hand, sent, stored, damaged>>
  BY DEF ConnectionEnd
<1>3. /\ [peer[k] EXCEPT !.open = FALSE] \in Peers
      /\ [peer[k] EXCEPT !.open = FALSE].session = peer[k].session
      /\ [peer[k] EXCEPT !.open = FALSE].req = peer[k].req
  BY <1>1 DEF Peers
<1>4. /\ peer' \in [Keys -> Peers]
      /\ \A j \in Keys : peer'[j].session = peer[j].session /\ peer'[j].req = peer[j].req
  BY <1>1, <1>2, <1>3
<1>5. HistoryType'
  BY <1>1, <1>2, <1>4 DEF HistoryType
<1>6. flows \in Seq(Flows) /\ (hand' = None \/ (hand' \in Hands /\ hand # None))
  BY <1>2 DEF IInv, TypeOK
<1>. QED BY <1>2, <1>4, <1>5, <1>6, KeptInPlace

\* A payload is queued, or dropped because of a gap.
LEMMA PayloadTyped ==
  ASSUME IInv, NEW k \in Keys, peer[k].session # 0, NEW units \in Payloads(k),
         MsgReady(k, units) \/ MsgMissing(k, units)
  PROVE  IInv'
<1>1. units \in Parts /\ TypeOK /\ HistoryType
  BY PayloadsTyped, TypeHalves DEF IInv, MsgReady, MsgMissing
<1>2. Send(k, units) /\ Insert(k) /\ hand' = hand /\ UNCHANGED <<opened, stored>>
  BY DEF MsgReady, MsgMissing
<1>3. peer' \in [Keys -> Peers] /\ sent' \in [Connections -> Seq(Units)] /\ peer[k].session \in Connections
  BY <1>1, <1>2, SendTyped
<1>4. damaged' = damaged \/ damaged' = damaged \cup {peer[k].session}
  BY DEF MsgReady, MsgMissing, Spoil
<1>5. HistoryType'
  BY <1>1, <1>2, <1>3, <1>4 DEF HistoryType
<1>6. \/ queue' = queue
      \/ queue' = Append(queue, [key |-> k, flow |-> connMgr'[k], units |-> units])
  BY DEF MsgReady, MsgMissing
<1>. QED BY <1>1, <1>2, <1>5, <1>6, KeptByInsert

\* The payload taken is the first, and keeps the flow data it was queued with.
LEMMA Taken ==
  ASSUME IInv, Take
  PROVE  /\ IInv'
         /\ Len(queue) \in Nat \ {0} /\ Len(queue') = Len(queue) - 1
         /\ \A i \in 1..Len(queue') : queue'[i] = queue[i + 1] /\ i + 1 \in 1..Len(queue)
         /\ hand' # None /\ hand'.key = queue[1].key /\ hand'.units = queue[1].units
         /\ hand'.step = "branch"
<1>1. /\ queue # <<>> /\ queue' = Tail(queue)
      /\ hand' = [key |-> Head(queue).key, flow |-> Head(queue).flow,
                  units |-> Head(queue).units, step |-> "branch"]
      /\ UNCHANGED <<peer, opened, connMgr, flows, sent, stored, damaged>>
  BY DEF Take
<1>2. queue \in Seq(Queued)
  BY DEF IInv, TypeOK
<1>3. /\ Len(queue) \in Nat \ {0} /\ Head(queue) = queue[1] /\ Head(queue) \in Queued
      /\ queue' \in Seq(Queued) /\ Len(queue') = Len(queue) - 1
      /\ \A i \in 1..Len(queue') : queue'[i] = queue[i + 1] /\ i + 1 \in 1..Len(queue)
      /\ 1 \in 1..Len(queue)
  BY <1>1, <1>2
<1>4. Head(queue).flow = connMgr[Head(queue).key] /\ Head(queue).flow <= Len(flows)
  BY <1>3 DEF IInv, TypeOK, FlowsShared
<1>5. /\ hand' \in Hands /\ hand'.key = Head(queue).key /\ hand'.flow = Head(queue).flow
      /\ hand'.units = Head(queue).units /\ hand'.step = "branch"
  BY <1>1, <1>3 DEF Hands, Queued
<1>6. hand' # None
  BY <1>5 DEF None, Hands
<1>7. HistoryType' /\ FlowType'
  <2>1. HistoryType /\ FlowType
    BY TypeHalves DEF IInv
  <2>2. HistoryType'
    BY <1>1, <2>1 DEF HistoryType
  <2>3. FlowType'
    BY <1>1, <1>3, <1>4, <1>5, <2>1 DEF FlowType
  <2>. QED BY <2>2, <2>3
<1>8. FlowsShared'
  BY <1>1, <1>3, <1>4, <1>5 DEF IInv, FlowsShared
<1>. QED BY <1>1, <1>3, <1>5, <1>6, <1>7, <1>8, HalvesNext

\* An assignment to the flow data in hand leaves that of other keys alone.
LEMMA FlowAssigned ==
  ASSUME IInv, hand # None, NEW f \in Flows, flows' = [flows EXCEPT ![hand.flow] = f],
         HistoryType', UNCHANGED <<connMgr, queue>>,
         \/ hand' = None
         \/ hand' \in Hands /\ hand'.key = hand.key /\ hand'.flow = hand.flow
  PROVE  /\ IInv' /\ flows'[hand.flow] = f
         /\ \A j \in Keys \ {hand.key} :
              connMgr[j] # 0 => flows'[connMgr[j]] = flows[connMgr[j]]
<1>1. /\ hand.flow \in 1..Len(flows) /\ flows \in Seq(Flows) /\ hand.key \in Keys
      /\ hand.flow = connMgr[hand.key] /\ connMgr[hand.key] # 0
      /\ connMgr \in [Keys -> 0..Len(flows)] /\ Len(flows) \in Nat
      /\ \A i, j \in Keys : connMgr[i] = connMgr[j] => i = j \/ connMgr[i] = 0
  BY InHand DEF IInv, TypeOK, FlowsShared
<1>2. flows' \in Seq(Flows) /\ Len(flows') = Len(flows)
  BY <1>1, AssignedInPlace
<1>3. flows'[hand.flow] = f /\ \A i \in 1..Len(flows) : i # hand.flow => flows'[i] = flows[i]
  BY <1>1
<1>4. \A j \in Keys \ {hand.key} : connMgr[j] # 0 => flows'[connMgr[j]] = flows[connMgr[j]]
  BY <1>1, <1>3
<1>. QED BY <1>2, <1>3, <1>4, KeptInPlace

\* In an answer the payload is put behind what is left of the flow's data.
LEMMA Accumulated ==
  ASSUME IInv, Accumulate
  PROVE  LET f == flows[hand.flow] IN
         /\ IInv' /\ f \in Flows /\ flows'[hand.flow] \in Flows
         /\ f.type # "none"
         /\ flows'[hand.flow].type = f.type /\ flows'[hand.flow].request = f.request
         /\ flows'[hand.flow].data = f.data \o hand.units
         /\ \A j \in Keys \ {hand.key} :
              connMgr[j] # 0 => flows'[connMgr[j]] = flows[connMgr[j]]
         /\ hand' # None /\ hand'.key = hand.key /\ hand'.flow = hand.flow
         /\ hand'.units = hand.units /\ hand'.step = "loop"
<1>. DEFINE f == flows[hand.flow]
            g == [f EXCEPT !.data = f.data \o hand.units]
<1>1. /\ hand # None /\ f.type # "none"
      /\ flows' = [flows EXCEPT ![hand.flow] = g]
      /\ hand' = [hand EXCEPT !.step = "loop"]
      /\ UNCHANGED <<peer, opened, connMgr, queue, sent, stored, damaged>>
  BY DEF Accumulate
<1>2. hand \in Hands /\ hand.units \in Parts /\ f \in Flows
  BY <1>1, InHand
<1>3. f.data \o hand.units \in Seq(Units)
  BY <1>2 DEF Flows, Parts
<1>4. /\ g \in Flows /\ g.type = f.type /\ g.request = f.request
      /\ g.data = f.data \o hand.units
  BY <1>2, <1>3 DEF Flows
<1>5. /\ hand' \in Hands /\ hand'.key = hand.key /\ hand'.flow = hand.flow
      /\ hand'.units = hand.units /\ hand'.step = "loop"
  BY <1>1, <1>2 DEF Hands
<1>6. hand' # None
  BY <1>5 DEF Hands, None
<1>7. HistoryType'
  BY <1>1, TypeHalves DEF IInv, HistoryType
<1>. HIDE DEF f, g
<1>8. /\ IInv' /\ flows'[hand.flow] = g
      /\ \A j \in Keys \ {hand.key} : connMgr[j] # 0 => flows'[connMgr[j]] = flows[connMgr[j]]
  BY <1>1, <1>4, <1>5, <1>7, FlowAssigned
<1>. QED BY <1>1, <1>2, <1>4, <1>5, <1>6, <1>8 DEF f

\* What a step of the processing thread puts for the unit u.
Puts(u, row) ==
  /\ u \in Units /\ row \in Rows /\ row.unit = u
  /\ \A c \in Connections :
       stored'[c] = IF c = u.session /\ c \notin damaged THEN Append(stored[c], row)
                    ELSE stored[c]

\* A message is stored and the flow is as at the start; a request is stored
\* and the flow expects its answer; a part of an answer is passed over.
LEMMA Messaged ==
  ASSUME IInv, Message
  PROVE  LET u == hand.units[1]
             g == flows'[hand.flow]
         IN
         /\ IInv' /\ u \in Units /\ g \in Flows /\ hand' = None
         /\ flows[hand.flow].type = "none"
         /\ u.kind \in {"msg", "other"} => g = Fresh
         /\ u.kind \in AskingKinds => g.request = <<u.session, u.n>> /\ g.data = <<>>
         /\ u.kind = "req" => g.type = "stream"
         /\ u.kind \notin {"entry", "end"} =>
              \E row : /\ row = [unit |-> u, as |-> "message", request |-> NoRequest]
                       /\ Puts(u, row)
         /\ u.kind \in {"entry", "end"} => flows' = flows /\ stored' = stored
         /\ \A j \in Keys \ {hand.key} :
              connMgr[j] # 0 => flows'[connMgr[j]] = flows[connMgr[j]]
<1>. DEFINE u == hand.units[1]
            row == [unit |-> u, as |-> "message", request |-> NoRequest]
            type == IF u.kind = "req" THEN "stream" ELSE u.kind
            f == IF u.kind \notin AskingKinds THEN Fresh
                 ELSE [type |-> type, request |-> <<u.session, u.n>>, data |-> <<>>]
<1>1. hand # None /\ flows[hand.flow].type = "none" /\ hand' = None
      /\ UNCHANGED <<peer, opened, connMgr, queue, sent, damaged>>
  BY DEF Message
<1>2. /\ hand.units \in Parts /\ flows[hand.flow] \in Flows /\ hand.flow \in 1..Len(flows)
      /\ connMgr \in [Keys -> 0..Len(flows)] /\ flows \in Seq(Flows) /\ TypeOK /\ HistoryType
  BY <1>1, InHand, TypeHalves DEF IInv, TypeOK
<1>3. u \in Units /\ Head(hand.units) = u
  BY <1>2 DEF Parts
<1>4. /\ NoRequest \in Requests /\ f \in Flows
      /\ u.kind \in {"msg", "other"} => f = Fresh
      /\ u.kind \in AskingKinds => f.request = <<u.session, u.n>> /\ f.data = <<>>
      /\ u.kind = "req" => f.type = "stream"
  <2>1. NoRequest \in Requests
    BY ConnectionTrackingAssumption DEF NoRequest, Requests
  <2>2. f \in Flows
    <3>1. u.kind \in AskingKinds => type \in {"stream", "account", "brief"}
      BY DEF AskingKinds
    <3>. HIDE DEF u, type
    <3>. QED BY <1>3, <3>1, FreshTyped
  <2>. QED BY <2>1, <2>2 DEF AskingKinds
<1>. HIDE DEF u
<1>5. CASE u.kind \notin {"entry", "end"}
  <2>1. flows' = [flows EXCEPT ![hand.flow] = f] /\ Note(u, "message", NoRequest)
    BY <1>3, <1>5, Zenon DEF Message
  <2>2. /\ stored' \in [Connections -> Seq(Rows)]
        /\ \A c \in Connections :
             stored'[c] = IF c = u.session /\ c \notin damaged THEN Append(stored[c], row)
                          ELSE stored[c]
    BY <1>2, <1>3, <1>4, <2>1, NoteTyped
  <2>3. HistoryType'
    BY <1>1, <1>2, <2>2 DEF HistoryType
  <2>4. row \in Rows /\ row.unit = u
    BY <1>3, <1>4 DEF Rows
  <2>5. Puts(u, row)
    BY <1>3, <2>2, <2>4 DEF Puts
  <2>. HIDE DEF f
  <2>6. /\ IInv' /\ flows'[hand.flow] = f
        /\ \A j \in Keys \ {hand.key} : connMgr[j] # 0 => flows'[connMgr[j]] = flows[connMgr[j]]
    BY <1>1, <1>4, <2>1, <2>3, FlowAssigned
  <2>. QED BY <1>1, <1>3, <1>4, <1>5, <2>5, <2>6 DEF u
<1>6. CASE u.kind \in {"entry", "end"}
  <2>1. flows' = flows /\ stored' = stored
    BY <1>3, <1>6, Zenon DEF Message
  <2>2. HistoryType'
    BY <1>1, <1>2, <2>1 DEF HistoryType
  <2>3. IInv'
    BY <1>1, <1>2, <2>1, <2>2, KeptInPlace
  <2>4. u.kind \notin {"msg", "other", "req"} /\ u.kind \notin AskingKinds
    BY <1>6 DEF AskingKinds
  <2>5. flows'[hand.flow] \in Flows
    BY <1>2, <2>1
  <2>. HIDE DEF f, row
  <2>. QED BY <1>1, <1>3, <1>6, <2>1, <2>3, <2>4, <2>5 DEF u
<1>. QED BY <1>5, <1>6

\* A step of the loop puts the first unit of the flow's data and assigns to it.
LEMMA PutStep ==
  ASSUME IInv, hand # None, flows[hand.flow].data # <<>>,
         UNCHANGED <<peer, opened, connMgr, queue, sent, damaged>>,
         NEW as \in {"entry", "event"}, NEW request \in Requests, NEW g \in Flows,
         Note(Head(flows[hand.flow].data), as, request),
         flows' = [flows EXCEPT ![hand.flow] = g],
         hand' = None \/ hand' = hand
  PROVE  LET u == flows[hand.flow].data[1]
             row == [unit |-> u, as |-> as, request |-> request]
         IN
         /\ IInv' /\ flows'[hand.flow] = g /\ u \in Units /\ Puts(u, row)
         /\ \A j \in Keys \ {hand.key} :
              connMgr[j] # 0 => flows'[connMgr[j]] = flows[connMgr[j]]
<1>. DEFINE f == flows[hand.flow]
            u == f.data[1]
            row == [unit |-> u, as |-> as, request |-> request]
<1>1. hand \in Hands /\ f \in Flows /\ TypeOK /\ HistoryType
  BY InHand, TypeHalves DEF IInv
<1>2. u \in Units /\ Head(f.data) = u
  BY <1>1 DEF Flows
<1>3. as \in {"message", "entry", "event"} /\ Note(u, as, request)
  BY <1>2
<1>. HIDE DEF f, u
<1>4. /\ stored' \in [Connections -> Seq(Rows)]
      /\ \A c \in Connections :
           stored'[c] = IF c = u.session /\ c \notin damaged THEN Append(stored[c], row)
                        ELSE stored[c]
  BY <1>1, <1>2, <1>3, NoteTyped
<1>5. row \in Rows /\ row.unit = u
  BY <1>2, <1>3 DEF Rows
<1>6. Puts(u, row)
  BY <1>2, <1>4, <1>5 DEF Puts
<1>7. HistoryType'
  BY <1>1, <1>4 DEF HistoryType
<1>8. /\ IInv' /\ flows'[hand.flow] = g
      /\ \A j \in Keys \ {hand.key} : connMgr[j] # 0 => flows'[connMgr[j]] = flows[connMgr[j]]
  BY <1>1, <1>7, FlowAssigned
<1>. QED BY <1>2, <1>6, <1>8 DEF f, u

\* What a step of the loop does, in an answer whose entries are erased and in
\* those of an account.
LEMMA PutFirst ==
  ASSUME IInv, Entry \/ AccountEntry \/ EndOfAnswer
  PROVE  LET f == flows[hand.flow]
             u == f.data[1]
         IN
         /\ IInv' /\ f \in Flows /\ flows'[hand.flow] \in Flows /\ u \in Units
         /\ f.data # <<>>
         /\ Entry => /\ u.kind # "end" /\ hand' = hand
                     /\ flows'[hand.flow].type = f.type
                     /\ flows'[hand.flow].request = f.request
                     /\ flows'[hand.flow].data = Tail(f.data)
         /\ AccountEntry => f.type = "account" /\ hand' = hand /\ flows'[hand.flow] = f
         /\ EndOfAnswer => /\ u.kind = "end" \/ f.type = "brief"
                           /\ hand' = None /\ flows'[hand.flow] = Fresh
         /\ \E row :
              /\ f.type = "stream" =>
                   row = IF u.kind = "end" THEN [unit |-> u, as |-> "event", request |-> NoRequest]
                         ELSE [unit |-> u, as |-> "entry", request |-> f.request]
              /\ Puts(u, row)
         /\ \A j \in Keys \ {hand.key} :
              connMgr[j] # 0 => flows'[connMgr[j]] = flows[connMgr[j]]
<1>. DEFINE f == flows[hand.flow]
            u == f.data[1]
            rest == [f EXCEPT !.data = Tail(f.data)]
<1>1. /\ hand # None /\ f.data # <<>>
      /\ UNCHANGED <<peer, opened, connMgr, queue, sent, damaged>>
  BY DEF Entry, AccountEntry, EndOfAnswer
<1>2. /\ hand \in Hands /\ f \in Flows /\ f.request \in Requests /\ NoRequest \in Requests
      /\ hand.flow \in 1..Len(flows) /\ flows \in Seq(Flows) /\ Fresh \in Flows
  <2>1. hand \in Hands /\ f \in Flows /\ hand.flow \in 1..Len(flows) /\ flows \in Seq(Flows)
    BY <1>1, InHand DEF IInv, TypeOK
  <2>2. f.request \in Requests
    BY <2>1 DEF Flows
  <2>3. NoRequest \in Requests
    BY ConnectionTrackingAssumption DEF NoRequest, Requests
  <2>. QED BY <2>1, <2>2, <2>3, FreshTyped
<1>3. Head(f.data) = u /\ Tail(f.data) \in Seq(Units)
  BY <1>1, <1>2 DEF Flows
<1>4. /\ rest \in Flows /\ rest.type = f.type /\ rest.request = f.request
      /\ rest.data = Tail(f.data)
  BY <1>2, <1>3 DEF Flows
<1>5. CASE Entry
  <2>1. /\ hand' = hand /\ u.kind # "end" /\ f.type = "stream" /\ ~AccountEntry /\ ~EndOfAnswer
        /\ Note(Head(f.data), "entry", f.request)
        /\ flows' = [flows EXCEPT ![hand.flow] = rest]
    BY <1>3, <1>5 DEF Entry, AccountEntry, EndOfAnswer
  <2>. HIDE DEF rest
  <2>2. /\ IInv' /\ flows'[hand.flow] = rest /\ u \in Units
        /\ Puts(u, [unit |-> u, as |-> "entry", request |-> f.request])
        /\ \A j \in Keys \ {hand.key} : connMgr[j] # 0 => flows'[connMgr[j]] = flows[connMgr[j]]
    BY <1>1, <1>2, <1>4, <2>1, PutStep
  <2>. QED BY <1>1, <1>2, <1>4, <2>1, <2>2
<1>6. CASE AccountEntry
  <2>1. /\ hand' = hand /\ f.type = "account" /\ ~Entry /\ ~EndOfAnswer
        /\ Note(Head(f.data), "entry", f.request) /\ flows' = flows
    BY <1>3, <1>6 DEF Entry, AccountEntry, EndOfAnswer
  <2>2. flows' = [flows EXCEPT ![hand.flow] = f]
    BY <1>2, <2>1
  <2>3. /\ IInv' /\ flows'[hand.flow] = f /\ u \in Units
        /\ Puts(u, [unit |-> u, as |-> "entry", request |-> f.request])
        /\ \A j \in Keys \ {hand.key} : connMgr[j] # 0 => flows'[connMgr[j]] = flows[connMgr[j]]
    BY <1>1, <1>2, <2>1, <2>2, PutStep
  <2>. QED BY <1>1, <1>2, <2>1, <2>3
<1>7. CASE EndOfAnswer
  <2>1. /\ hand' = None /\ (u.kind = "end" \/ f.type = "brief") /\ ~Entry /\ ~AccountEntry
        /\ Note(Head(f.data), "event", NoRequest)
        /\ flows' = [flows EXCEPT ![hand.flow] = Fresh]
    BY <1>3, <1>7 DEF Entry, AccountEntry, EndOfAnswer
  <2>2. /\ IInv' /\ flows'[hand.flow] = Fresh /\ u \in Units
        /\ Puts(u, [unit |-> u, as |-> "event", request |-> NoRequest])
        /\ \A j \in Keys \ {hand.key} : connMgr[j] # 0 => flows'[connMgr[j]] = flows[connMgr[j]]
    BY <1>1, <1>2, <2>1, PutStep
  <2>. QED BY <1>1, <1>2, <2>1, <2>2
<1>. QED BY <1>5, <1>6, <1>7

\* Nothing is left in the flow's data.
LEMMA Emptied ==
  ASSUME IInv, Consumed
  PROVE  IInv'
<1>1. hand' = None /\ UNCHANGED <<peer, opened, connMgr, flows, queue, sent, stored, damaged>>
  BY DEF Consumed
<1>2. HistoryType' /\ flows \in Seq(Flows)
  BY <1>1, TypeHalves DEF IInv, HistoryType, TypeOK
<1>. QED BY <1>1, <1>2, KeptInPlace

----------------------------------------------------------------------------
(* Types, and whose flow data a payload is handled with.                   *)

\* Initially there is no flow data and nothing refers to any.
LEMMA InitInv == Init => IInv
<1>. SUFFICES ASSUME Init
              PROVE  IInv
  OBVIOUS
<1>1. HistoryType
  BY ConnectionTrackingAssumption DEF Init, HistoryType, Peers
<1>2. FlowType
  BY DEF Init, FlowType
<1>3. FlowsShared
  BY DEF Init, FlowsShared
<1>. QED BY <1>1, <1>2, <1>3, TypeHalves DEF IInv

\* Every step of either thread keeps the invariant.
LEMMA Invariance == IInv /\ [Next]_vars => IInv'
<1>1. IInv /\ Capture => IInv'
  BY Started, Unseen, Ended, PayloadTyped DEF Capture
<1>2. IInv /\ Process => IInv'
  BY Taken, Accumulated, Messaged, PutFirst, Emptied DEF Process
<1>3. IInv /\ UNCHANGED vars => IInv'
  BY DEF vars, IInv, TypeOK, FlowsShared
<1>. QED BY <1>1, <1>2, <1>3 DEF Next

\* Whatever the capture reports and misses: every unit, row and piece of flow
\* data is one of those the code makes, and a payload that is queued or in hand
\* always points to flow data (packet_handler.cpp:50-138).
THEOREM TypeCorrect == Spec => []TypeOK
<1>1. Init => IInv
  BY InitInv
<1>2. IInv /\ [Next]_vars => IInv'
  BY Invariance
<1>3. IInv => TypeOK
  BY DEF IInv
<1>. QED BY <1>1, <1>2, <1>3, PTL DEF Spec

\* For any number of keys, connections and payloads, and whatever is lost: a
\* payload in the queue or in hand has the flow data that connMgr holds for its
\* own key, and no other key's, so that the start of a connection or an entry of
\* another key never changes what handle_tcp continues (packet_handler.cpp:88-138).
THEOREM FlowsCorrect == Spec => []FlowsShared
<1>1. Init => IInv
  BY InitInv
<1>2. IInv /\ [Next]_vars => IInv'
  BY Invariance
<1>3. IInv => FlowsShared
  BY DEF IInv
<1>. QED BY <1>1, <1>2, <1>3, PTL DEF Spec

----------------------------------------------------------------------------
(* What has been sent on a connection, s, and how far it is decoded.       *)

\* The request that is being answered after the first t units.
Answered(s, t) == IF t = 0 THEN 0 ELSE Answering(s[t])

\* What connection c has sent.
Numbered(c, s) ==
  \A n \in 1..Len(s) :
    /\ s[n].session = c /\ s[n].n = n /\ s[n].req = Answered(s, n - 1)
    /\ s[n].kind \in AnswerKinds <=> s[n].req # 0

\* The code can follow all of it.
Followed(s) == \A n \in 1..Len(s) : s[n].kind \notin Unfollowed

Extends(s2, s) ==
  /\ Len(s) <= Len(s2)
  /\ \A n \in 1..Len(s) : s2[n] = s[n]

First(units) == units[1].n
Last(units) == units[1].n + Len(units) - 1

\* A payload is a part of what was sent: messages, or a part of one answer.
PartOf(s, units) ==
  /\ \A j \in 1..Len(units) :
       /\ units[j].n = First(units) + j - 1 /\ units[j].n <= Len(s)
       /\ units[j] = s[units[j].n] /\ units[j].req = units[1].req
       /\ j < Len(units) => units[j].kind \in {"msg", "entry"}
  /\ Single /\ units[1].req = 0 => Len(units) = 1

\* The payloads of the key k in the queue q hold what follows the first t
\* units, in the order sent.
Chain(k, q, s, t) ==
  /\ \A i \in 1..Len(q) : q[i].key = k => t < First(q[i].units)
  /\ \A i, j \in 1..Len(q) :
       q[i].key = k /\ q[j].key = k /\ i < j => Last(q[i].units) < First(q[j].units)
  /\ \A n \in t + 1..Len(s) :
       \E i \in 1..Len(q) : q[i].key = k /\ First(q[i].units) <= n /\ n <= Last(q[i].units)

\* The flow data f of connection c between payloads: b units are handled, and
\* m rows are stored.  A flow that expects entries knows the request that is
\* being answered; with one message to a payload no answer goes unnoticed.
Between(c, s, f, b, m) ==
  /\ f.type \in {"none", "stream"}
  /\ f.type = "stream" => Answered(s, b) # 0 /\ f.request = <<c, Answered(s, b)>>
  /\ Single => m = b /\ (Answered(s, b) # 0 => f.type = "stream")

\* In the loop the flow's data is the rest of the first t units, entries of
\* the answer to the flow's request with the terminator behind them or not.
Within(c, s, f, t, m) ==
  /\ f.type = "stream" /\ Len(f.data) <= t
  /\ \E r \in 1..MaxSent :
       /\ f.request = <<c, r>>
       /\ \A j \in 1..Len(f.data) :
            /\ f.data[j] = s[t - Len(f.data) + j] /\ f.data[j].req = r
            /\ j < Len(f.data) => f.data[j].kind = "entry"
       /\ f.data = <<>> => Answered(s, t) = r
  /\ Single => m = t - Len(f.data)

\* The same with h in hand; a payload in hand holds the last of the t units.
At(k, c, s, f, h, t, m) ==
  /\ ~(h # None /\ h.key = k) => Between(c, s, f, t, m)
  /\ h # None /\ h.key = k /\ h.step = "branch" =>
       t = Last(h.units) /\ Between(c, s, f, First(h.units) - 1, m)
  /\ h # None /\ h.key = k /\ h.step = "loop" => Within(c, s, f, t, m)

\* A payload has a first and a last unit.
LEMMA EndsTyped ==
  ASSUME NEW units \in Parts
  PROVE  /\ First(units) \in Nat \ {0} /\ Last(units) \in Nat /\ First(units) <= Last(units)
         /\ Len(units) \in Nat \ {0} /\ Last(units) = First(units) + Len(units) - 1
         /\ units[1] \in Units /\ 1 \in 1..Len(units)
         /\ \A j \in 1..Len(units) : units[j] \in Units
<1>1. units \in Seq(Units) /\ Len(units) \in Nat \ {0}
  BY DEF Parts
<1>2. units[1] \in Units /\ \A j \in 1..Len(units) : units[j] \in Units
  BY <1>1
<1>3. units[1].n \in Nat \ {0}
  BY <1>2, ConnectionTrackingAssumption DEF Units
<1>. QED BY <1>1, <1>2, <1>3 DEF First, Last

\* The request of a unit, and the one being answered, are numbers of units.
LEMMA AnsweredTyped ==
  ASSUME NEW s \in Seq(Units), NEW t \in 0..Len(s)
  PROVE  /\ Answered(s, t) \in 0..MaxSent /\ Answered(s, 0) = 0
         /\ t # 0 /\ s[t].kind = "req" => Answered(s, t) = s[t].n
         /\ t # 0 /\ s[t].kind = "entry" => Answered(s, t) = s[t].req
         /\ t # 0 /\ s[t].kind \in {"msg", "end"} => Answered(s, t) = 0
<1>1. Answered(s, 0) = 0 /\ 0 \in 0..MaxSent
  BY ConnectionTrackingAssumption DEF Answered
<1>2. ASSUME t # 0
      PROVE  /\ Answered(s, t) \in 0..MaxSent
             /\ s[t].kind = "req" => Answered(s, t) = s[t].n
             /\ s[t].kind = "entry" => Answered(s, t) = s[t].req
             /\ s[t].kind \in {"msg", "end"} => Answered(s, t) = 0
  <2>. DEFINE u == s[t]
  <2>1. u \in Units
    BY <1>2
  <2>2. u.n \in 0..MaxSent /\ u.req \in 0..MaxSent /\ u.kind \in Kinds
    BY <2>1, ConnectionTrackingAssumption DEF Units
  <2>3. Answered(s, t) = Answering(u)
    BY <1>2 DEF Answered
  <2>. HIDE DEF u
  <2>4. /\ Answering(u) \in 0..MaxSent
        /\ u.kind = "req" => Answering(u) = u.n
        /\ u.kind = "entry" => Answering(u) = u.req
        /\ u.kind \in {"msg", "end"} => Answering(u) = 0
    <3>1. CASE u.kind \in AskingKinds
      BY <2>2, <3>1 DEF Answering, AskingKinds
    <3>2. CASE u.kind \in {"entry", "other"}
      BY <2>2, <3>2 DEF Answering, AskingKinds
    <3>3. CASE u.kind \notin AskingKinds /\ u.kind \notin {"entry", "other"}
      BY <1>1, <3>3 DEF Answering, AskingKinds
    <3>. QED BY <3>1, <3>2, <3>3
  <2>. QED BY <2>3, <2>4 DEF u
<1>. QED BY <1>1, <1>2

\* What was sent before is not changed by sending more.
LEMMA AnsweredKept ==
  ASSUME NEW s \in Seq(Units), NEW s2 \in Seq(Units), Extends(s2, s), NEW t \in 0..Len(s)
  PROVE  Answered(s2, t) = Answered(s, t)
BY DEF Answered, Extends

LEMMA PartKept ==
  ASSUME NEW s \in Seq(Units), NEW s2 \in Seq(Units), Extends(s2, s),
         NEW units \in Parts, PartOf(s, units)
  PROVE  PartOf(s2, units) /\ Last(units) <= Len(s)
<1>1. \A j \in 1..Len(units) :
        /\ units[j].n \in 1..Len(s) /\ units[j].n <= Len(s2)
        /\ units[j] = s2[units[j].n]
  <2>. SUFFICES ASSUME NEW j \in 1..Len(units)
                PROVE  /\ units[j].n \in 1..Len(s) /\ units[j].n <= Len(s2)
                       /\ units[j] = s2[units[j].n]
    OBVIOUS
  <2>1. units[j] \in Units /\ units[j].n <= Len(s) /\ units[j] = s[units[j].n]
    BY EndsTyped DEF PartOf
  <2>2. units[j].n \in Nat \ {0}
    BY <2>1, ConnectionTrackingAssumption DEF Units
  <2>. QED BY <2>1, <2>2 DEF Extends
<1>2. PartOf(s2, units)
  BY <1>1 DEF PartOf
<1>3. Last(units) <= Len(s)
  <2>1. Len(units) \in 1..Len(units) /\ Last(units) = First(units) + Len(units) - 1
    BY EndsTyped
  <2>2. units[Len(units)].n = First(units) + Len(units) - 1 /\ units[Len(units)].n <= Len(s)
    BY <2>1 DEF PartOf
  <2>. QED BY <2>1, <2>2
<1>. QED BY <1>2, <1>3

\* What a payload holds of what was sent.
LEMMA PartFacts ==
  ASSUME NEW c, NEW s \in Seq(Units), Numbered(c, s), NEW units \in Parts, PartOf(s, units)
  PROVE  /\ Last(units) \in 1..Len(s) /\ First(units) \in 1..Len(s)
         /\ units[1] = s[First(units)]
         /\ units[1].session = c /\ units[1].n = First(units)
         /\ units[1].req = Answered(s, First(units) - 1)
         /\ units[1].kind \in AnswerKinds <=> units[1].req # 0
         /\ units[1].kind \notin {"msg", "entry"} => Len(units) = 1
<1>1. /\ First(units) \in Nat \ {0} /\ Last(units) \in Nat /\ First(units) <= Last(units)
      /\ 1 \in 1..Len(units) /\ Len(units) \in Nat
  BY EndsTyped
<1>2. Extends(s, s)
  BY DEF Extends
<1>3. Last(units) <= Len(s) /\ Len(s) \in Nat
  BY <1>2, PartKept
<1>4. First(units) \in 1..Len(s) /\ Last(units) \in 1..Len(s)
  BY <1>1, <1>3
<1>5. /\ units[1].n = First(units) /\ units[1] = s[units[1].n]
      /\ 1 < Len(units) => units[1].kind \in {"msg", "entry"}
  BY <1>1 DEF PartOf, First
<1>6. LET n == First(units) IN
      /\ s[n].session = c /\ s[n].req = Answered(s, n - 1)
      /\ s[n].kind \in AnswerKinds <=> s[n].req # 0
  BY <1>4 DEF Numbered
<1>7. ASSUME units[1].kind \notin {"msg", "entry"}
      PROVE  Len(units) = 1
  <2>1. ~(1 < Len(units))
    BY <1>5, <1>7, Zenon
  <2>2. \A n \in Nat \ {0} : ~(1 < n) => n = 1
    OBVIOUS
  <2>3. Len(units) \in Nat \ {0}
    BY EndsTyped
  <2>. QED BY <2>1, <2>2, <2>3, Zenon
<1>. QED BY <1>4, <1>5, <1>6, <1>7

\* Sending more: the history stays numbered, and the payload is a part of it.
LEMMA SentMore ==
  ASSUME NEW c, NEW s \in Seq(Units), Numbered(c, s), NEW units \in Parts,
         Continues(c, s, Answered(s, Len(s)), units), NEW s2 \in Seq(Units), s2 = s \o units
  PROVE  /\ Extends(s2, s) /\ Numbered(c, s2) /\ PartOf(s2, units)
         /\ First(units) = Len(s) + 1 /\ Last(units) = Len(s2)
<1>. DEFINE r == Answered(s, Len(s))
<1>1. /\ units \in Seq(Units) /\ Len(units) \in Nat \ {0} /\ Len(s) \in Nat
      /\ Len(s2) = Len(s) + Len(units)
      /\ \A n \in 1..Len(s) : s2[n] = s[n]
      /\ \A j \in 1..Len(units) : s2[Len(s) + j] = units[j]
  BY DEF Parts
<1>2. Extends(s2, s)
  BY <1>1 DEF Extends
<1>3. \A t \in 0..Len(s) : Answered(s2, t) = Answered(s, t)
  BY <1>2, AnsweredKept
<1>4. First(units) = Len(s) + 1 /\ Last(units) = Len(s2)
  BY <1>1 DEF Continues, First, Last
<1>. HIDE DEF r
<1>5. /\ \A i \in 1..Len(units) :
           /\ units[i].session = c /\ units[i].n = Len(s) + i /\ units[i].req = r
           /\ units[i].kind \in AnswerKinds <=> r # 0
           /\ i < Len(units) => units[i].kind \in {"msg", "entry"}
      /\ Single /\ r = 0 => Len(units) = 1
  BY DEF Continues, r
<1>6. \A i \in 1..Len(units) : Answered(s2, Len(s) + i - 1) = r
  <2>. SUFFICES ASSUME NEW i \in 1..Len(units)
                PROVE  Answered(s2, Len(s) + i - 1) = r
    OBVIOUS
  <2>1. CASE i = 1
    BY <1>1, <1>3, <2>1 DEF r
  <2>2. CASE i > 1
    <3>. DEFINE t == Len(s) + i - 1
    <3>1. /\ i - 1 \in 1..Len(units) /\ i - 1 < Len(units) /\ t \in 0..Len(s2)
          /\ t # 0 /\ s2[t] = units[i - 1]
      BY <1>1, <2>2
    <3>. HIDE DEF t
    <3>2. /\ units[i - 1].req = r
          /\ units[i - 1].kind \in AnswerKinds <=> r # 0
          /\ units[i - 1].kind \in {"msg", "entry"}
      BY <1>5, <3>1
    <3>3. ASSUME units[i - 1].kind = "entry" PROVE Answered(s2, t) = r
      BY <3>1, <3>2, <3>3, AnsweredTyped
    <3>4. ASSUME units[i - 1].kind = "msg" PROVE Answered(s2, t) = r
      BY <3>1, <3>2, <3>4, AnsweredTyped DEF AnswerKinds
    <3>. QED BY <3>2, <3>3, <3>4 DEF t
  <2>. QED BY <2>1, <2>2
<1>7. Numbered(c, s2)
  <2>. SUFFICES ASSUME NEW n \in 1..Len(s2)
                PROVE  /\ s2[n].session = c /\ s2[n].n = n /\ s2[n].req = Answered(s2, n - 1)
                       /\ s2[n].kind \in AnswerKinds <=> s2[n].req # 0
    BY DEF Numbered
  <2>1. CASE n <= Len(s)
    <3>1. n \in 1..Len(s) /\ n - 1 \in 0..Len(s) /\ s2[n] = s[n]
      BY <1>1, <2>1
    <3>. QED BY <1>3, <3>1 DEF Numbered
  <2>2. CASE n > Len(s)
    <3>. DEFINE i == n - Len(s)
    <3>1. i \in 1..Len(units) /\ n = Len(s) + i
      BY <1>1, <2>2
    <3>. HIDE DEF i
    <3>2. s2[n] = units[i] /\ n - 1 = Len(s) + i - 1
      BY <1>1, <3>1
    <3>. QED BY <1>5, <1>6, <3>1, <3>2
  <2>. QED BY <1>1, <2>1, <2>2
<1>8. PartOf(s2, units)
  <2>1. \A j \in 1..Len(units) :
          /\ units[j].n = First(units) + j - 1 /\ units[j].n <= Len(s2)
          /\ units[j] = s2[units[j].n] /\ units[j].req = units[1].req
          /\ j < Len(units) => units[j].kind \in {"msg", "entry"}
    <3>. SUFFICES ASSUME NEW j \in 1..Len(units)
                  PROVE  /\ units[j].n = First(units) + j - 1 /\ units[j].n <= Len(s2)
                         /\ units[j] = s2[units[j].n] /\ units[j].req = units[1].req
                         /\ j < Len(units) => units[j].kind \in {"msg", "entry"}
      OBVIOUS
    <3>1. 1 \in 1..Len(units)
      BY <1>1
    <3>2. units[j].n = Len(s) + j /\ Len(s) + j <= Len(s2) /\ Len(s) + j = First(units) + j - 1
      BY <1>1, <1>4, <1>5
    <3>. QED BY <1>1, <1>5, <3>1, <3>2
  <2>2. Single /\ units[1].req = 0 => Len(units) = 1
    BY <1>1, <1>5
  <2>. QED BY <2>1, <2>2 DEF PartOf
<1>. QED BY <1>2, <1>4, <1>7, <1>8

LEMMA BetweenKept ==
  ASSUME NEW s \in Seq(Units), NEW s2 \in Seq(Units), Extends(s2, s),
         NEW c, NEW f, NEW m, NEW b \in 0..Len(s), Between(c, s, f, b, m)
  PROVE  Between(c, s2, f, b, m)
<1>1. Answered(s2, b) = Answered(s, b)
  BY AnsweredKept
<1>. QED BY <1>1 DEF Between

LEMMA WithinKept ==
  ASSUME NEW s \in Seq(Units), NEW s2 \in Seq(Units), Extends(s2, s),
         NEW c, NEW f \in Flows, NEW m, NEW t \in 0..Len(s), Within(c, s, f, t, m)
  PROVE  Within(c, s2, f, t, m)
<1>1. Answered(s2, t) = Answered(s, t)
  BY AnsweredKept
<1>2. Len(f.data) \in Nat /\ Len(s) \in Nat
  BY DEF Flows
<1>3. \A j \in 1..Len(f.data) : s2[t - Len(f.data) + j] = s[t - Len(f.data) + j]
  <2>. SUFFICES ASSUME NEW j \in 1..Len(f.data)
                PROVE  s2[t - Len(f.data) + j] = s[t - Len(f.data) + j]
    OBVIOUS
  <2>1. Len(f.data) <= t
    BY DEF Within
  <2>2. t - Len(f.data) + j \in 1..Len(s)
    BY <1>2, <2>1
  <2>. QED BY <2>2 DEF Extends
<1>4. PICK r \in 1..MaxSent :
        /\ f.request = <<c, r>>
        /\ \A j \in 1..Len(f.data) :
             /\ f.data[j] = s[t - Len(f.data) + j] /\ f.data[j].req = r
             /\ j < Len(f.data) => f.data[j].kind = "entry"
        /\ f.data = <<>> => Answered(s, t) = r
  BY DEF Within
<1>5. \A j \in 1..Len(f.data) :
        /\ f.data[j] = s2[t - Len(f.data) + j] /\ f.data[j].req = r
        /\ j < Len(f.data) => f.data[j].kind = "entry"
  BY <1>3, <1>4
<1>6. f.type = "stream" /\ Len(f.data) <= t /\ (Single => m = t - Len(f.data))
  BY DEF Within
<1>. QED BY <1>1, <1>4, <1>5, <1>6, Zenon DEF Within

\* The payloads of the queue have a first and a last unit.
QueueEnds(q) ==
  /\ Len(q) \in Nat
  /\ \A i \in 1..Len(q) :
       /\ First(q[i].units) \in Nat \ {0} /\ Last(q[i].units) \in Nat
       /\ First(q[i].units) <= Last(q[i].units)

LEMMA EndsOfQueue == ASSUME IInv PROVE QueueEnds(queue)
<1>1. Len(queue) \in Nat
  BY DEF IInv, TypeOK
<1>2. \A i \in 1..Len(queue) : queue[i].units \in Parts
  BY QueuedTyped
<1>. QED BY <1>1, <1>2, EndsTyped DEF QueueEnds

\* What is sent more is queued behind the rest.
LEMMA ChainBehind ==
  ASSUME NEW k, NEW q, NEW q2, QueueEnds(q), NEW s \in Seq(Units), NEW s2 \in Seq(Units),
         NEW t \in 0..Len(s), Chain(k, q, s, t),
         Len(q2) = Len(q) + 1, \A i \in 1..Len(q) : q2[i] = q[i],
         q2[Len(q) + 1].key = k,
         First(q2[Len(q) + 1].units) = Len(s) + 1, Last(q2[Len(q) + 1].units) = Len(s2),
         \A i \in 1..Len(q) : q[i].key = k => Last(q[i].units) <= Len(s)
  PROVE  Chain(k, q2, s2, t)
<1>1. Len(q) \in Nat /\ Len(s) \in Nat /\ Len(s2) \in Nat
  BY DEF QueueEnds
<1>2. \A i \in 1..Len(q2) : i \in 1..Len(q) \/ i = Len(q) + 1
  BY <1>1
<1>3. \A i \in 1..Len(q2) : q2[i].key = k => t < First(q2[i].units)
  <2>. SUFFICES ASSUME NEW i \in 1..Len(q2), q2[i].key = k
                PROVE  t < First(q2[i].units)
    OBVIOUS
  <2>1. CASE i \in 1..Len(q)
    BY <2>1 DEF Chain
  <2>2. CASE i = Len(q) + 1
    BY <1>1, <2>2
  <2>. QED BY <1>2, <2>1, <2>2
<1>4. \A i, j \in 1..Len(q2) :
        q2[i].key = k /\ q2[j].key = k /\ i < j => Last(q2[i].units) < First(q2[j].units)
  <2>. SUFFICES ASSUME NEW i \in 1..Len(q2), NEW j \in 1..Len(q2),
                       q2[i].key = k, q2[j].key = k, i < j
                PROVE  Last(q2[i].units) < First(q2[j].units)
    OBVIOUS
  <2>1. i \in 1..Len(q) /\ q2[i] = q[i]
    BY <1>1
  <2>2. CASE j \in 1..Len(q)
    BY <2>1, <2>2 DEF Chain
  <2>3. CASE j = Len(q) + 1
    <3>1. Last(q[i].units) <= Len(s) /\ Last(q[i].units) \in Nat
      BY <2>1 DEF QueueEnds
    <3>. QED BY <1>1, <2>1, <2>3, <3>1
  <2>. QED BY <1>2, <2>2, <2>3
<1>5. \A n \in t + 1..Len(s2) :
        \E i \in 1..Len(q2) : q2[i].key = k /\ First(q2[i].units) <= n /\ n <= Last(q2[i].units)
  <2>. SUFFICES ASSUME NEW n \in t + 1..Len(s2)
                PROVE  \E i \in 1..Len(q2) :
                         q2[i].key = k /\ First(q2[i].units) <= n /\ n <= Last(q2[i].units)
    OBVIOUS
  <2>1. CASE n <= Len(s)
    <3>1. n \in t + 1..Len(s)
      BY <1>1, <2>1
    <3>2. PICK i \in 1..Len(q) :
            q[i].key = k /\ First(q[i].units) <= n /\ n <= Last(q[i].units)
      BY <3>1 DEF Chain
    <3>3. i \in 1..Len(q2) /\ q2[i] = q[i]
      BY <1>1
    <3>. QED BY <3>2, <3>3
  <2>2. CASE n > Len(s)
    <3>1. Len(q) + 1 \in 1..Len(q2) /\ Len(s) + 1 <= n /\ n <= Len(s2)
      BY <1>1, <2>2
    <3>. QED BY <3>1
  <2>. QED BY <1>1, <2>1, <2>2
<1>. QED BY <1>3, <1>4, <1>5 DEF Chain

\* For another key nothing changes.
LEMMA ChainBeside ==
  ASSUME NEW k, NEW q, NEW q2, Len(q) \in Nat, NEW s, NEW t, Chain(k, q, s, t),
         Len(q2) = Len(q) + 1, \A i \in 1..Len(q) : q2[i] = q[i], q2[Len(q) + 1].key # k
  PROVE  Chain(k, q2, s, t)
<1>1. \A i \in 1..Len(q2) : q2[i].key = k => i \in 1..Len(q) /\ q2[i] = q[i]
  <2>1. \A i \in 1..Len(q2) : i \in 1..Len(q) \/ i = Len(q) + 1
    OBVIOUS
  <2>. QED BY <2>1
<1>2. \A i \in 1..Len(q) : i \in 1..Len(q2) /\ q2[i] = q[i]
  OBVIOUS
<1>. QED BY <1>1, <1>2 DEF Chain

LEMMA ChainShifted ==
  ASSUME NEW k, NEW q, NEW q2, Len(q) \in Nat \ {0}, NEW s, NEW t, Chain(k, q, s, t),
         Len(q2) = Len(q) - 1, q[1].key # k,
         \A i \in 1..Len(q2) : q2[i] = q[i + 1] /\ i + 1 \in 1..Len(q)
  PROVE  Chain(k, q2, s, t)
<1>1. \A i \in 1..Len(q2) : q2[i].key = k => t < First(q2[i].units)
  BY DEF Chain
<1>2. \A i, j \in 1..Len(q2) :
        q2[i].key = k /\ q2[j].key = k /\ i < j => Last(q2[i].units) < First(q2[j].units)
  <2>. SUFFICES ASSUME NEW i \in 1..Len(q2), NEW j \in 1..Len(q2),
                       q2[i].key = k, q2[j].key = k, i < j
                PROVE  Last(q2[i].units) < First(q2[j].units)
    OBVIOUS
  <2>1. /\ i + 1 \in 1..Len(q) /\ j + 1 \in 1..Len(q) /\ i + 1 < j + 1
        /\ q2[i] = q[i + 1] /\ q2[j] = q[j + 1]
    OBVIOUS
  <2>. QED BY <2>1 DEF Chain
<1>3. \A n \in t + 1..Len(s) :
        \E i \in 1..Len(q2) : q2[i].key = k /\ First(q2[i].units) <= n /\ n <= Last(q2[i].units)
  <2>. SUFFICES ASSUME NEW n \in t + 1..Len(s)
                PROVE  \E i \in 1..Len(q2) :
                         q2[i].key = k /\ First(q2[i].units) <= n /\ n <= Last(q2[i].units)
    OBVIOUS
  <2>1. PICK i \in 1..Len(q) :
          q[i].key = k /\ First(q[i].units) <= n /\ n <= Last(q[i].units)
    BY DEF Chain
  <2>2. i # 1
    BY <2>1
  <2>3. i - 1 \in 1..Len(q2) /\ (i - 1) + 1 = i
    BY <2>2
  <2>4. q2[i - 1] = q[i]
    BY <2>3
  <2>. QED BY <2>1, <2>3, <2>4
<1>. QED BY <1>1, <1>2, <1>3 DEF Chain

\* The first payload of the key holds the next units, and the rest of the
\* queue what follows them.
LEMMA ChainTaken ==
  ASSUME NEW k, NEW q, NEW q2, QueueEnds(q), Len(q) \in Nat \ {0}, NEW s \in Seq(Units),
         NEW t \in 0..Len(s), Chain(k, q, s, t), Len(q2) = Len(q) - 1, q[1].key = k,
         \A i \in 1..Len(q2) : q2[i] = q[i + 1] /\ i + 1 \in 1..Len(q),
         Last(q[1].units) <= Len(s)
  PROVE  t = First(q[1].units) - 1 /\ Chain(k, q2, s, Last(q[1].units))
<1>. DEFINE a == First(q[1].units)
            z == Last(q[1].units)
<1>1. 1 \in 1..Len(q) /\ Len(s) \in Nat /\ a \in Nat \ {0} /\ z \in Nat /\ a <= z /\ t < a
  BY DEF QueueEnds, Chain
<1>. HIDE DEF a, z
<1>2. \A i \in 1..Len(q) : q[i].key = k /\ i # 1 => z < First(q[i].units)
  <2>. SUFFICES ASSUME NEW i \in 1..Len(q), q[i].key = k, i # 1
                PROVE  z < First(q[i].units)
    OBVIOUS
  <2>1. 1 < i
    OBVIOUS
  <2>. QED BY <1>1, <2>1 DEF Chain, z
<1>3. t + 1 = a
  <2>1. t + 1 \in t + 1..Len(s)
    BY <1>1 DEF z
  <2>2. PICK i \in 1..Len(q) :
          q[i].key = k /\ First(q[i].units) <= t + 1 /\ t + 1 <= Last(q[i].units)
    BY <2>1 DEF Chain
  <2>3. First(q[i].units) \in Nat
    BY DEF QueueEnds
  <2>4. i = 1
    BY <1>1, <1>2, <2>2, <2>3
  <2>5. a <= t + 1
    BY <2>2, <2>4 DEF a
  <2>. QED BY <1>1, <2>5
<1>4. \A i \in 1..Len(q2) : q2[i].key = k => z < First(q2[i].units)
  <2>. SUFFICES ASSUME NEW i \in 1..Len(q2), q2[i].key = k
                PROVE  z < First(q2[i].units)
    OBVIOUS
  <2>1. i + 1 \in 1..Len(q) /\ i + 1 # 1 /\ q2[i] = q[i + 1]
    OBVIOUS
  <2>. QED BY <1>2, <2>1
<1>5. \A i, j \in 1..Len(q2) :
        q2[i].key = k /\ q2[j].key = k /\ i < j => Last(q2[i].units) < First(q2[j].units)
  <2>. SUFFICES ASSUME NEW i \in 1..Len(q2), NEW j \in 1..Len(q2),
                       q2[i].key = k, q2[j].key = k, i < j
                PROVE  Last(q2[i].units) < First(q2[j].units)
    OBVIOUS
  <2>1. /\ i + 1 \in 1..Len(q) /\ j + 1 \in 1..Len(q) /\ i + 1 < j + 1
        /\ q2[i] = q[i + 1] /\ q2[j] = q[j + 1]
    OBVIOUS
  <2>. QED BY <2>1 DEF Chain
<1>6. \A n \in z + 1..Len(s) :
        \E i \in 1..Len(q2) : q2[i].key = k /\ First(q2[i].units) <= n /\ n <= Last(q2[i].units)
  <2>. SUFFICES ASSUME NEW n \in z + 1..Len(s)
                PROVE  \E i \in 1..Len(q2) :
                         q2[i].key = k /\ First(q2[i].units) <= n /\ n <= Last(q2[i].units)
    OBVIOUS
  <2>1. n \in t + 1..Len(s) /\ ~(n <= z)
    BY <1>1
  <2>2. PICK i \in 1..Len(q) :
          q[i].key = k /\ First(q[i].units) <= n /\ n <= Last(q[i].units)
    BY <2>1 DEF Chain
  <2>3. i # 1
    BY <2>1, <2>2 DEF z
  <2>4. i - 1 \in 1..Len(q2) /\ (i - 1) + 1 = i
    BY <2>3
  <2>5. q2[i - 1] = q[i]
    BY <2>4
  <2>. QED BY <2>2, <2>4, <2>5
<1>. QED BY <1>1, <1>3, <1>4, <1>5, <1>6 DEF Chain, a, z

\* Nothing of a key is queued: everything that was sent has been taken.
LEMMA ChainEmpty ==
  ASSUME NEW k, NEW q, NEW s \in Seq(Units), NEW t \in 0..Len(s), Chain(k, q, s, t),
         \A i \in 1..Len(q) : q[i].key # k
  PROVE  t = Len(s)
<1>1. Len(s) \in Nat
  OBVIOUS
<1>2. ASSUME t # Len(s) PROVE FALSE
  <2>1. Len(s) \in t + 1..Len(s)
    BY <1>1, <1>2
  <2>. QED BY <2>1 DEF Chain
<1>. QED BY <1>2

----------------------------------------------------------------------------
(* What handle_tcp does with the flow data of a connection.                *)

\* An answer is going on: the payload is the next part of it.
LEMMA AccumulateWithin ==
  ASSUME NEW c, NEW s \in Seq(Units), Numbered(c, s), NEW units \in Parts, PartOf(s, units),
         NEW f \in Flows, NEW g \in Flows, NEW m, Between(c, s, f, First(units) - 1, m),
         f.type = "stream", f.data = <<>>,
         g.type = f.type, g.request = f.request, g.data = f.data \o units
  PROVE  Within(c, s, g, Last(units), m)
<1>. DEFINE b == First(units) - 1
            r == Answered(s, b)
            t == Last(units)
<1>1. /\ First(units) \in Nat \ {0} /\ Len(units) \in Nat \ {0} /\ units \in Seq(Units)
      /\ t = First(units) + Len(units) - 1 /\ Len(s) \in Nat
  BY EndsTyped DEF Parts
<1>2. /\ First(units) \in 1..Len(s) /\ units[1].req = r
      /\ \A j \in 1..Len(units) :
           /\ units[j].n = First(units) + j - 1 /\ units[j] = s[units[j].n]
           /\ units[j].req = units[1].req
           /\ j < Len(units) => units[j].kind \in {"msg", "entry"}
           /\ units[j].n <= Len(s)
  BY PartFacts DEF PartOf
<1>3. b \in 0..Len(s) /\ r # 0 /\ f.request = <<c, r>> /\ (Single => m = b)
  BY <1>1, <1>2 DEF Between
<1>4. r \in 1..MaxSent
  <2>1. r \in 0..MaxSent /\ MaxSent \in Nat
    BY <1>3, AnsweredTyped, ConnectionTrackingAssumption
  <2>. HIDE DEF r
  <2>. QED BY <1>3, <2>1
<1>. HIDE DEF b, r, t
<1>5. g.data = units
  BY <1>1
<1>6. t - Len(units) = b /\ Len(units) <= t
  BY <1>1 DEF b
<1>7. \A j \in 1..Len(units) :
        /\ units[j] = s[b + j] /\ units[j].req = r
        /\ j < Len(units) => units[j].kind = "entry"
  <2>. SUFFICES ASSUME NEW j \in 1..Len(units)
                PROVE  /\ units[j] = s[b + j] /\ units[j].req = r
                       /\ j < Len(units) => units[j].kind = "entry"
    OBVIOUS
  <2>1. b + j = units[j].n /\ b + j \in 1..Len(s)
    BY <1>1, <1>2 DEF b
  <2>2. units[j] = s[b + j] /\ units[j].req = r
    BY <1>2, <2>1
  <2>3. units[j].kind \in AnswerKinds
    BY <1>3, <2>1, <2>2 DEF Numbered
  <2>. QED BY <1>2, <2>2, <2>3 DEF AnswerKinds
<1>8. g.data # <<>>
  <2>1. Len(<<>>) = 0
    OBVIOUS
  <2>. QED BY <1>1, <1>5, <2>1
<1>9. g.type = "stream" /\ g.request = <<c, r>>
  BY <1>3
<1>10. Within(c, s, g, t, m)
  BY <1>3, <1>4, <1>5, <1>6, <1>7, <1>8, <1>9 DEF Within
<1>. QED BY <1>10 DEF t

\* What is left in the loop begins with the unit behind the b handled ones.
LEMMA WithinFacts ==
  ASSUME NEW c, NEW s \in Seq(Units), Numbered(c, s), NEW t \in 0..Len(s), NEW m,
         NEW f \in Flows, Within(c, s, f, t, m), f.data # <<>>
  PROVE  /\ f.data[1].kind \in AnswerKinds /\ f.data[1].req # 0
         /\ f.request = <<c, f.data[1].req>>
         /\ f.data[1].session = c /\ f.data[1] \in Units
         /\ f.data[1].kind # "entry" => Len(f.data) = 1
         /\ f.data \in Seq(Units) /\ Len(f.data) \in Nat \ {0}
         /\ \E b \in Nat : /\ t = b + Len(f.data) /\ b + 1 \in 1..Len(s)
                           /\ f.data[1] = s[b + 1]
                           /\ Single => m = b
<1>. DEFINE b == t - Len(f.data)
            u == f.data[1]
<1>1. f.data \in Seq(Units) /\ Len(f.data) \in Nat \ {0} /\ Len(s) \in Nat
  BY DEF Flows
<1>2. PICK r \in 1..MaxSent :
        /\ f.request = <<c, r>>
        /\ \A j \in 1..Len(f.data) :
             /\ f.data[j] = s[b + j] /\ f.data[j].req = r
             /\ j < Len(f.data) => f.data[j].kind = "entry"
  BY DEF Within
<1>3. Len(f.data) <= t /\ (Single => m = b)
  BY DEF Within
<1>4. b \in Nat /\ t = b + Len(f.data) /\ b + 1 \in 1..Len(s)
  BY <1>1, <1>3
<1>5. 1 \in 1..Len(f.data) /\ r # 0
  BY <1>1, ConnectionTrackingAssumption
<1>6. /\ u = s[b + 1] /\ u.req = r /\ u \in Units
      /\ 1 < Len(f.data) => u.kind = "entry"
  <2>1. u \in Units
    BY <1>1, <1>5
  <2>2. u = s[b + 1] /\ u.req = r /\ (1 < Len(f.data) => u.kind = "entry")
    <3>. HIDE DEF b
    <3>. QED BY <1>2, <1>5
  <2>. QED BY <2>1, <2>2
<1>. HIDE DEF b, u
<1>7. u.session = c /\ u.kind \in AnswerKinds
  BY <1>4, <1>5, <1>6 DEF Numbered
<1>8. u.kind # "entry" => Len(f.data) = 1
  <2>1. \A n \in Nat \ {0} : ~(1 < n) => n = 1
    OBVIOUS
  <2>. QED BY <1>1, <1>6, <2>1, Zenon
<1>9. f.request = <<c, u.req>> /\ u.req # 0
  BY <1>2, <1>5, <1>6
<1>. QED BY <1>1, <1>3, <1>4, <1>6, <1>7, <1>8, <1>9 DEF u

\* An entry is taken off the flow's data.
LEMMA EntryWithin ==
  ASSUME NEW c, NEW s \in Seq(Units), Numbered(c, s), Followed(s),
         NEW t \in 0..Len(s), NEW m \in Nat,
         NEW f \in Flows, Within(c, s, f, t, m), f.data # <<>>, f.data[1].kind # "end",
         NEW g \in Flows, g.type = f.type, g.request = f.request, g.data = Tail(f.data)
  PROVE  Within(c, s, g, t, m + 1)
<1>. DEFINE u == f.data[1]
            n == Len(f.data)
            l == Len(g.data)
<1>1. PICK b \in Nat : t = b + n /\ b + 1 \in 1..Len(s) /\ u = s[b + 1] /\ (Single => m = b)
  BY WithinFacts
<1>2. /\ u.kind = "entry" /\ f.request = <<c, u.req>>
      /\ f.data \in Seq(Units) /\ n \in Nat \ {0}
  <2>1. /\ u.kind \in AnswerKinds /\ f.request = <<c, u.req>>
        /\ f.data \in Seq(Units) /\ n \in Nat \ {0}
    BY WithinFacts
  <2>2. u.kind \notin Unfollowed
    BY <1>1 DEF Followed
  <2>. QED BY <2>1, <2>2 DEF AnswerKinds, Unfollowed
<1>3. PICK r \in 1..MaxSent :
        /\ f.request = <<c, r>>
        /\ \A j \in 1..n : /\ f.data[j] = s[t - n + j] /\ f.data[j].req = r
                           /\ j < n => f.data[j].kind = "entry"
  BY DEF Within
<1>4. /\ l = n - 1 /\ n = l + 1 /\ l \in Nat
      /\ \A j \in 1..l : g.data[j] = f.data[j + 1] /\ j + 1 \in 1..n
  BY <1>2
<1>. HIDE DEF n, u
<1>5. f.type = "stream" /\ 1 \in 1..n
  BY <1>2 DEF Within
<1>6. u.req = r
  BY <1>3, <1>5 DEF u
<1>. HIDE DEF l
<1>7. t - n = b /\ t - l = b + 1 /\ l <= t /\ (Single => m + 1 = t - l)
  <2>1. n \in Nat /\ b \in Nat /\ l \in Nat /\ t = b + n /\ n = l + 1
    BY <1>1, <1>2, <1>4
  <2>2. t - n = b /\ t - l = b + 1 /\ l <= t
    BY <2>1
  <2>. QED BY <1>1, <2>2
<1>8. \A j \in 1..l :
        /\ g.data[j] = s[t - l + j] /\ g.data[j].req = r
        /\ j < l => g.data[j].kind = "entry"
  <2>. SUFFICES ASSUME NEW j \in 1..l
                PROVE  /\ g.data[j] = s[t - l + j] /\ g.data[j].req = r
                       /\ j < l => g.data[j].kind = "entry"
    OBVIOUS
  <2>1. g.data[j] = f.data[j + 1] /\ j + 1 \in 1..n
    BY <1>4
  <2>2. b + (j + 1) = (b + 1) + j /\ (j < l => j + 1 < n)
    BY <1>2, <1>4
  <2>3. /\ f.data[j + 1] = s[b + (j + 1)] /\ f.data[j + 1].req = r
        /\ j + 1 < n => f.data[j + 1].kind = "entry"
    BY <1>3, <1>7, <2>1
  <2>. QED BY <1>7, <2>1, <2>2, <2>3
<1>9. ASSUME g.data = <<>> PROVE Answered(s, t) = r
  <2>1. n = 1
    <3>1. l = Len(<<>>)
      BY <1>9, Zenon DEF l
    <3>. QED BY <1>4, <3>1
  <2>2. t = b + 1 /\ t # 0 /\ s[t] = u
    BY <1>1, <2>1
  <2>. QED BY <1>2, <1>6, <2>2, AnsweredTyped
<1>. QED BY <1>3, <1>5, <1>7, <1>8, <1>9 DEF Within, l

\* The terminator is the last of the answer, and no request is answered now.
LEMMA EndBetween ==
  ASSUME NEW c, NEW s \in Seq(Units), Numbered(c, s), NEW t \in 0..Len(s), NEW m \in Nat,
         NEW f \in Flows, Within(c, s, f, t, m), f.data # <<>>, f.data[1].kind = "end"
  PROVE  Between(c, s, Fresh, t, m + 1)
<1>1. PICK b \in Nat : /\ t = b + Len(f.data) /\ b + 1 \in 1..Len(s) /\ f.data[1] = s[b + 1]
                       /\ Single => m = b
  BY WithinFacts
<1>2. Len(f.data) = 1
  BY WithinFacts
<1>3. t = b + 1 /\ t # 0 /\ s[t].kind = "end"
  BY <1>1, <1>2
<1>4. Answered(s, t) = 0
  BY <1>3, AnsweredTyped
<1>5. Single => m + 1 = t
  BY <1>1, <1>3
<1>6. Fresh.type = "none"
  BY DEF Fresh
<1>. QED BY <1>4, <1>5, <1>6 DEF Between

\* Nothing is left: the rest of the answer is in later payloads.
LEMMA ConsumedBetween ==
  ASSUME NEW c, NEW s \in Seq(Units), NEW t \in 0..Len(s), NEW m,
         NEW f \in Flows, Within(c, s, f, t, m), f.data = <<>>
  PROVE  Between(c, s, f, t, m)
<1>1. PICK r \in 1..MaxSent : f.request = <<c, r>> /\ Answered(s, t) = r
  BY DEF Within
<1>2. r # 0 /\ f.type = "stream" /\ (Single => m = t - Len(f.data))
  BY ConnectionTrackingAssumption DEF Within
<1>3. Len(f.data) = 0 /\ t \in Nat
  OBVIOUS
<1>. QED BY <1>1, <1>2, <1>3 DEF Between

\* No answer is going on: the first message of the payload decides.
LEMMA MessageBetween ==
  ASSUME NEW c, NEW s \in Seq(Units), Numbered(c, s), NEW units \in Parts, PartOf(s, units),
         NEW f \in Flows, NEW m \in Nat, Between(c, s, f, First(units) - 1, m),
         f.type = "none", Followed(s)
  PROVE  LET u == units[1] IN
         /\ u.kind = "msg" => Between(c, s, Fresh, Last(units), m + 1)
         /\ \A g \in Flows :
              u.kind = "req" /\ g.type = "stream" /\ g.request = <<u.session, u.n>>
                => Between(c, s, g, Last(units), m + 1)
         /\ u.kind \in {"entry", "end"} => ~Single /\ Between(c, s, f, Last(units), m)
         /\ u.kind \in {"msg", "req", "entry", "end"}
         /\ Single => m = First(units) - 1
<1>. DEFINE b == First(units) - 1
            u == units[1]
            t == Last(units)
<1>1. /\ t \in 1..Len(s) /\ b + 1 \in 1..Len(s) /\ b \in 0..Len(s) /\ b \in Nat
      /\ First(units) = b + 1
      /\ t = b + Len(units) /\ Len(units) \in Nat \ {0}
      /\ u = s[b + 1] /\ u.session = c /\ u.n = b + 1
      /\ u.req = Answered(s, b)
      /\ u.kind \in AnswerKinds <=> u.req # 0
      /\ u.kind \notin {"msg", "entry"} => Len(units) = 1
      /\ u \in Units
  BY PartFacts, EndsTyped
<1>2. Single => m = b /\ Answered(s, b) = 0
  BY DEF Between
<1>3. Single => Len(units) = 1
  BY <1>1, <1>2 DEF PartOf
<1>. HIDE DEF b, u, t
<1>4. ASSUME u.kind = "msg" PROVE Between(c, s, Fresh, t, m + 1)
  <2>1. ASSUME Single PROVE m + 1 = t /\ Answered(s, t) = 0
    <3>1. b \in Nat /\ t = b + 1 /\ m = b /\ t \in 0..Len(s)
      <4>1. Len(units) = 1
        BY <1>3, <2>1
      <4>. QED BY <1>1, <1>2, <2>1, <4>1
    <3>2. t # 0 /\ m + 1 = t
      BY <3>1
    <3>. QED BY <1>1, <1>4, <3>1, <3>2, AnsweredTyped
  <2>2. Fresh.type = "none"
    BY DEF Fresh
  <2>. QED BY <2>1, <2>2 DEF Between
<1>5. ASSUME NEW g \in Flows, u.kind = "req", g.type = "stream", g.request = <<u.session, u.n>>
      PROVE  Between(c, s, g, t, m + 1)
  <2>1. t = b + 1 /\ t # 0 /\ t \in 0..Len(s)
    <3>1. Len(units) = 1 /\ b \in Nat
      BY <1>1, <1>5
    <3>. QED BY <1>1, <3>1
  <2>2. Answered(s, t) = t
    BY <1>1, <1>5, <2>1, AnsweredTyped
  <2>3. Single => m + 1 = t
    BY <1>2, <2>1
  <2>4. g.request = <<c, t>>
    BY <1>1, <1>5, <2>1
  <2>. QED BY <1>5, <2>1, <2>2, <2>3, <2>4 DEF Between
<1>6. ASSUME u.kind \in {"entry", "end"} PROVE ~Single /\ Between(c, s, f, t, m)
  <2>1. u.kind \in AnswerKinds
    BY <1>6 DEF AnswerKinds
  <2>2. ~Single
    BY <1>1, <1>2, <2>1
  <2>. QED BY <2>2 DEF Between
<1>7. u.kind \in {"msg", "req", "entry", "end"}
  BY <1>1 DEF Followed, Unfollowed, Units, Kinds, AskingKinds, AnswerKinds
<1>. QED BY <1>2, <1>4, <1>5, <1>6, <1>7 DEF b, u, t

----------------------------------------------------------------------------
(* The invariant behind what is stored, for keys that are used again only  *)
(* when their payloads have been handled (Prompt).                         *)

\* What a connection sends is numbered; before it is opened there is nothing.
HistoryRight ==
  \A c \in Connections :
    /\ Numbered(c, sent[c])
    /\ c > opened => sent[c] = <<>> /\ stored[c] = <<>>

\* A connection that is not damaged has sent nothing that the code cannot follow.
SpoiltRight == \A c \in Connections \ damaged : Followed(sent[c])

\* Every key has a connection of its own, and knows the request it answers.
PeersRight ==
  /\ \A k \in Keys :
       /\ peer[k].session <= opened
       /\ peer[k].session # 0 =>
            peer[k].req = Answered(sent[peer[k].session], Len(sent[peer[k].session]))
  /\ \A j, k \in Keys : peer[j].session = peer[k].session => j = k \/ peer[j].session = 0
  /\ \A c \in damaged : c <= opened

\* What is queued or in hand was sent on the connection its key has now.
PartsRight ==
  /\ \A i \in 1..Len(queue) :
       /\ peer[queue[i].key].session # 0
       /\ PartOf(sent[peer[queue[i].key].session], queue[i].units)
       /\ queue[i].units[1].session = peer[queue[i].key].session
  /\ hand # None =>
       /\ peer[hand.key].session # 0
       /\ PartOf(sent[peer[hand.key].session], hand.units)
       /\ hand.units[1].session = peer[hand.key].session

InLoop(k) == hand # None /\ hand.key = k /\ hand.step = "loop"

\* A flow has data only in the loop, and only of its key's connection.
DataRight ==
  \A k \in Keys : connMgr[k] # 0 =>
    /\ ~InLoop(k) => flows[connMgr[k]].data = <<>>
    /\ \A j \in 1..Len(flows[connMgr[k]].data) :
         flows[connMgr[k]].data[j].session = peer[k].session

\* A connection that is not damaged is decoded up to some unit t, and the queue
\* holds the rest.
Decoded(k, c) ==
  /\ connMgr[k] # 0
  /\ \E t \in 0..Len(sent[c]) :
       /\ Chain(k, queue, sent[c], t)
       /\ At(k, c, sent[c], flows[connMgr[k]], hand, t, Len(stored[c]))

DecodingRight ==
  \A k \in Keys :
    peer[k].session # 0 /\ peer[k].session \notin damaged => Decoded(k, peer[k].session)

\* The rows stored are those of the units sent, in that order.
Prefix(rows, s) ==
  /\ Len(rows) <= Len(s)
  /\ \A i \in 1..Len(rows) : rows[i].unit = s[i]

RowsRight ==
  \A c \in Connections \ damaged :
    /\ \A i \in 1..Len(stored[c]) : stored[c][i] = Row(stored[c][i].unit)
    /\ Single => Prefix(stored[c], sent[c])

\* A connection that no key has any more is stored completely.
LeftRight ==
  Single =>
    \A c \in Connections \ damaged :
      c <= opened /\ (\A k \in Keys : peer[k].session # c) => Len(stored[c]) = Len(sent[c])

DInv ==
  /\ HistoryRight /\ SpoiltRight /\ PeersRight /\ PartsRight /\ DataRight
  /\ DecodingRight /\ RowsRight /\ LeftRight

\* The types of what a key's connection has.
LEMMA SessionTyped ==
  ASSUME IInv, NEW k \in Keys
  PROVE  /\ peer[k] \in Peers /\ peer[k].session \in 0..MaxSessions /\ MaxSessions \in Nat
         /\ peer[k].session # 0 => peer[k].session \in Connections
         /\ connMgr[k] \in Nat
         /\ connMgr[k] # 0 => flows[connMgr[k]] \in Flows
<1>1. /\ peer[k] \in Peers /\ MaxSessions \in Nat /\ connMgr[k] \in 0..Len(flows)
      /\ flows \in Seq(Flows) /\ Len(flows) \in Nat
  BY ConnectionTrackingAssumption DEF IInv, TypeOK
<1>2. peer[k].session \in 0..MaxSessions
  BY <1>1 DEF Peers
<1>. QED BY <1>1, <1>2 DEF Connections

LEMMA HistoryTyped ==
  ASSUME IInv, NEW c \in Connections
  PROVE  /\ sent[c] \in Seq(Units) /\ Len(sent[c]) \in Nat
         /\ stored[c] \in Seq(Rows) /\ Len(stored[c]) \in Nat /\ c \in Nat \ {0}
         /\ opened \in Nat
BY ConnectionTrackingAssumption DEF IInv, TypeOK, Connections

\* Nothing that handling a key's connection depends on is changed.
LEMMA OtherDecoded ==
  ASSUME NEW j \in Keys, NEW c, Decoded(j, c),
         connMgr'[j] = connMgr[j], flows'[connMgr[j]] = flows[connMgr[j]],
         sent'[c] = sent[c], stored'[c] = stored[c],
         hand' = hand \/ (~Handling(j) /\ ~Handling(j)'),
         \A t \in 0..Len(sent[c]) : Chain(j, queue, sent[c], t) => Chain(j, queue', sent[c], t)
  PROVE  Decoded(j, c)'
<1>1. PICK t \in 0..Len(sent[c]) :
        /\ Chain(j, queue, sent[c], t)
        /\ At(j, c, sent[c], flows[connMgr[j]], hand, t, Len(stored[c]))
  BY DEF Decoded
<1>2. Chain(j, queue', sent'[c], t)
  BY <1>1
<1>3. At(j, c, sent[c], flows[connMgr[j]], hand', t, Len(stored[c]))
  <2>1. CASE hand' = hand
    BY <1>1, <2>1
  <2>2. CASE ~Handling(j) /\ ~Handling(j)'
    BY <1>1, <2>2 DEF At, Handling
  <2>. QED BY <2>1, <2>2
<1>4. At(j, c, sent'[c], flows'[connMgr'[j]], hand', t, Len(stored'[c]))
  BY <1>3
<1>. QED BY <1>1, <1>2, <1>4 DEF Decoded

\* Initially no connection has been opened.
LEMMA InitDInv == Init => DInv
<1>. SUFFICES ASSUME Init
              PROVE  DInv
  OBVIOUS
<1>1. HistoryRight
  BY DEF Init, HistoryRight, Numbered
<1>2. PeersRight /\ PartsRight
  BY DEF Init, PeersRight, PartsRight
<1>3. DataRight /\ DecodingRight
  BY DEF Init, DataRight, DecodingRight
<1>4. RowsRight
  BY DEF Init, RowsRight, Prefix
<1>5. LeftRight
  BY DEF Init, LeftRight
<1>6. SpoiltRight
  BY DEF Init, SpoiltRight, Followed
<1>. QED BY <1>1, <1>2, <1>3, <1>4, <1>5, <1>6 DEF DInv

----------------------------------------------------------------------------
(* The capture thread keeps the invariant.                                 *)

\* A key gets a new connection when nothing of the last one is left to handle.
LEMMA ConnectKeeps ==
  ASSUME Prompt, IInv, IInv', DInv, NEW k \in Keys, Connect(k),
         UNCHANGED <<queue, hand, sent, stored>>,
         damaged \subseteq damaged', \A c \in damaged' : c <= opened',
         opened' \in damaged'
           \/ (opened' \notin damaged /\ connMgr'[k] # 0 /\ flows'[connMgr'[k]] = Fresh),
         connMgr'[k] # 0 => flows'[connMgr'[k]].data = <<>>,
         \A j \in Keys \ {k} : /\ connMgr'[j] = connMgr[j]
                               /\ connMgr[j] # 0 => flows'[connMgr[j]] = flows[connMgr[j]]
  PROVE  DInv'
<1>. DEFINE new == opened'
<1>1. /\ new = opened + 1 /\ new \in Connections /\ opened \in Nat /\ new \in Nat
      /\ peer'[k].session = new /\ peer'[k].req = 0
      /\ \A j \in Keys \ {k} : peer'[j] = peer[j]
      /\ ~Waiting(k) /\ ~Handling(k)
  <2>1. TypeOK /\ opened \in Nat
    BY ConnectionTrackingAssumption DEF IInv, TypeOK
  <2>2. ~Waiting(k) /\ ~Handling(k)
    BY DEF Connect
  <2>. QED BY <2>1, <2>2, ConnectTyped
<1>2. /\ \A j \in Keys : peer[j].session <= opened /\ peer[j].session \in Nat
      /\ \A c \in Connections : c \in Nat
  BY SessionTyped DEF DInv, PeersRight, Connections
<1>3. /\ sent[new] = <<>> /\ stored[new] = <<>> /\ Len(<<>>) = 0
      /\ sent' = sent /\ stored' = stored /\ queue' = queue /\ hand' = hand
  <2>1. new > opened
    BY <1>1
  <2>. QED BY <1>1, <2>1 DEF DInv, HistoryRight
<1>. HIDE DEF new
<1>4. HistoryRight'
  <2>1. \A c \in Connections : c > opened' => c > opened
    BY <1>1, <1>2 DEF new
  <2>. QED BY <1>3, <2>1 DEF DInv, HistoryRight
<1>5. PeersRight'
  <2>1. \A j \in Keys : peer'[j].session <= opened'
    BY <1>1, <1>2 DEF new
  <2>2. \A j \in Keys : peer'[j].session # 0 =>
          peer'[j].req = Answered(sent'[peer'[j].session], Len(sent'[peer'[j].session]))
    <3>. SUFFICES ASSUME NEW j \in Keys, peer'[j].session # 0
                  PROVE  peer'[j].req = Answered(sent[peer'[j].session], Len(sent[peer'[j].session]))
      BY <1>3
    <3>1. CASE j = k
      BY <1>1, <1>3, <3>1 DEF Answered
    <3>2. CASE j # k
      BY <1>1, <3>2 DEF DInv, PeersRight
    <3>. QED BY <3>1, <3>2
  <2>3. \A i, j \in Keys : peer'[i].session = peer'[j].session => i = j \/ peer'[i].session = 0
    <3>. SUFFICES ASSUME NEW i \in Keys, NEW j \in Keys, i # j,
                         peer'[i].session = peer'[j].session
                  PROVE  peer'[i].session = 0
      OBVIOUS
    <3>1. \A x \in Keys : peer[x].session # new
      BY <1>1, <1>2
    <3>2. i # k /\ j # k
      BY <1>1, <3>1
    <3>. QED BY <1>1, <3>2 DEF DInv, PeersRight
  <2>. QED BY <2>1, <2>2, <2>3 DEF PeersRight
<1>6. PartsRight'
  <2>1. \A i \in 1..Len(queue) : queue[i].key \in Keys \ {k}
    BY <1>1, QueuedTyped DEF Waiting
  <2>2. hand # None => hand.key \in Keys \ {k}
    BY <1>1, InHand DEF Handling
  <2>. QED BY <1>1, <1>3, <2>1, <2>2 DEF DInv, PartsRight
<1>7. DataRight'
  <2>. SUFFICES ASSUME NEW j \in Keys, connMgr'[j] # 0
                PROVE  /\ ~InLoop(j)' => flows'[connMgr'[j]].data = <<>>
                       /\ \A i \in 1..Len(flows'[connMgr'[j]].data) :
                            flows'[connMgr'[j]].data[i].session = peer'[j].session
    BY DEF DataRight
  <2>1. CASE j = k
    BY <1>3, <2>1
  <2>2. CASE j # k
    <3>1. /\ connMgr'[j] = connMgr[j] /\ flows'[connMgr[j]] = flows[connMgr[j]]
          /\ peer'[j] = peer[j] /\ InLoop(j)' = InLoop(j)
      BY <1>1, <1>3, <2>2 DEF InLoop
    <3>. QED BY <3>1 DEF DInv, DataRight
  <2>. QED BY <2>1, <2>2
<1>8. DecodingRight'
  <2>. SUFFICES ASSUME NEW j \in Keys, peer'[j].session # 0, peer'[j].session \notin damaged'
                PROVE  Decoded(j, peer[j].session)' 
    BY DEF DecodingRight
  <2>1. CASE j = k
    <3>1. new \notin damaged' /\ connMgr'[k] # 0 /\ flows'[connMgr'[k]] = Fresh
      BY <1>1, <2>1 DEF new
    <3>2. Chain(k, queue, <<>>, 0)
      <4>1. 0 + 1..0 = {}
        OBVIOUS
      <4>. QED BY <1>1, <1>3, <4>1 DEF Chain, Waiting
    <3>3. Between(new, <<>>, Fresh, 0, 0)
      BY DEF Between, Answered, Fresh
    <3>4. At(k, new, <<>>, Fresh, hand, 0, 0)
      BY <1>1, <3>3 DEF At, Handling
    <3>5. /\ Chain(k, queue', sent'[new], 0)
          /\ At(k, new, sent'[new], flows'[connMgr'[k]], hand', 0, Len(stored'[new]))
          /\ 0 \in 0..Len(sent'[new])
      BY <1>3, <3>1, <3>2, <3>4
    <3>6. Decoded(k, peer[k].session)'
      BY <1>1, <3>1, <3>5 DEF Decoded
    <3>. QED BY <2>1, <3>6
  <2>2. CASE j # k
    <3>. DEFINE c == peer[j].session
    <3>1. peer'[j] = peer[j] /\ c # 0 /\ c \notin damaged
      BY <1>1, <2>2
    <3>2. Decoded(j, c)
      BY <3>1 DEF DInv, DecodingRight
    <3>3. connMgr[j] # 0
      BY <3>2 DEF Decoded
    <3>. HIDE DEF c
    <3>4. connMgr'[j] = connMgr[j] /\ flows'[connMgr[j]] = flows[connMgr[j]]
      BY <2>2, <3>3
    <3>5. Decoded(j, peer[j].session)' <=> Decoded(j, c)'
      BY <3>1 DEF c, Decoded
    <3>6. c' = c
      BY <3>1 DEF c
    <3>. QED BY <1>3, <3>2, <3>4, <3>5, <3>6, OtherDecoded
  <2>. QED BY <2>1, <2>2
<1>9. RowsRight'
  BY <1>3 DEF DInv, RowsRight
<1>10. LeftRight'
  <2>. SUFFICES ASSUME Single, NEW c \in Connections, c \notin damaged', c <= opened',
                       \A j \in Keys : peer'[j].session # c
                PROVE  Len(stored[c]) = Len(sent[c])
    BY <1>3 DEF LeftRight
  <2>1. c <= opened /\ c \notin damaged /\ c # 0
    BY <1>1, <1>2 DEF new, Connections
  <2>2. CASE \A j \in Keys : peer[j].session # c
    BY <2>1, <2>2 DEF DInv, LeftRight
  <2>3. CASE \E j \in Keys : peer[j].session = c
    <3>1. peer[k].session = c
      BY <1>1, <2>3
    <3>2. Decoded(k, c)
      BY <2>1, <3>1 DEF DInv, DecodingRight
    <3>3. PICK t \in 0..Len(sent[c]) :
            /\ Chain(k, queue, sent[c], t)
            /\ At(k, c, sent[c], flows[connMgr[k]], hand, t, Len(stored[c]))
      BY <3>2 DEF Decoded
    <3>4. t = Len(sent[c])
      BY <1>1, <3>3, ChainEmpty, HistoryTyped DEF Waiting
    <3>5. Len(stored[c]) = t
      BY <1>1, <3>3 DEF At, Handling, Between
    <3>. QED BY <3>4, <3>5
  <2>. QED BY <2>2, <2>3
<1>11. SpoiltRight'
  BY <1>3 DEF DInv, SpoiltRight
<1>. QED BY <1>4, <1>5, <1>6, <1>7, <1>8, <1>9, <1>10, <1>11 DEF DInv

\* The start of a connection is seen, or not.
LEMMA StartKeeps ==
  ASSUME Prompt, IInv, DInv, NEW k \in Keys, ConnectionStart(k) \/ ConnectionUnseen(k)
  PROVE  DInv'
<1>1. /\ Connect(k) /\ UNCHANGED <<queue, hand, sent, stored>> /\ TypeOK
      /\ opened' = opened + 1 /\ opened \in Nat
  BY ConnectionTrackingAssumption DEF ConnectionStart, ConnectionUnseen, Connect, IInv, TypeOK
<1>2. \A c \in damaged : c \in Nat /\ c <= opened
  <2>1. damaged \subseteq Connections /\ \A c \in Connections : c \in Nat
    BY DEF IInv, TypeOK, Connections
  <2>. QED BY <2>1 DEF DInv, PeersRight
<1>3. CASE ConnectionStart(k)
  <2>1. /\ IInv' /\ connMgr'[k] # 0 /\ flows'[connMgr'[k]] = Fresh
        /\ \A j \in Keys \ {k} : /\ connMgr'[j] = connMgr[j]
                                 /\ connMgr[j] # 0 => flows'[connMgr[j]] = flows[connMgr[j]]
    BY <1>3, Started
  <2>2. damaged' = damaged
    BY <1>3 DEF ConnectionStart
  <2>3. \A c \in damaged' : c <= opened'
    BY <1>1, <1>2, <2>2
  <2>4. opened' \notin damaged
    BY <1>1, <1>2
  <2>5. flows'[connMgr'[k]].data = <<>>
    BY <2>1 DEF Fresh
  <2>. QED BY <1>1, <2>1, <2>2, <2>3, <2>4, <2>5, ConnectKeeps
<1>4. CASE ConnectionUnseen(k)
  <2>1. /\ IInv' /\ UNCHANGED <<connMgr, flows>> /\ damaged' = damaged \cup {opened'}
    BY <1>4, Unseen DEF ConnectionUnseen
  <2>2. ~InLoop(k)
    BY <1>1 DEF Connect, Handling, InLoop
  <2>3. connMgr[k] # 0 => flows[connMgr[k]].data = <<>>
    BY <2>2 DEF DInv, DataRight
  <2>4. \A c \in damaged' : c <= opened'
    BY <1>1, <1>2, <2>1
  <2>. QED BY <1>1, <2>1, <2>3, <2>4, ConnectKeeps
<1>. QED BY <1>1, <1>3, <1>4 DEF ConnectionStart, ConnectionUnseen

\* The end of a connection is nothing to the processing thread.
LEMMA EndKeeps ==
  ASSUME IInv, DInv, NEW k \in Keys, ConnectionEnd(k)
  PROVE  DInv'
<1>1. /\ \A j \in Keys : peer'[j].session = peer[j].session /\ peer'[j].req = peer[j].req
      /\ UNCHANGED <<opened, connMgr, flows, queue, hand, sent, stored, damaged>>
  BY Ended DEF ConnectionEnd
<1>2. HistoryRight' /\ SpoiltRight' /\ RowsRight' /\ LeftRight'
  BY <1>1 DEF DInv, HistoryRight, SpoiltRight, RowsRight, LeftRight
<1>3. PeersRight'
  BY <1>1 DEF DInv, PeersRight
<1>4. PartsRight'
  <2>1. \A i \in 1..Len(queue) : queue[i].key \in Keys
    BY QueuedTyped
  <2>2. hand # None => hand.key \in Keys
    BY InHand
  <2>. QED BY <1>1, <2>1, <2>2 DEF DInv, PartsRight
<1>5. DataRight'
  BY <1>1 DEF DInv, DataRight, InLoop
<1>6. DecodingRight'
  BY <1>1 DEF DInv, DecodingRight, Decoded
<1>. QED BY <1>2, <1>3, <1>4, <1>5, <1>6 DEF DInv

\* What is decoded stays so when the connection of the key sends more.
LEMMA AtKept ==
  ASSUME NEW k, NEW c, NEW s \in Seq(Units), Numbered(c, s), NEW s2 \in Seq(Units),
         Extends(s2, s), NEW f \in Flows, NEW h, NEW t \in 0..Len(s), NEW m,
         h # None /\ h.key = k => h.units \in Parts /\ PartOf(s, h.units),
         At(k, c, s, f, h, t, m)
  PROVE  At(k, c, s2, f, h, t, m)
<1>1. CASE ~(h # None /\ h.key = k)
  BY <1>1, BetweenKept DEF At
<1>2. CASE h # None /\ h.key = k
  <2>1. First(h.units) \in 1..Len(s) /\ Len(s) \in Nat
    BY <1>2, PartFacts
  <2>2. First(h.units) - 1 \in 0..Len(s)
    BY <2>1
  <2>3. h.step = "branch" =>
          t = Last(h.units) /\ Between(c, s2, f, First(h.units) - 1, m)
    BY <1>2, <2>2, BetweenKept DEF At
  <2>4. h.step = "loop" => Within(c, s2, f, t, m)
    BY <1>2, WithinKept DEF At
  <2>. QED BY <1>2, <2>3, <2>4 DEF At
<1>. QED BY <1>1, <1>2

\* A payload is sent, and queued or dropped because of a gap.
LEMMA PayloadKeeps ==
  ASSUME IInv, DInv, NEW k \in Keys, peer[k].session # 0, NEW units \in Payloads(k),
         MsgReady(k, units) \/ MsgMissing(k, units)
  PROVE  DInv'
<1>. DEFINE c == peer[k].session
            s == sent[c]
            s2 == sent'[c]
<1>1. /\ Send(k, units) /\ Insert(k) /\ UNCHANGED <<opened, hand, stored>>
      /\ IInv' /\ TypeOK /\ damaged \subseteq damaged'
      /\ damaged' \subseteq damaged \cup {c}
  BY PayloadTyped DEF MsgReady, MsgMissing, Spoil, IInv
<1>2. /\ units \in Parts /\ Continues(c, s, peer[k].req, units)
  BY <1>1, PayloadsTyped
<1>3. /\ sent' \in [Connections -> Seq(Units)] /\ c \in Connections
      /\ peer'[k].session = c /\ peer'[k].req = Answering(units[Len(units)])
      /\ \A j \in Keys \ {k} : peer'[j] = peer[j]
      /\ s2 = s \o units
      /\ \A d \in Connections \ {c} : sent'[d] = sent[d]
  BY <1>1, SendTyped
<1>4. /\ s \in Seq(Units) /\ s2 \in Seq(Units) /\ Numbered(c, s)
      /\ peer[k].req = Answered(s, Len(s)) /\ c <= opened /\ c # 0
  BY <1>3, HistoryTyped DEF DInv, HistoryRight, PeersRight
<1>. HIDE DEF s, s2
<1>5. /\ Extends(s2, s) /\ Numbered(c, s2) /\ PartOf(s2, units)
      /\ First(units) = Len(s) + 1 /\ Last(units) = Len(s2)
      /\ Answered(s2, Len(s2)) = Answering(units[Len(units)])
  <2>. HIDE DEF c
  <2>1. Continues(c, s, Answered(s, Len(s)), units)
    BY <1>2, <1>4
  <2>2. /\ s \in Seq(Units) /\ Numbered(c, s) /\ units \in Parts
        /\ s2 \in Seq(Units) /\ s2 = s \o units
    BY <1>2, <1>3, <1>4
  <2>3. Extends(s2, s) /\ Numbered(c, s2) /\ PartOf(s2, units)
    BY <2>1, <2>2, SentMore, Zenon
  <2>4. First(units) = Len(s) + 1 /\ Last(units) = Len(s2)
    BY <2>1, <2>2, SentMore, Zenon
  <2>5. Answered(s2, Len(s2)) = Answering(units[Len(units)])
    <3>1. units \in Seq(Units) /\ Len(units) \in Nat \ {0} /\ Len(s) \in Nat
      BY <2>2, EndsTyped DEF Parts
    <3>2. Len(s2) # 0 /\ s2[Len(s2)] = units[Len(units)]
      BY <2>2, <3>1
    <3>. QED BY <3>2 DEF Answered
  <2>. QED BY <2>3, <2>4, <2>5
<1>6. /\ \A j \in Keys : peer'[j].session = peer[j].session
      /\ \A j \in Keys : j # k /\ peer[j].session # 0 =>
           peer[j].session \in Connections /\ peer[j].session # c
      /\ \A j \in Keys : peer[j].session # 0 =>
           /\ Extends(sent'[peer[j].session], sent[peer[j].session])
           /\ sent[peer[j].session] \in Seq(Units) /\ sent'[peer[j].session] \in Seq(Units)
  <2>1. \A j \in Keys : peer'[j].session = peer[j].session
    BY <1>3
  <2>2. \A j \in Keys : j # k /\ peer[j].session # 0 =>
           peer[j].session \in Connections /\ peer[j].session # c
    BY <1>4, SessionTyped DEF DInv, PeersRight
  <2>3. \A d \in Connections :
          /\ Extends(sent'[d], sent[d])
          /\ sent[d] \in Seq(Units) /\ sent'[d] \in Seq(Units)
    <3>. SUFFICES ASSUME NEW d \in Connections
                  PROVE  /\ Extends(sent'[d], sent[d])
                         /\ sent[d] \in Seq(Units) /\ sent'[d] \in Seq(Units)
      OBVIOUS
    <3>1. sent[d] \in Seq(Units) /\ sent'[d] \in Seq(Units)
      BY <1>3, HistoryTyped
    <3>2. CASE d = c
      BY <1>5, <3>1, <3>2 DEF s, s2
    <3>3. CASE d # c
      BY <1>3, <3>1, <3>3 DEF Extends
    <3>. QED BY <3>1, <3>2, <3>3
  <2>. QED BY <1>3, <2>1, <2>2, <2>3, SessionTyped
<1>7. HistoryRight'
  <2>. SUFFICES ASSUME NEW d \in Connections
                PROVE  /\ Numbered(d, sent'[d])
                       /\ d > opened' => sent'[d] = <<>> /\ stored'[d] = <<>>
    BY DEF HistoryRight
  <2>1. CASE d = c
    <3>1. ~(d > opened')
      BY <1>1, <1>4, <2>1, HistoryTyped
    <3>. QED BY <1>5, <2>1, <3>1 DEF s2
  <2>2. CASE d # c
    BY <1>1, <1>3, <2>2 DEF DInv, HistoryRight
  <2>. QED BY <2>1, <2>2
<1>8. PeersRight'
  <2>1. \A j \in Keys : peer'[j].session # 0 =>
          peer'[j].req = Answered(sent'[peer'[j].session], Len(sent'[peer'[j].session]))
    <3>. SUFFICES ASSUME NEW j \in Keys, peer[j].session # 0
                  PROVE  peer'[j].req = Answered(sent'[peer[j].session], Len(sent'[peer[j].session]))
      BY <1>6
    <3>1. CASE j = k
      BY <1>3, <1>5, <3>1 DEF s2
    <3>2. CASE j # k
      BY <1>3, <1>6, <3>2 DEF DInv, PeersRight
    <3>. QED BY <3>1, <3>2
  <2>2. \A d \in damaged' : d <= opened'
    BY <1>1, <1>4 DEF DInv, PeersRight
  <2>3. /\ \A j \in Keys : peer'[j].session <= opened'
        /\ \A i, j \in Keys : peer'[i].session = peer'[j].session => i = j \/ peer'[i].session = 0
    BY <1>1, <1>6 DEF DInv, PeersRight
  <2>. QED BY <2>1, <2>2, <2>3 DEF PeersRight
<1>9. PartsRight'
  <2>1. \A i \in 1..Len(queue) :
          /\ peer'[queue[i].key].session # 0
          /\ PartOf(sent'[peer'[queue[i].key].session], queue[i].units)
          /\ queue[i].units[1].session = peer'[queue[i].key].session
    <3>. SUFFICES ASSUME NEW i \in 1..Len(queue)
                  PROVE  /\ peer'[queue[i].key].session # 0
                         /\ PartOf(sent'[peer'[queue[i].key].session], queue[i].units)
                         /\ queue[i].units[1].session = peer'[queue[i].key].session
      OBVIOUS
    <3>1. /\ queue[i].key \in Keys /\ queue[i].units \in Parts
          /\ peer[queue[i].key].session # 0
          /\ PartOf(sent[peer[queue[i].key].session], queue[i].units)
          /\ queue[i].units[1].session = peer[queue[i].key].session
      BY QueuedTyped DEF DInv, PartsRight
    <3>. QED BY <1>6, <3>1, PartKept
  <2>2. hand # None =>
          /\ peer'[hand.key].session # 0
          /\ PartOf(sent'[peer'[hand.key].session], hand.units)
          /\ hand.units[1].session = peer'[hand.key].session
    <3>. SUFFICES ASSUME hand # None
                  PROVE  /\ peer'[hand.key].session # 0
                         /\ PartOf(sent'[peer'[hand.key].session], hand.units)
                         /\ hand.units[1].session = peer'[hand.key].session
      OBVIOUS
    <3>1. /\ hand.key \in Keys /\ hand.units \in Parts
          /\ peer[hand.key].session # 0
          /\ PartOf(sent[peer[hand.key].session], hand.units)
          /\ hand.units[1].session = peer[hand.key].session
      BY InHand DEF DInv, PartsRight
    <3>. QED BY <1>6, <3>1, PartKept
  <2>3. CASE queue' = queue
    BY <1>1, <2>1, <2>2, <2>3 DEF PartsRight
  <2>4. CASE MsgReady(k, units)
    <3>1. /\ queue' = Append(queue, [key |-> k, flow |-> connMgr'[k], units |-> units])
          /\ connMgr'[k] \in Nat \ {0}
      BY <1>1, <2>4, InsertKeeps, SessionTyped DEF MsgReady, IInv, TypeOK
    <3>2. /\ Len(queue') = Len(queue) + 1
          /\ \A i \in 1..Len(queue) : queue'[i] = queue[i]
          /\ queue'[Len(queue) + 1].key = k
          /\ queue'[Len(queue) + 1].units = units
          /\ \A i \in 1..Len(queue') : i \in 1..Len(queue) \/ i = Len(queue) + 1
      BY <1>2, <3>1, Behind
    <3>3. peer'[k].session # 0 /\ PartOf(sent'[peer'[k].session], units)
      BY <1>3, <1>5 DEF s2
    <3>4. units[1].session = peer'[k].session
      <4>1. 1 \in 1..Len(units)
        BY <1>2, EndsTyped
      <4>. QED BY <1>2, <1>3, <4>1 DEF Continues
    <3>. QED BY <1>1, <2>1, <2>2, <3>2, <3>3, <3>4 DEF PartsRight
  <2>. QED BY <2>3, <2>4 DEF MsgMissing
<1>10. /\ \A j \in Keys : connMgr[j] # 0 =>
            connMgr'[j] = connMgr[j] /\ flows'[connMgr[j]] = flows[connMgr[j]]
       /\ \A j \in Keys : connMgr[j] = 0 /\ connMgr'[j] # 0 => flows'[connMgr'[j]] = Fresh
  <2>1. \A j \in Keys : connMgr[j] # 0 => connMgr[j] \in 1..Len(flows)
    BY DEF IInv, TypeOK
  <2>. QED BY <1>1, <2>1, InsertKeeps
<1>11. DataRight'
  <2>. SUFFICES ASSUME NEW j \in Keys, connMgr'[j] # 0
                PROVE  /\ ~InLoop(j)' => flows'[connMgr'[j]].data = <<>>
                       /\ \A i \in 1..Len(flows'[connMgr'[j]].data) :
                            flows'[connMgr'[j]].data[i].session = peer'[j].session
    BY DEF DataRight
  <2>1. CASE connMgr[j] = 0
    <3>1. flows'[connMgr'[j]].data = <<>> /\ Len(<<>>) = 0
      BY <1>10, <2>1 DEF Fresh
    <3>. QED BY <3>1
  <2>2. CASE connMgr[j] # 0
    <3>1. InLoop(j)' = InLoop(j)
      BY <1>1 DEF InLoop
    <3>. QED BY <1>6, <1>10, <2>2, <3>1 DEF DInv, DataRight
  <2>. QED BY <2>1, <2>2
<1>12. DecodingRight'
  <2>. SUFFICES ASSUME NEW j \in Keys, NEW d, d = peer[j].session, d # 0, d \notin damaged'
                PROVE  Decoded(j, d)'
    BY <1>6 DEF DecodingRight, Decoded
  <2>1. Decoded(j, d) /\ connMgr[j] # 0
    BY <1>1 DEF DInv, DecodingRight, Decoded
  <2>2. connMgr'[j] = connMgr[j] /\ flows'[connMgr[j]] = flows[connMgr[j]]
    BY <1>10, <2>1
  <2>3. CASE j # k
    <3>1. sent'[d] = sent[d] /\ stored'[d] = stored[d] /\ hand' = hand
      BY <1>1, <1>3, <1>6, <2>3
    <3>2. \A t \in 0..Len(sent[d]) : Chain(j, queue, sent[d], t) => Chain(j, queue', sent[d], t)
      <4>1. CASE queue' = queue
        BY <4>1
      <4>2. CASE MsgReady(k, units)
        <5>1. /\ queue' = Append(queue, [key |-> k, flow |-> connMgr'[k], units |-> units])
              /\ connMgr'[k] \in Nat \ {0}
          <6>1. queue' = Append(queue, [key |-> k, flow |-> connMgr'[k], units |-> units])
            BY <4>2 DEF MsgReady
          <6>2. connMgr'[k] \in Nat \ {0}
            BY <1>1, InsertKeeps
          <6>. QED BY <6>1, <6>2
        <5>2. /\ Len(queue') = Len(queue) + 1 /\ Len(queue) \in Nat
              /\ \A i \in 1..Len(queue) : queue'[i] = queue[i]
              /\ queue'[Len(queue) + 1].key # j
          BY <1>2, <2>3, <5>1, Behind
        <5>. QED BY <5>2, ChainBeside
      <4>. QED BY <4>1, <4>2 DEF MsgMissing
    <3>. QED BY <2>1, <2>2, <3>1, <3>2, OtherDecoded
  <2>4. CASE j = k
    <3>1. d = c /\ MsgReady(k, units)
      BY <2>4 DEF MsgMissing
    <3>2. PICK t \in 0..Len(s) :
            Chain(k, queue, s, t) /\ At(k, d, s, flows[connMgr[k]], hand, t, Len(stored[d]))
      BY <2>1, <2>4, <3>1 DEF Decoded, s
    <3>3. /\ queue' = Append(queue, [key |-> k, flow |-> connMgr'[k], units |-> units])
          /\ connMgr'[k] \in Nat \ {0}
      BY <1>1, <3>1, InsertKeeps, SessionTyped DEF MsgReady, IInv, TypeOK
    <3>4. /\ Len(queue') = Len(queue) + 1
          /\ \A i \in 1..Len(queue) : queue'[i] = queue[i]
          /\ queue'[Len(queue) + 1].key = k
          /\ queue'[Len(queue) + 1].units = units
      BY <1>2, <3>3, Behind
    <3>5. \A i \in 1..Len(queue) : queue[i].key = k => Last(queue[i].units) <= Len(s)
      <4>. SUFFICES ASSUME NEW i \in 1..Len(queue), queue[i].key = k
                    PROVE  Last(queue[i].units) <= Len(s)
        OBVIOUS
      <4>1. queue[i].units \in Parts /\ PartOf(s, queue[i].units)
        BY QueuedTyped DEF DInv, PartsRight, s
      <4>. QED BY <1>4, <1>5, <4>1, PartKept
    <3>6. Chain(k, queue', s2, t)
      BY <1>4, <1>5, <3>2, <3>4, <3>5, EndsOfQueue, ChainBehind
    <3>7. hand # None /\ hand.key = k => hand.units \in Parts /\ PartOf(s, hand.units)
      BY InHand DEF DInv, PartsRight, s
    <3>8. flows[connMgr[k]] \in Flows
      BY <2>1, <2>4, SessionTyped
    <3>9. At(k, d, s2, flows[connMgr[k]], hand, t, Len(stored[d]))
      <4>. HIDE DEF c
      <4>1. Numbered(d, s)
        BY <1>4, <3>1
      <4>. QED BY <1>4, <1>5, <3>2, <3>7, <3>8, <4>1, AtKept
    <3>10. t \in 0..Len(s2)
      <4>1. Len(s) <= Len(s2) /\ Len(s) \in Nat /\ Len(s2) \in Nat
        BY <1>4, <1>5 DEF Extends
      <4>. QED BY <4>1
    <3>11. /\ Chain(k, queue', sent'[d], t) /\ t \in 0..Len(sent'[d])
           /\ At(k, d, sent'[d], flows'[connMgr'[k]], hand', t, Len(stored'[d]))
      BY <1>1, <2>2, <2>4, <3>1, <3>6, <3>9, <3>10 DEF s2
    <3>. QED BY <2>1, <2>2, <2>4, <3>11 DEF Decoded
  <2>. QED BY <2>3, <2>4
<1>13. RowsRight'
  <2>. SUFFICES ASSUME NEW d \in Connections, d \notin damaged
                PROVE  /\ \A i \in 1..Len(stored[d]) : stored[d][i] = Row(stored[d][i].unit)
                       /\ Single => Prefix(stored[d], sent'[d])
    BY <1>1 DEF RowsRight
  <2>1. /\ \A i \in 1..Len(stored[d]) : stored[d][i] = Row(stored[d][i].unit)
        /\ Single => Prefix(stored[d], sent[d])
    BY DEF DInv, RowsRight
  <2>2. Extends(sent'[d], sent[d])
    <3>1. CASE d = c
      BY <1>5, <3>1 DEF s, s2
    <3>2. CASE d # c
      BY <1>3, <3>2, HistoryTyped DEF Extends
    <3>. QED BY <3>1, <3>2
  <2>3. ASSUME Single PROVE Prefix(stored[d], sent'[d])
    <3>1. /\ Len(stored[d]) <= Len(sent[d]) /\ Len(sent[d]) <= Len(sent'[d])
          /\ \A i \in 1..Len(stored[d]) : stored[d][i].unit = sent[d][i]
          /\ \A i \in 1..Len(sent[d]) : sent'[d][i] = sent[d][i]
      BY <2>1, <2>2, <2>3 DEF Prefix, Extends
    <3>2. Len(stored[d]) \in Nat /\ Len(sent[d]) \in Nat /\ Len(sent'[d]) \in Nat
      BY <1>3, HistoryTyped
    <3>. QED BY <3>1, <3>2 DEF Prefix
  <2>. QED BY <2>1, <2>3
<1>14. LeftRight'
  <2>. SUFFICES ASSUME Single, NEW d \in Connections, d \notin damaged, d <= opened,
                       \A j \in Keys : peer[j].session # d
                PROVE  Len(stored[d]) = Len(sent'[d])
    BY <1>1, <1>6 DEF LeftRight
  <2>1. d # c
    OBVIOUS
  <2>. QED BY <1>3, <2>1 DEF DInv, LeftRight
<1>15. SpoiltRight'
  <2>. SUFFICES ASSUME NEW d \in Connections, d \notin damaged'
                PROVE  Followed(sent'[d])
    BY DEF SpoiltRight
  <2>1. d \notin damaged /\ Followed(sent[d])
    BY <1>1 DEF DInv, SpoiltRight
  <2>2. CASE d # c
    BY <1>3, <2>1, <2>2
  <2>3. CASE d = c
    <3>1. units[1].kind \notin Unfollowed
      <4>1. Head(units) = units[1]
        BY <1>2 DEF Parts
      <4>2. MsgReady(k, units)
        BY <2>3 DEF MsgMissing
      <4>. QED BY <2>3, <4>1, <4>2 DEF MsgReady, Spoil
    <3>2. \A i \in 1..Len(units) : units[i].kind \notin Unfollowed
      BY <1>2, <3>1 DEF Continues
    <3>3. \A n \in 1..Len(s) : s[n].kind \notin Unfollowed
      BY <2>1, <2>3 DEF Followed, s
    <3>. QED
      <4>1. units \in Seq(Units) /\ s \in Seq(Units) /\ s2 = s \o units
        BY <1>2, <1>3, <1>4 DEF Parts
      <4>2. \A n \in 1..Len(s2) : s2[n].kind \notin Unfollowed
        BY <3>2, <3>3, <4>1
      <4>. QED BY <2>3, <4>2 DEF Followed, s2
  <2>. QED BY <2>2, <2>3
<1>. QED BY <1>7, <1>8, <1>9, <1>11, <1>12, <1>13, <1>14, <1>15 DEF DInv

----------------------------------------------------------------------------
(* The processing thread keeps the invariant.                              *)

\* The first payload of the queue is taken.
LEMMA TakeKeeps ==
  ASSUME IInv, DInv, Take
  PROVE  DInv'
<1>. DEFINE k == queue[1].key
            units == queue[1].units
<1>1. /\ IInv' /\ Len(queue) \in Nat \ {0} /\ Len(queue') = Len(queue) - 1
      /\ \A i \in 1..Len(queue') : queue'[i] = queue[i + 1] /\ i + 1 \in 1..Len(queue)
      /\ hand' # None /\ hand'.key = k /\ hand'.units = units /\ hand'.step = "branch"
  BY Taken
<1>2. hand = None /\ UNCHANGED <<peer, opened, connMgr, flows, sent, stored, damaged>>
  BY DEF Take
<1>3. /\ 1 \in 1..Len(queue) /\ k \in Keys /\ units \in Parts
      /\ peer[k].session # 0 /\ PartOf(sent[peer[k].session], units)
      /\ units[1].session = peer[k].session
  <2>1. 1 \in 1..Len(queue)
    BY <1>1
  <2>. QED BY <2>1, QueuedTyped DEF DInv, PartsRight
<1>4. HistoryRight' /\ SpoiltRight' /\ PeersRight' /\ RowsRight' /\ LeftRight'
  BY <1>2 DEF DInv, HistoryRight, SpoiltRight, PeersRight, RowsRight, LeftRight
<1>. HIDE DEF k, units
<1>5. PartsRight'
  BY <1>1, <1>2, <1>3 DEF DInv, PartsRight
<1>6. DataRight'
  <2>1. \A j \in Keys : ~InLoop(j) /\ ~InLoop(j)'
    BY <1>1, <1>2 DEF InLoop
  <2>. QED BY <1>2, <2>1 DEF DInv, DataRight
<1>7. DecodingRight'
  <2>. SUFFICES ASSUME NEW j \in Keys, NEW c, c = peer[j].session, c # 0, c \notin damaged
                PROVE  Decoded(j, c)'
    BY <1>2 DEF DecodingRight, Decoded
  <2>1. Decoded(j, c) /\ c \in Connections
    BY SessionTyped DEF DInv, DecodingRight
  <2>2. CASE j # k
    <3>1. \A t \in 0..Len(sent[c]) : Chain(j, queue, sent[c], t) => Chain(j, queue', sent[c], t)
      BY <1>1, <2>2, ChainShifted DEF k
    <3>2. ~Handling(j) /\ ~Handling(j)'
      BY <1>1, <1>2, <2>2 DEF Handling
    <3>. QED BY <1>2, <2>1, <3>1, <3>2, OtherDecoded
  <2>3. CASE j = k
    <3>. DEFINE s == sent[c]
    <3>1. connMgr[k] # 0 /\ s \in Seq(Units) /\ Numbered(c, s) /\ PartOf(s, units)
      BY <1>3, <2>1, <2>3, HistoryTyped DEF DInv, HistoryRight, Decoded
    <3>2. PICK t \in 0..Len(s) :
            Chain(k, queue, s, t) /\ At(k, c, s, flows[connMgr[k]], hand, t, Len(stored[c]))
      BY <2>1, <2>3 DEF Decoded
    <3>. HIDE DEF s
    <3>3. Last(units) \in 1..Len(s) /\ Len(s) \in Nat
      BY <1>3, <3>1, PartFacts
    <3>4. Last(units) \in 0..Len(s) /\ Last(units) <= Len(s)
      BY <3>3
    <3>5. t = First(units) - 1 /\ Chain(k, queue', s, Last(units))
      BY <1>1, <3>1, <3>2, <3>4, EndsOfQueue, ChainTaken DEF k, units
    <3>6. Between(c, s, flows[connMgr[k]], t, Len(stored[c]))
      BY <1>2, <3>2 DEF At
    <3>7. At(k, c, s, flows[connMgr[k]], hand', Last(units), Len(stored[c]))
      BY <1>1, <3>5, <3>6 DEF At
    <3>. QED BY <1>2, <2>3, <3>1, <3>4, <3>5, <3>7 DEF Decoded, s
  <2>. QED BY <2>2, <2>3
<1>. QED BY <1>4, <1>5, <1>6, <1>7 DEF DInv

\* The row that comes next for connection c: that of the next unit sent.
NextRow(c, u, row) ==
  /\ row = Row(u)
  /\ Single => Len(stored[c]) < Len(sent[c]) /\ u = sent[c][Len(stored[c]) + 1]

\* Nothing is stored, or the next row of connection c, if that is not damaged.
StoresNext(c) ==
  \/ stored' = stored
  \/ \E u, row : Puts(u, row) /\ u.session = c /\ (c \notin damaged => NextRow(c, u, row))

\* A step of handle_tcp changes the flow data of its key only, and stores
\* nothing but the next row of the key's connection.
LEMMA HandleKeeps ==
  ASSUME IInv, IInv', DInv, hand # None, NEW k \in Keys, k = hand.key,
         NEW c, c = peer[k].session,
         UNCHANGED <<peer, opened, connMgr, queue, sent, damaged>>,
         \A j \in Keys \ {k} : connMgr[j] # 0 => flows'[connMgr[j]] = flows[connMgr[j]],
         \/ hand' = None
         \/ hand' # None /\ hand'.key = k /\ hand'.units = hand.units,
         ~InLoop(k)' => flows'[connMgr[k]].data = <<>>,
         \A j \in 1..Len(flows'[connMgr[k]].data) : flows'[connMgr[k]].data[j].session = c,
         StoresNext(c),
         c \notin damaged =>
           \A t \in 0..Len(sent[c]) :
             At(k, c, sent[c], flows[connMgr[k]], hand, t, Len(stored[c]))
               => At(k, c, sent[c], flows'[connMgr[k]], hand', t, Len(stored'[c]))
  PROVE  DInv'
<1>1. /\ c # 0 /\ c \in Connections /\ c <= opened /\ c \in Nat /\ opened \in Nat
      /\ PartOf(sent[c], hand.units) /\ hand.units[1].session = c
  <2>1. c # 0 /\ c <= opened /\ PartOf(sent[c], hand.units) /\ hand.units[1].session = c
    BY DEF DInv, PartsRight, PeersRight
  <2>2. c \in Connections
    BY <2>1, SessionTyped
  <2>. QED BY <2>1, <2>2, HistoryTyped
<1>2. /\ \A d \in Connections : d # c => stored'[d] = stored[d]
      /\ c \in damaged => stored'[c] = stored[c]
      /\ c \notin damaged =>
           \/ stored'[c] = stored[c]
           \/ \E u, row : /\ row \in Rows /\ row.unit = u /\ NextRow(c, u, row)
                          /\ stored'[c] = Append(stored[c], row)
  <2>1. CASE stored' = stored
    BY <2>1
  <2>2. CASE \E u, row : Puts(u, row) /\ u.session = c /\ (c \notin damaged => NextRow(c, u, row))
    <3>1. PICK u, row : Puts(u, row) /\ u.session = c /\ (c \notin damaged => NextRow(c, u, row))
      BY <2>2
    <3>2. /\ row \in Rows /\ row.unit = u
          /\ \A d \in Connections :
               stored'[d] = IF d = c /\ d \notin damaged THEN Append(stored[d], row)
                            ELSE stored[d]
      BY <3>1 DEF Puts
    <3>3. CASE c \in damaged
      BY <1>1, <3>2, <3>3
    <3>4. CASE c \notin damaged
      <4>1. stored'[c] = Append(stored[c], row) /\ NextRow(c, u, row)
        BY <1>1, <3>1, <3>2, <3>4
      <4>2. \A d \in Connections : d # c => stored'[d] = stored[d]
        BY <3>2
      <4>. QED BY <3>2, <3>4, <4>1, <4>2, Zenon
    <3>. QED BY <3>3, <3>4
  <2>. QED BY <2>1, <2>2 DEF StoresNext
<1>3. HistoryRight'
  <2>1. \A d \in Connections : d > opened => d # c
    BY <1>1
  <2>. QED BY <1>2, <2>1 DEF DInv, HistoryRight
<1>4. PeersRight' /\ SpoiltRight'
  BY DEF DInv, PeersRight, SpoiltRight
<1>5. PartsRight'
  BY DEF DInv, PartsRight
<1>6. DataRight'
  <2>. SUFFICES ASSUME NEW j \in Keys, connMgr[j] # 0
                PROVE  /\ ~InLoop(j)' => flows'[connMgr[j]].data = <<>>
                       /\ \A i \in 1..Len(flows'[connMgr[j]].data) :
                            flows'[connMgr[j]].data[i].session = peer[j].session
    BY DEF DataRight
  <2>1. CASE j = k
    BY <2>1
  <2>2. CASE j # k
    <3>1. ~InLoop(j)
      BY <2>2 DEF InLoop
    <3>. QED BY <2>2, <3>1 DEF DInv, DataRight
  <2>. QED BY <2>1, <2>2
<1>7. DecodingRight'
  <2>. SUFFICES ASSUME NEW j \in Keys, NEW d, d = peer[j].session, d # 0, d \notin damaged
                PROVE  Decoded(j, d)'
    BY DEF DecodingRight, Decoded
  <2>1. Decoded(j, d) /\ d \in Connections
    BY SessionTyped DEF DInv, DecodingRight
  <2>2. CASE j # k
    <3>1. d # c
      BY <1>1, <2>2 DEF DInv, PeersRight
    <3>2. stored'[d] = stored[d] /\ flows'[connMgr[j]] = flows[connMgr[j]]
      BY <1>2, <2>1, <2>2, <3>1 DEF Decoded
    <3>3. ~Handling(j) /\ ~Handling(j)'
      BY <2>2 DEF Handling
    <3>. QED BY <2>1, <3>2, <3>3, OtherDecoded
  <2>3. CASE j = k
    BY <2>1, <2>3 DEF Decoded
  <2>. QED BY <2>2, <2>3
<1>8. RowsRight'
  <2>. SUFFICES ASSUME NEW d \in Connections, d \notin damaged
                PROVE  /\ \A i \in 1..Len(stored'[d]) : stored'[d][i] = Row(stored'[d][i].unit)
                       /\ Single => Prefix(stored'[d], sent[d])
    BY DEF RowsRight
  <2>1. /\ \A i \in 1..Len(stored[d]) : stored[d][i] = Row(stored[d][i].unit)
        /\ Single => Prefix(stored[d], sent[d])
    BY DEF DInv, RowsRight
  <2>2. CASE stored'[d] = stored[d]
    BY <2>1, <2>2
  <2>3. CASE stored'[d] # stored[d]
    <3>1. d = c
      BY <1>2, <2>3
    <3>2. PICK u, row : /\ row \in Rows /\ row.unit = u /\ NextRow(c, u, row)
                        /\ stored'[c] = Append(stored[c], row)
      BY <1>2, <2>3, <3>1
    <3>. DEFINE m == Len(stored[c])
    <3>3. /\ Len(stored'[c]) = m + 1 /\ m \in Nat
          /\ \A i \in 1..m : stored'[c][i] = stored[c][i]
          /\ stored'[c][m + 1] = row
          /\ \A i \in 1..m + 1 : i \in 1..m \/ i = m + 1
      <4>1. stored[c] \in Seq(Rows)
        BY <1>1, HistoryTyped
      <4>. DEFINE longer == Append(stored[c], row)
      <4>2. row \in Rows /\ stored'[c] = longer
        BY <3>2
      <4>3. /\ Len(longer) = m + 1 /\ m \in Nat
            /\ \A i \in 1..m : longer[i] = stored[c][i]
            /\ longer[m + 1] = row
            /\ \A i \in 1..m + 1 : i \in 1..m \/ i = m + 1
        BY <4>1, <4>2, AppendedLast
      <4>. HIDE DEF longer
      <4>. QED BY <4>2, <4>3
    <3>. HIDE DEF m
    <3>4. row = Row(row.unit) /\ (Single => m < Len(sent[c]) /\ row.unit = sent[c][m + 1])
      BY <3>2 DEF NextRow, m
    <3>5. \A i \in 1..m + 1 : stored'[c][i] = Row(stored'[c][i].unit)
      <4>1. \A i \in 1..m : stored[c][i] = Row(stored[c][i].unit)
        BY <2>1, <3>1 DEF m
      <4>. QED BY <3>3, <3>4, <4>1
    <3>6. ASSUME Single PROVE Prefix(stored'[c], sent[c])
      <4>1. \A i \in 1..m + 1 : stored'[c][i].unit = sent[c][i]
        <5>1. \A i \in 1..m : stored[c][i].unit = sent[c][i]
          BY <2>1, <3>1, <3>6 DEF m, Prefix
        <5>. QED BY <3>3, <3>4, <3>6, <5>1
      <4>2. m + 1 <= Len(sent[c])
        <5>1. Len(sent[c]) \in Nat
          BY <1>1, HistoryTyped
        <5>. QED BY <3>3, <3>4, <3>6, <5>1
      <4>. QED BY <3>3, <4>1, <4>2 DEF Prefix
    <3>. QED BY <3>1, <3>3, <3>5, <3>6
  <2>. QED BY <2>2, <2>3
<1>9. LeftRight'
  <2>. SUFFICES ASSUME Single, NEW d \in Connections, d \notin damaged, d <= opened,
                       \A j \in Keys : peer[j].session # d
                PROVE  Len(stored'[d]) = Len(sent[d])
    BY DEF LeftRight
  <2>1. d # c
    OBVIOUS
  <2>. QED BY <1>2, <2>1 DEF DInv, LeftRight
<1>. QED BY <1>3, <1>4, <1>5, <1>6, <1>7, <1>8, <1>9 DEF DInv

\* What is in hand, and how far its connection is decoded.
LEMMA HandFacts ==
  ASSUME IInv, DInv, hand # None, NEW k, k = hand.key, NEW c, c = peer[k].session
  PROVE  /\ k \in Keys /\ hand.flow = connMgr[k] /\ connMgr[k] # 0 /\ flows[connMgr[k]] \in Flows
         /\ c \in Connections /\ c # 0 /\ sent[c] \in Seq(Units) /\ Numbered(c, sent[c])
         /\ Len(stored[c]) \in Nat /\ Len(sent[c]) \in Nat
         /\ hand.units \in Parts /\ PartOf(sent[c], hand.units) /\ hand.units[1].session = c
         /\ First(hand.units) \in 1..Len(sent[c])
         /\ hand.units[1] = sent[c][First(hand.units)]
         /\ \A j \in 1..Len(hand.units) : hand.units[j].session = c
         /\ hand.step # "loop" => flows[connMgr[k]].data = <<>>
         /\ \A j \in 1..Len(flows[connMgr[k]].data) : flows[connMgr[k]].data[j].session = c
         /\ c \notin damaged => Followed(sent[c])
         /\ c \notin damaged =>
              \E t \in 0..Len(sent[c]) :
                At(k, c, sent[c], flows[connMgr[k]], hand, t, Len(stored[c]))
<1>1. /\ k \in Keys /\ hand.flow = connMgr[k] /\ connMgr[k] # 0 /\ flows[connMgr[k]] \in Flows
      /\ hand.units \in Parts
  BY InHand
<1>2. c # 0 /\ PartOf(sent[c], hand.units) /\ hand.units[1].session = c
  BY DEF DInv, PartsRight
<1>3. c \in Connections
  BY <1>1, <1>2, SessionTyped
<1>4. /\ sent[c] \in Seq(Units) /\ Numbered(c, sent[c])
      /\ Len(stored[c]) \in Nat /\ Len(sent[c]) \in Nat
  BY <1>3, HistoryTyped DEF DInv, HistoryRight
<1>5. /\ First(hand.units) \in 1..Len(sent[c])
      /\ hand.units[1] = sent[c][First(hand.units)]
  BY <1>1, <1>2, <1>4, PartFacts
<1>6. \A j \in 1..Len(hand.units) : hand.units[j].session = c
  <2>. SUFFICES ASSUME NEW j \in 1..Len(hand.units)
                PROVE  hand.units[j].session = c
    OBVIOUS
  <2>1. /\ hand.units[j] \in Units /\ hand.units[j].n <= Len(sent[c])
        /\ hand.units[j] = sent[c][hand.units[j].n]
    BY <1>1, <1>2, EndsTyped DEF PartOf
  <2>2. hand.units[j].n \in Nat \ {0}
    BY <2>1, ConnectionTrackingAssumption DEF Units
  <2>3. hand.units[j].n \in 1..Len(sent[c])
    BY <1>4, <2>1, <2>2
  <2>4. sent[c][hand.units[j].n].session = c
    BY <1>4, <2>3 DEF Numbered
  <2>. QED BY <2>1, <2>4
<1>7. /\ hand.step # "loop" => flows[connMgr[k]].data = <<>>
      /\ \A j \in 1..Len(flows[connMgr[k]].data) : flows[connMgr[k]].data[j].session = c
  BY <1>1 DEF DInv, DataRight, InLoop
<1>8. c \notin damaged => Decoded(k, c) /\ Followed(sent[c])
  BY <1>1, <1>2, <1>3 DEF DInv, DecodingRight, SpoiltRight
<1>. QED BY <1>1, <1>2, <1>3, <1>4, <1>5, <1>6, <1>7, <1>8 DEF Decoded

\* The payload is put into the flow's data.
LEMMA AccumulateKeeps ==
  ASSUME IInv, DInv, Accumulate
  PROVE  DInv'
<1>. DEFINE k == hand.key
            c == peer[k].session
            f == flows[connMgr[k]]
            g == flows'[connMgr[k]]
            units == hand.units
<1>1. hand # None /\ hand.step = "branch" /\ flows[hand.flow].type # "none"
      /\ UNCHANGED <<peer, opened, connMgr, queue, sent, stored, damaged>>
  BY DEF Accumulate
<1>2. /\ k \in Keys /\ hand.flow = connMgr[k] /\ connMgr[k] # 0 /\ f \in Flows
      /\ c \in Connections /\ sent[c] \in Seq(Units) /\ Numbered(c, sent[c])
      /\ units \in Parts /\ PartOf(sent[c], units)
      /\ \A j \in 1..Len(units) : units[j].session = c
      /\ f.data = <<>>
  BY <1>1, HandFacts
<1>3. /\ IInv' /\ g \in Flows /\ f.type # "none" /\ g.type = f.type
      /\ g.request = f.request /\ g.data = f.data \o units
      /\ \A j \in Keys \ {k} : connMgr[j] # 0 => flows'[connMgr[j]] = flows[connMgr[j]]
      /\ hand' # None /\ hand'.key = k /\ hand'.units = units /\ hand'.step = "loop"
  BY <1>1, <1>2, Accumulated
<1>. HIDE DEF k, c, f, g, units
<1>4. g.data = units
  BY <1>2, <1>3 DEF Parts
<1>5. ASSUME NEW t, NEW m, At(k, c, sent[c], f, hand, t, m)
      PROVE  At(k, c, sent[c], g, hand', t, m)
  <2>1. t = Last(units) /\ Between(c, sent[c], f, First(units) - 1, m)
    BY <1>1, <1>5 DEF At, k, units
  <2>2. Within(c, sent[c], g, Last(units), m)
    <3>. DEFINE s == sent[c]
    <3>0. f.type = "stream"
      BY <1>3, <2>1 DEF Between
    <3>1. s \in Seq(Units) /\ Numbered(c, s) /\ PartOf(s, units)
      BY <1>2
    <3>2. Between(c, s, f, First(units) - 1, m)
      BY <2>1
    <3>. HIDE DEF s
    <3>3. Within(c, s, g, Last(units), m)
      BY <1>2, <1>3, <3>0, <3>1, <3>2, AccumulateWithin
    <3>. QED BY <3>3 DEF s
  <2>. QED BY <1>3, <2>1, <2>2 DEF At
<1>6. StoresNext(c)
  BY <1>1 DEF StoresNext
<1>7. InLoop(k)' 
  BY <1>3 DEF InLoop, k
<1>8. \A j \in 1..Len(g.data) : g.data[j].session = c
  BY <1>2, <1>4
<1>. QED BY <1>1, <1>2, <1>3, <1>5, <1>6, <1>7, <1>8, HandleKeeps DEF k, c, f, g, units

\* What handle_tcp puts is the next row of the connection.
LEMMA MessageStoresNext ==
  ASSUME IInv, DInv, Message, NEW c, c = peer[hand.key].session
  PROVE  StoresNext(c)
<1>. DEFINE k == hand.key
            f == flows[connMgr[k]]
            units == hand.units
            u == units[1]
            m == Len(stored[c])
            s == sent[c]
<1>1. /\ hand # None /\ hand.step = "branch"
      /\ u.kind \notin {"entry", "end"} =>
           \E row : /\ row = [unit |-> u, as |-> "message", request |-> NoRequest]
                    /\ Puts(u, row)
      /\ u.kind \in {"entry", "end"} => stored' = stored
  <2>1. hand # None /\ hand.step = "branch"
    BY DEF Message
  <2>2. hand.flow = connMgr[k]
    BY <2>1, HandFacts
  <2>. QED BY <2>1, <2>2, Messaged
<1>2. /\ s \in Seq(Units) /\ Numbered(c, s) /\ f \in Flows /\ m \in Nat /\ Len(s) \in Nat
      /\ units \in Parts /\ PartOf(s, units) /\ u.session = c
      /\ First(units) \in 1..Len(s) /\ u = s[First(units)]
      /\ c \notin damaged => \E t \in 0..Len(s) : At(k, c, s, f, hand, t, m)
  BY <1>1, HandFacts
<1>. HIDE DEF k, f, units, u, m, s
<1>3. CASE u.kind \in {"entry", "end"}
  BY <1>1, <1>3 DEF StoresNext
<1>4. CASE u.kind \notin {"entry", "end"}
  <2>1. PICK row : row = [unit |-> u, as |-> "message", request |-> NoRequest] /\ Puts(u, row)
    BY <1>1, <1>4
  <2>2. row = Row(u)
    BY <1>4, <2>1 DEF Row
  <2>3. ASSUME c \notin damaged, Single PROVE m < Len(s) /\ u = s[m + 1]
    <3>1. PICK t \in 0..Len(s) : At(k, c, s, f, hand, t, m)
      BY <1>2, <2>3
    <3>2. Between(c, s, f, First(units) - 1, m)
      BY <1>1, <3>1 DEF At, k, units
    <3>3. m = First(units) - 1
      BY <2>3, <3>2 DEF Between
    <3>. QED BY <1>2, <3>3
  <2>4. c \notin damaged => NextRow(c, u, row)
    BY <2>2, <2>3 DEF NextRow, m, s
  <2>. QED BY <1>2, <2>1, <2>4 DEF StoresNext
<1>. QED BY <1>3, <1>4

LEMMA LoopStoresNext ==
  ASSUME IInv, DInv, Entry \/ AccountEntry \/ EndOfAnswer, NEW c, c = peer[hand.key].session
  PROVE  StoresNext(c)
<1>. DEFINE k == hand.key
            f == flows[connMgr[k]]
            u == f.data[1]
            m == Len(stored[c])
            s == sent[c]
<1>1. hand # None /\ hand.step = "loop"
  BY DEF Entry, AccountEntry, EndOfAnswer
<1>2. /\ s \in Seq(Units) /\ Numbered(c, s) /\ f \in Flows /\ m \in Nat /\ Len(s) \in Nat
      /\ hand.flow = connMgr[k]
      /\ \A j \in 1..Len(f.data) : f.data[j].session = c
      /\ c \notin damaged => Followed(s)
      /\ c \notin damaged => \E t \in 0..Len(s) : At(k, c, s, f, hand, t, m)
  BY <1>1, HandFacts
<1>3. /\ u \in Units /\ f.data # <<>>
      /\ \E row :
           /\ f.type = "stream" =>
                row = IF u.kind = "end" THEN [unit |-> u, as |-> "event", request |-> NoRequest]
                      ELSE [unit |-> u, as |-> "entry", request |-> f.request]
           /\ Puts(u, row)
  BY <1>2, PutFirst
<1>4. u.session = c
  <2>1. f.data \in Seq(Units)
    BY <1>2 DEF Flows
  <2>2. f.data # <<>>
    BY <1>3
  <2>3. 1 \in 1..Len(f.data)
    BY <2>1, <2>2
  <2>. QED BY <1>2, <2>3
<1>5. PICK row :
        /\ f.type = "stream" =>
             row = IF u.kind = "end" THEN [unit |-> u, as |-> "event", request |-> NoRequest]
                   ELSE [unit |-> u, as |-> "entry", request |-> f.request]
        /\ Puts(u, row)
  BY <1>3
<1>6. ASSUME c \notin damaged
      PROVE  row = Row(u) /\ (Single => m < Len(s) /\ u = s[m + 1])
  <2>1. PICK t \in 0..Len(s) : At(k, c, s, f, hand, t, m)
    BY <1>2, <1>6
  <2>2. Within(c, s, f, t, m)
    BY <1>1, <2>1 DEF At
  <2>3. f.data # <<>>
    BY <1>3
  <2>. HIDE DEF k, f, m, s
  <2>4. f \in Flows /\ s \in Seq(Units) /\ Numbered(c, s)
    BY <1>2
  <2>5. t \in 0..Len(s) /\ Within(c, s, f, t, m) /\ f.data # <<>>
    BY <2>2, <2>3
  <2>6. f.data[1].kind \in AnswerKinds /\ f.request = <<c, f.data[1].req>>
    BY <2>4, <2>5, WithinFacts
  <2>7. PICK b \in Nat : /\ t = b + Len(f.data) /\ b + 1 \in 1..Len(s)
                         /\ f.data[1] = s[b + 1]
                         /\ Single => m = b
    BY <2>4, <2>5, WithinFacts
  <2>8. row = Row(u)
    <3>1. u.kind \notin Unfollowed
      BY <1>2, <1>6, <2>7 DEF Followed
    <3>2. u.kind \in {"entry", "end"}
      BY <2>6, <3>1 DEF AnswerKinds, Unfollowed
    <3>3. f.type = "stream"
      BY <2>5 DEF Within
    <3>. QED BY <1>4, <1>5, <2>6, <3>2, <3>3 DEF Row
  <2>9. ASSUME Single PROVE m < Len(s) /\ u = s[m + 1]
    <3>1. m = b
      BY <2>7, <2>9
    <3>2. Len(s) \in Nat
      BY <1>2
    <3>. QED BY <2>7, <3>1, <3>2
  <2>. QED BY <2>8, <2>9
<1>7. c \notin damaged => NextRow(c, u, row)
  BY <1>6 DEF NextRow
<1>. QED BY <1>4, <1>5, <1>7 DEF StoresNext

\* What is stored when the next row is: one more, for a connection that is
\* not damaged.
LEMMA OneMore ==
  ASSUME NEW c \in Connections, NEW u, NEW row, Puts(u, row), u.session = c, c \notin damaged,
         stored[c] \in Seq(Rows)
  PROVE  Len(stored'[c]) = Len(stored[c]) + 1
<1>1. stored'[c] = Append(stored[c], row) /\ row \in Rows
  BY DEF Puts
<1>. QED BY <1>1

LEMMA MessageKeeps ==
  ASSUME IInv, DInv, Message
  PROVE  DInv'
<1>. DEFINE k == hand.key
            c == peer[k].session
            f == flows[connMgr[k]]
            g == flows'[connMgr[k]]
            units == hand.units
            u == units[1]
            m == Len(stored[c])
            s == sent[c]
<1>1. hand # None /\ hand.step = "branch" /\ hand' = None
      /\ UNCHANGED <<peer, opened, connMgr, queue, sent, damaged>>
  BY DEF Message
<1>2. /\ k \in Keys /\ hand.flow = connMgr[k] /\ connMgr[k] # 0 /\ f \in Flows
      /\ c \in Connections /\ s \in Seq(Units) /\ Numbered(c, s)
      /\ m \in Nat /\ Len(s) \in Nat /\ stored[c] \in Seq(Rows)
      /\ units \in Parts /\ PartOf(s, units) /\ u.session = c
      /\ f.data = <<>> /\ (c \notin damaged => Followed(s))
  BY <1>1, HandFacts, HistoryTyped
<1>3. /\ IInv' /\ u \in Units /\ g \in Flows /\ f.type = "none"
      /\ u.kind \in {"msg", "other"} => g = Fresh
      /\ u.kind \in AskingKinds => g.request = <<u.session, u.n>> /\ g.data = <<>>
      /\ u.kind = "req" => g.type = "stream"
      /\ u.kind \notin {"entry", "end"} => \E row : Puts(u, row)
      /\ u.kind \in {"entry", "end"} => g = f /\ stored' = stored
      /\ \A j \in Keys \ {k} : connMgr[j] # 0 => flows'[connMgr[j]] = flows[connMgr[j]]
  BY <1>1, <1>2, Messaged
<1>4. StoresNext(c)
  BY MessageStoresNext
<1>5. u.kind \notin {"entry", "end"} /\ c \notin damaged => Len(stored'[c]) = m + 1
  BY <1>2, <1>3, OneMore
<1>. HIDE DEF k, c, f, g, units, u
<1>6. g.data = <<>>
  <2>1. CASE u.kind \in {"msg", "other"}
    BY <1>3, <2>1 DEF Fresh
  <2>2. CASE u.kind \in AskingKinds
    BY <1>3, <2>2
  <2>3. CASE u.kind \in {"entry", "end"}
    BY <1>2, <1>3, <2>3
  <2>4. u.kind \in Kinds
    BY <1>3 DEF Units
  <2>. QED BY <2>1, <2>2, <2>3, <2>4 DEF Kinds, AnswerKinds
<1>7. ASSUME c \notin damaged, NEW t, At(k, c, s, f, hand, t, m)
      PROVE  At(k, c, s, g, hand', t, Len(stored'[c]))
  <2>1. t = Last(units) /\ Between(c, s, f, First(units) - 1, m)
    BY <1>1, <1>7 DEF At, k, units
  <2>. DEFINE m2 == Len(stored'[c])
  <2>. HIDE DEF s, m, m2
  <2>2. /\ u.kind = "msg" => Between(c, s, Fresh, t, m + 1)
        /\ \A x \in Flows :
             u.kind = "req" /\ x.type = "stream" /\ x.request = <<u.session, u.n>>
               => Between(c, s, x, t, m + 1)
        /\ u.kind \in {"entry", "end"} => Between(c, s, f, t, m)
        /\ u.kind \in {"msg", "req", "entry", "end"}
    <3>1. s \in Seq(Units) /\ Followed(s) /\ f.type = "none" /\ m \in Nat
      BY <1>2, <1>3, <1>7
    <3>2. units \in Parts /\ PartOf(s, units) /\ f \in Flows /\ Numbered(c, s)
      BY <1>2
    <3>3. /\ units[1].kind = "msg" => Between(c, s, Fresh, Last(units), m + 1)
          /\ \A x \in Flows :
               units[1].kind = "req" /\ x.type = "stream"
                   /\ x.request = <<units[1].session, units[1].n>>
                 => Between(c, s, x, Last(units), m + 1)
          /\ units[1].kind \in {"entry", "end"} => Between(c, s, f, Last(units), m)
          /\ units[1].kind \in {"msg", "req", "entry", "end"}
      BY <2>1, <3>1, <3>2, MessageBetween
    <3>. QED BY <2>1, <3>3 DEF u
  <2>3. Between(c, s, g, t, m2)
    <3>1. CASE u.kind = "msg"
      BY <1>3, <1>5, <1>7, <2>2, <3>1 DEF m2
    <3>2. CASE u.kind = "req"
      BY <1>3, <1>5, <1>7, <2>2, <3>2 DEF m2, AskingKinds
    <3>3. CASE u.kind \in {"entry", "end"}
      BY <1>3, <2>2, <3>3 DEF m2, m
    <3>. QED BY <2>2, <3>1, <3>2, <3>3
  <2>. QED BY <1>1, <2>3 DEF At, m2
<1>8. \A j \in 1..Len(g.data) : g.data[j].session = c
  BY <1>6
<1>. QED BY <1>1, <1>2, <1>3, <1>4, <1>6, <1>7, <1>8, HandleKeeps DEF k, c, f, g, units

\* An entry or the terminator is put.
LEMMA LoopKeeps ==
  ASSUME IInv, DInv, Entry \/ AccountEntry \/ EndOfAnswer
  PROVE  DInv'
<1>. DEFINE k == hand.key
            c == peer[k].session
            f == flows[connMgr[k]]
            g == flows'[connMgr[k]]
            m == Len(stored[c])
            s == sent[c]
<1>1. hand # None /\ hand.step = "loop" /\ UNCHANGED <<peer, opened, connMgr, queue, sent, damaged>>
  BY DEF Entry, AccountEntry, EndOfAnswer
<1>2. /\ k \in Keys /\ hand.flow = connMgr[k] /\ connMgr[k] # 0 /\ f \in Flows
      /\ c \in Connections /\ s \in Seq(Units) /\ Numbered(c, s)
      /\ m \in Nat /\ stored[c] \in Seq(Rows)
      /\ \A j \in 1..Len(f.data) : f.data[j].session = c
      /\ c \notin damaged => Followed(s)
  <2>1. c \in Connections
    BY <1>1, HandFacts
  <2>2. m \in Nat /\ stored[c] \in Seq(Rows)
    BY <2>1, HistoryTyped
  <2>. QED BY <1>1, <2>1, <2>2, HandFacts
<1>3. /\ IInv' /\ g \in Flows /\ f.data # <<>>
      /\ Entry => /\ f.data[1].kind # "end" /\ hand' = hand
                  /\ g.type = f.type /\ g.request = f.request /\ g.data = Tail(f.data)
      /\ AccountEntry => f.type = "account" /\ hand' = hand /\ g = f
      /\ EndOfAnswer => /\ f.data[1].kind = "end" \/ f.type = "brief"
                        /\ hand' = None /\ g = Fresh
      /\ \E row : Puts(f.data[1], row)
      /\ \A j \in Keys \ {k} : connMgr[j] # 0 => flows'[connMgr[j]] = flows[connMgr[j]]
  BY <1>2, PutFirst
<1>4. StoresNext(c)
  BY LoopStoresNext
<1>5. f.data \in Seq(Units) /\ 1 \in 1..Len(f.data)
  <2>1. f.data \in Seq(Units)
    BY <1>2 DEF Flows
  <2>. QED BY <1>3, <2>1
<1>6. c \notin damaged => Len(stored'[c]) = m + 1
  BY <1>2, <1>3, <1>5, OneMore
<1>. HIDE DEF k, c, f, g, m, s
<1>7. \A j \in 1..Len(g.data) : g.data[j].session = c
  <2>1. CASE Entry
    <3>1. \A j \in 1..Len(g.data) : g.data[j] = f.data[j + 1] /\ j + 1 \in 1..Len(f.data)
      <4>1. g.data = Tail(f.data) /\ f.data # <<>>
        BY <1>3, <2>1
      <4>. QED BY <1>5, <4>1
    <3>. QED BY <1>2, <3>1
  <2>2. CASE EndOfAnswer
    <3>1. g.data = <<>> /\ Len(<<>>) = 0
      BY <1>3, <2>2 DEF Fresh
    <3>. QED BY <3>1
  <2>3. CASE AccountEntry
    BY <1>2, <1>3, <2>3
  <2>. QED BY <2>1, <2>2, <2>3
<1>8. /\ hand' = None \/ (hand' # None /\ hand'.key = k /\ hand'.units = hand.units)
      /\ hand' # None => hand'.step = "loop"
      /\ hand' = None => g.data = <<>>
  <2>1. CASE Entry \/ AccountEntry
    BY <1>1, <1>3, <2>1 DEF k
  <2>2. CASE EndOfAnswer
    BY <1>3, <2>2 DEF Fresh
  <2>. QED BY <2>1, <2>2
<1>9. ASSUME c \notin damaged, NEW t \in 0..Len(s), At(k, c, s, f, hand, t, m)
      PROVE  At(k, c, s, g, hand', t, m + 1)
  <2>1. Within(c, s, f, t, m)
    BY <1>1, <1>9 DEF At, k
  <2>. Followed(s) /\ f.type = "stream"
    BY <1>2, <1>9, <2>1 DEF Within
  <2>2. CASE Entry
    <3>1. Within(c, s, g, t, m + 1)
      BY <1>2, <1>3, <2>1, <2>2, EntryWithin
    <3>. QED BY <1>1, <1>3, <2>2, <3>1 DEF At, k
  <2>3. CASE EndOfAnswer
    <3>1. Between(c, s, Fresh, t, m + 1)
      BY <1>2, <1>3, <2>1, <2>3, EndBetween
    <3>. QED BY <1>3, <2>3, <3>1 DEF At
  <2>. QED BY <1>3, <2>2, <2>3
<1>10. c \notin damaged =>
         \A t \in 0..Len(sent[c]) :
           At(k, c, sent[c], f, hand, t, Len(stored[c]))
             => At(k, c, sent[c], g, hand', t, Len(stored'[c]))
  BY <1>6, <1>9 DEF m, s
<1>11. /\ IInv' /\ k \in Keys /\ hand # None
       /\ UNCHANGED <<peer, opened, connMgr, queue, sent, damaged>>
       /\ \A j \in Keys \ {k} : connMgr[j] # 0 => flows'[connMgr[j]] = flows[connMgr[j]]
  BY <1>1, <1>2, <1>3
<1>. QED BY <1>4, <1>7, <1>8, <1>10, <1>11, HandleKeeps DEF k, c, f, g, InLoop

\* Nothing is left in the flow's data.
LEMMA ConsumedKeeps ==
  ASSUME IInv, DInv, Consumed
  PROVE  DInv'
<1>. DEFINE k == hand.key
            c == peer[k].session
            f == flows[connMgr[k]]
            m == Len(stored[c])
            s == sent[c]
<1>1. /\ hand # None /\ hand.step = "loop" /\ hand' = None /\ flows[hand.flow].data = <<>>
      /\ UNCHANGED <<peer, opened, connMgr, flows, queue, sent, stored, damaged>>
  BY DEF Consumed
<1>2. /\ k \in Keys /\ hand.flow = connMgr[k] /\ f \in Flows /\ s \in Seq(Units)
  BY <1>1, HandFacts
<1>3. IInv'
  BY Emptied
<1>4. StoresNext(c)
  BY <1>1 DEF StoresNext
<1>5. f.data = <<>> /\ \A j \in 1..Len(f.data) : f.data[j].session = c
  <2>1. f.data = <<>> /\ Len(<<>>) = 0
    BY <1>1, <1>2
  <2>. QED BY <2>1
<1>. HIDE DEF k, c, f, m, s
<1>6. ASSUME NEW t \in 0..Len(s), At(k, c, s, f, hand, t, m)
      PROVE  At(k, c, s, f, hand', t, m)
  <2>1. Within(c, s, f, t, m)
    BY <1>1, <1>6 DEF At, k
  <2>2. Between(c, s, f, t, m)
    BY <1>2, <1>5, <2>1, ConsumedBetween
  <2>. QED BY <1>1, <2>2 DEF At
<1>. QED BY <1>1, <1>2, <1>3, <1>4, <1>5, <1>6, HandleKeeps DEF k, c, f, m, s

\* Every step of either thread keeps the invariant.
LEMMA DInvariance == Prompt => (IInv /\ DInv /\ [Next]_vars => DInv')
<1>. SUFFICES ASSUME Prompt, IInv, DInv, [Next]_vars
              PROVE  DInv'
  OBVIOUS
<1>1. CASE Capture
  BY <1>1, StartKeeps, EndKeeps, PayloadKeeps DEF Capture
<1>2. CASE Process
  BY <1>2, TakeKeeps, AccumulateKeeps, MessageKeeps, LoopKeeps, ConsumedKeeps DEF Process
<1>3. CASE UNCHANGED vars
  <2>1. UNCHANGED <<peer, opened, connMgr, flows, queue, hand, sent, stored, damaged>>
    BY <1>3 DEF vars
  <2>2. HistoryRight' /\ SpoiltRight' /\ PeersRight' /\ PartsRight'
    BY <2>1 DEF DInv, HistoryRight, SpoiltRight, PeersRight, PartsRight
  <2>3. DataRight' /\ DecodingRight'
    BY <2>1 DEF DInv, DataRight, DecodingRight, InLoop, Decoded
  <2>4. RowsRight' /\ LeftRight'
    BY <2>1 DEF DInv, RowsRight, LeftRight
  <2>. QED BY <2>2, <2>3, <2>4 DEF DInv
<1>. QED BY <1>1, <1>2, <1>3 DEF Next

----------------------------------------------------------------------------
(* What is stored.                                                         *)

\* As long as a key is used again only when its payloads have been handled:
\* whatever bytes and starts the capture misses, and whatever answers the code
\* cannot follow, a message of a connection that is not damaged (its start and
\* all of its payloads captured, no bulk_pull_account request on it, nothing sent
\* against an answer) is stored as a message, and an entry with the request of
\* its own connection that it answers (packet_handler.cpp:88-138, 341-449).
THEOREM AnswersCorrect ==
  ASSUME Prompt
  PROVE  Spec => []AnswersBelong
<1>1. Init => IInv /\ DInv
  BY InitInv, InitDInv
<1>2. IInv /\ DInv /\ [Next]_vars => IInv' /\ DInv'
  BY Invariance, DInvariance
<1>3. IInv /\ DInv => AnswersBelong
  BY DEF DInv, RowsRight, AnswersBelong
<1>. QED BY <1>1, <1>2, <1>3, PTL DEF Spec

\* Nothing of a connection is queued or in hand: all of it is stored.
LEMMA StoredWhenHandled ==
  ASSUME Single, IInv, DInv, NEW c \in Connections, c \notin damaged, ~Pending(c)
  PROVE  Len(stored[c]) = Len(sent[c])
<1>1. c \in Nat \ {0} /\ opened \in Nat
  BY HistoryTyped
<1>2. CASE c > opened
  BY <1>2 DEF DInv, HistoryRight
<1>3. CASE c <= opened /\ \A k \in Keys : peer[k].session # c
  BY <1>3 DEF DInv, LeftRight
<1>4. ASSUME NEW k \in Keys, peer[k].session = c PROVE Len(stored[c]) = Len(sent[c])
  <2>1. PICK t \in 0..Len(sent[c]) :
          /\ Chain(k, queue, sent[c], t)
          /\ At(k, c, sent[c], flows[connMgr[k]], hand, t, Len(stored[c]))
    BY <1>1, <1>4 DEF DInv, DecodingRight, Decoded
  <2>2. \A i \in 1..Len(queue) : queue[i].key # k
    <3>. SUFFICES ASSUME NEW i \in 1..Len(queue), queue[i].key = k
                  PROVE  FALSE
      OBVIOUS
    <3>1. queue[i].units[1].session = c
      BY <1>4 DEF DInv, PartsRight
    <3>2. Head(queue[i].units) = queue[i].units[1]
      BY QueuedTyped DEF Parts
    <3>. QED BY <3>1, <3>2 DEF Pending
  <2>3. ~(hand # None /\ hand.key = k)
    <3>. SUFFICES ASSUME hand # None, hand.key = k
                  PROVE  FALSE
      OBVIOUS
    <3>1. hand.units[1].session = c
      BY <1>4 DEF DInv, PartsRight
    <3>2. Head(hand.units) = hand.units[1]
      BY InHand DEF Parts
    <3>. QED BY <3>1, <3>2 DEF Pending
  <2>4. t = Len(sent[c])
    BY <2>1, <2>2, HistoryTyped, ChainEmpty
  <2>5. Between(c, sent[c], flows[connMgr[k]], t, Len(stored[c]))
    BY <2>1, <2>3 DEF At
  <2>. QED BY <2>4, <2>5 DEF Between
<1>. QED BY <1>1, <1>2, <1>3, <1>4

\* With one message to a payload besides: a connection that is not damaged is
\* stored in the order in which it was sent, nothing twice and nothing skipped,
\* and all of it when handle_tcp has had its payloads (packet_handler.cpp:88-138,
\* 316-449).
THEOREM StoredCorrect ==
  ASSUME Prompt, Single
  PROVE  Spec => []StoredAsSent
<1>1. Init => IInv /\ DInv
  BY InitInv, InitDInv
<1>2. IInv /\ DInv /\ [Next]_vars => IInv' /\ DInv'
  BY Invariance, DInvariance
<1>3. IInv /\ DInv => StoredAsSent
  BY StoredWhenHandled DEF DInv, RowsRight, Prefix, StoredAsSent
<1>. QED BY <1>1, <1>2, <1>3, PTL DEF Spec

----------------------------------------------------------------------------
(* What ConnectionLog promises.                                            *)

LogStep == [Log!LogNext]_(Log!logVars)

\* A payload is sent, and queued or dropped because of a gap.
LEMMA PayloadLogs ==
  ASSUME IInv, NEW k \in Keys, peer[k].session # 0, NEW units \in Payloads(k),
         MsgReady(k, units) \/ MsgMissing(k, units)
  PROVE  Log!LogNext
<1>. DEFINE c == peer[k].session
<1>1. Send(k, units) /\ TypeOK /\ stored' = stored
  BY DEF MsgReady, MsgMissing, IInv
<1>2. /\ c \in Connections /\ sent' \in [Connections -> Seq(Units)]
      /\ sent'[c] = sent[c] \o units
      /\ \A d \in Connections \ {c} : sent'[d] = sent[d]
  BY <1>1, SendTyped
<1>3. sent[c] \in Seq(Units) /\ units \in Seq(Units) /\ sent \in [Connections -> Seq(Units)]
  BY <1>1, <1>2, PayloadsTyped DEF TypeOK, Parts
<1>. HIDE DEF c
<1>4. /\ Len(sent[c]) <= Len(sent'[c])
      /\ \A i \in 1..Len(sent[c]) : sent'[c][i] = sent[c][i]
  BY <1>2, <1>3
<1>5. sent' = [sent EXCEPT ![c] = sent'[c]]
  BY <1>2, <1>3
<1>6. Log!Extended(c)
  BY <1>4, <1>5 DEF Log!Extended
<1>7. damaged' = damaged \/ damaged' = damaged \cup {c}
  BY DEF MsgReady, MsgMissing, Spoil, c
<1>8. CASE damaged' = damaged
  BY <1>1, <1>2, <1>6, <1>8 DEF Log!LogNext, Log!Sent
<1>9. CASE damaged' = damaged \cup {c}
  BY <1>1, <1>2, <1>6, <1>9 DEF Log!LogNext, Log!Lost
<1>. QED BY <1>7, <1>8, <1>9

\* The start of a connection is not seen.
LEMMA UnseenLogs ==
  ASSUME IInv, NEW k \in Keys, ConnectionUnseen(k)
  PROVE  Log!LogNext
<1>. DEFINE c == opened'
<1>1. UNCHANGED <<sent, stored>> /\ damaged' = damaged \cup {c} /\ Connect(k) /\ TypeOK
  BY DEF ConnectionUnseen, IInv
<1>2. c \in Connections
  BY <1>1, ConnectTyped
<1>3. sent[c] \in Seq(Units) /\ sent \in [Connections -> Seq(Units)]
  BY <1>1, <1>2 DEF TypeOK
<1>. HIDE DEF c
<1>4. Log!Extended(c)
  BY <1>1, <1>3 DEF Log!Extended
<1>. QED BY <1>1, <1>2, <1>4 DEF Log!LogNext, Log!Lost

\* What handle_tcp stores is the next row of the connection.
LEMMA StoreLogs ==
  ASSUME Single, IInv, IInv', NEW c \in Connections, StoresNext(c), UNCHANGED <<sent, damaged>>
  PROVE  LogStep
<1>1. /\ stored \in [Connections -> Seq(Rows)] /\ stored' \in [Connections -> Seq(Rows)]
      /\ sent[c] \in Seq(Units)
  BY DEF IInv, TypeOK
<1>2. CASE stored' = stored
  BY <1>2 DEF LogStep, Log!logVars
<1>3. ASSUME NEW u, NEW row, Puts(u, row), u.session = c, c \in damaged PROVE LogStep
  <2>1. \A d \in Connections : stored'[d] = stored[d]
    BY <1>3 DEF Puts
  <2>2. stored' = stored
    BY <1>1, <2>1
  <2>. QED BY <2>2 DEF LogStep, Log!logVars
<1>4. ASSUME NEW u, NEW row, Puts(u, row), u.session = c, c \notin damaged, NextRow(c, u, row)
      PROVE  LogStep
  <2>. DEFINE RowOf == [x \in Units |-> Row(x)]
  <2>1. Len(stored[c]) < Len(sent[c]) /\ u = sent[c][Len(stored[c]) + 1] /\ row = Row(u) /\ u \in Units
    BY <1>4 DEF NextRow, Puts
  <2>2. row = RowOf[sent[c][Len(stored[c]) + 1]]
    BY <2>1
  <2>. HIDE DEF RowOf
  <2>3. stored' = [stored EXCEPT ![c] = Append(stored[c], row)]
    <3>1. \A d \in Connections :
            stored'[d] = IF d = c THEN Append(stored[d], row) ELSE stored[d]
      BY <1>4 DEF Puts
    <3>. QED BY <1>1, <3>1
  <2>4. stored' = [stored EXCEPT ![c] = Append(stored[c], RowOf[sent[c][Len(stored[c]) + 1]])]
    BY <2>2, <2>3
  <2>5. Log!Stored(c)
    BY <1>4, <2>1, <2>4 DEF Log!Stored, RowOf
  <2>. QED BY <2>5 DEF LogStep, Log!LogNext
<1>. QED BY <1>2, <1>3, <1>4 DEF StoresNext

\* Every step of either thread is one of ConnectionLog, or changes nothing there.
LEMMA NextLogs == Prompt /\ Single => (IInv /\ DInv /\ [Next]_vars => LogStep)
<1>. SUFFICES ASSUME Prompt, Single, IInv, DInv, [Next]_vars
              PROVE  LogStep
  OBVIOUS
<1>1. IInv'
  BY Invariance
<1>2. ASSUME UNCHANGED <<sent, stored, damaged>> PROVE LogStep
  BY <1>2 DEF LogStep, Log!logVars
<1>3. CASE Capture
  <2>1. ASSUME NEW k \in Keys, ConnectionStart(k) \/ ConnectionEnd(k) PROVE LogStep
    BY <1>2, <2>1 DEF ConnectionStart, ConnectionEnd
  <2>2. ASSUME NEW k \in Keys, ConnectionUnseen(k) PROVE LogStep
    BY <2>2, UnseenLogs DEF LogStep
  <2>3. ASSUME NEW k \in Keys, peer[k].session # 0, NEW units \in Payloads(k),
               MsgReady(k, units) \/ MsgMissing(k, units)
        PROVE  LogStep
    BY <2>3, PayloadLogs DEF LogStep
  <2>. QED BY <1>3, <2>1, <2>2, <2>3 DEF Capture
<1>4. CASE Take \/ Accumulate \/ Consumed
  BY <1>2, <1>4 DEF Take, Accumulate, Consumed
<1>5. CASE Message \/ Entry \/ AccountEntry \/ EndOfAnswer
  <2>. DEFINE c == peer[hand.key].session
  <2>1. hand # None /\ UNCHANGED <<sent, damaged>>
    BY <1>5 DEF Message, Entry, AccountEntry, EndOfAnswer
  <2>2. c \in Connections
    BY <2>1, HandFacts
  <2>3. StoresNext(c)
    BY <1>5, MessageStoresNext, LoopStoresNext
  <2>. HIDE DEF c
  <2>. QED BY <1>1, <2>1, <2>2, <2>3, StoreLogs
<1>6. CASE UNCHANGED vars
  BY <1>2, <1>6 DEF vars
<1>. QED BY <1>3, <1>4, <1>5, <1>6 DEF Next, Process

\* Under the same conditions the callbacks, the queue and the branches of
\* handle_tcp implement ConnectionLog: rows are only ever added, one at a time,
\* each the row of the next unit of its own connection.
THEOREM ImplementsLogCorrect ==
  ASSUME Prompt, Single
  PROVE  Spec => ImplementsLog
<1>1. Init => Log!LogInit
  BY DEF Init, Log!LogInit
<1>2. Init => IInv /\ DInv
  BY InitInv, InitDInv
<1>3. IInv /\ DInv /\ [Next]_vars => IInv' /\ DInv'
  BY Invariance, DInvariance
<1>4. IInv /\ DInv /\ [Next]_vars => LogStep
  BY NextLogs
<1>. QED BY <1>1, <1>2, <1>3, <1>4, PTL DEF Spec, ImplementsLog, Log!LogSpec, LogStep

=============================================================================
