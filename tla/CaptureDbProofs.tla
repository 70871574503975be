-------------------------- MODULE CaptureDbProofs --------------------------
(***************************************************************************)
(* That the capture database's state keeps its type, that the ids of       *)
(* its dispenser are fresh and that a destroy is durable, for every set of *)
(* message kinds, every budget, period and bound, and whichever statements *)
(* fail; and, while none has failed and no user's SQL has removed rows,    *)
(* that references hold and counts match.                                  *)
(*                                                                         *)
(* The argument for the ids: an id is drawn below the bound of its run, a  *)
(* run's bound is at most the budget's multiple of the next run, and       *)
(* sqlite_sequence never goes back.  So every stored id is below next_id   *)
(* while the process runs and below the start of the next run whenever it  *)
(* does not.                                                               *)
(*                                                                         *)
(* The argument for references: a put stores all of its rows, which refer  *)
(* to one another, and commits fall before it; an entry refers to the      *)
(* request its flow holds, whose rows are stored (FlowInv), or lay below   *)
(* the mark of a destroy that removed them (MarkInv).                      *)
(***************************************************************************)
EXTENDS CaptureDb, FiniteSetTheorems, SequenceTheorems, TLAPS

Stored == rows \cup disk

\* An idle worker holds no id; a busy one holds its packet's id, and the
\* request's as well for the one kind that draws it early.
WorkerInv ==
  \/ worker = Idle
  \/ /\ up
     /\ worker.kind \in Kinds
     /\ \/ Len(worker.ids) = 1
        \/ Len(worker.ids) = 2 /\ worker.kind = "bulk_pull_account"
           /\ worker.ids[1] # worker.ids[2]

\* The run's ids lie between its multiple of the budget and its bound.
BudgetInv ==
  up => /\ multiplier \in 1 .. seq
        /\ nextId \in Budget * multiplier .. Budget * multiplier + MaxDraws
        /\ \A i \in DOMAIN worker.ids : worker.ids[i] < nextId

\* Every stored id is below the start of the next run.
BelowNextRun == \A r \in Stored : r.id < Budget * (seq + 1)

\* What the leaves need of a plan: its rows are well formed, their ids are
\* not stored yet and differ.
GoodPlan(plan) ==
  /\ Len(plan) \in Nat
  /\ \A i \in 1 .. Len(plan) :
       /\ plan[i].table # "none" => plan[i] \in RowType
       /\ plan[i].id \in Nat
       /\ plan[i].id \notin Ids(Stored)
       /\ \A j \in 1 .. Len(plan) : plan[i].id = plan[j].id => i = j

Inv == TypeOK /\ WorkerInv /\ BudgetInv /\ BelowNextRun /\ IdsAreFresh

-----------------------------------------------------------------------------
(* Arithmetic of the budget. *)

\* The constants are numbers, and no run may draw more than its budget.
LEMMA BudgetNat == Budget \in Nat /\ Budget > 0 /\ MaxDraws \in 0 .. Budget
  BY CaptureDbAssumption

\* A later run's range of ids does not begin before an earlier one's.
LEMMA BudgetMonotone ==
  ASSUME NEW a \in Nat, NEW b \in Nat, a <= b
  PROVE  Budget * a <= Budget * b
  BY BudgetNat

\* The next run's range begins where this one's ends.
LEMMA BudgetStep ==
  ASSUME NEW a \in Nat
  PROVE  Budget * (a + 1) = Budget * a + Budget /\ Budget * a \in Nat
  BY BudgetNat

-----------------------------------------------------------------------------
(* Tables and plans. *)

\* The tables the puts name are among those destroy empties.
LEMMA TablesAre ==
  {"packet", "connection", "keepalive_host", "vote", "block", "nodeid_query",
   "nodeid_response", "telemetry", "frontier_request", "frontier_response",
   "bulk_pull_request", "bulk_pull_response", "bulk_pull_account_request",
   "bulk_pull_account_response", "bulk_pull_account_response_entry",
   "bulk_push_entry"} \subseteq Tables
<1>1. Len(TableOrder) = 17
  BY DEF TableOrder
<1>2. /\ TableOrder[2] = "packet" /\ TableOrder[3] = "connection"
      /\ TableOrder[4] = "keepalive_host" /\ TableOrder[5] = "vote"
      /\ TableOrder[6] = "block" /\ TableOrder[7] = "nodeid_query"
      /\ TableOrder[8] = "nodeid_response" /\ TableOrder[9] = "telemetry"
      /\ TableOrder[10] = "frontier_request" /\ TableOrder[11] = "frontier_response"
      /\ TableOrder[12] = "bulk_pull_request" /\ TableOrder[13] = "bulk_pull_response"
      /\ TableOrder[14] = "bulk_pull_account_request"
      /\ TableOrder[15] = "bulk_pull_account_response"
      /\ TableOrder[16] = "bulk_pull_account_response_entry"
      /\ TableOrder[17] = "bulk_push_entry"
  BY DEF TableOrder
<1>3. \A i \in 2 .. 17 : TableOrder[i] \in Tables
  BY <1>1 DEF Tables
<1> QED
  BY <1>1, <1>2, <1>3

\* The loop of destroy passes 17 tables.
LEMMA AfterTablesIs == AfterTables = 18
  BY DEF AfterTables, TableOrder

\* How many rows of which tables a message has beside its packet.
LEMMA ChildrenAre ==
  ASSUME NEW k \in DOMAIN Children
  PROVE  /\ Len(Children[k]) \in 0 .. 2
         /\ \A i \in 1 .. Len(Children[k]) : Children[k][i] \in Tables
         /\ k = "bulk_pull_account" => Len(Children[k]) = 1
         /\ k \in {"frontier_req", "bulk_pull"} => Len(Children[k]) = 1
<1>1. CASE k \in {"telemetry_req", "bulk_push"}
  BY <1>1 DEF Children
<1>2. CASE k \in {"telemetry_ack", "frontier_req", "bulk_pull", "bulk_pull_account"}
  BY <1>2, TablesAre DEF Children
<1>3. CASE k \in {"keepalive", "handshake_query", "handshake_response", "handshake_both"}
  BY <1>3, TablesAre DEF Children
<1> QED
  BY <1>1, <1>2, <1>3 DEF Children

\* A row that refers to numbers is a row.
LEMMA RowIsRow ==
  ASSUME NEW t \in Tables, NEW i \in Nat, NEW R \in SUBSET Nat
  PROVE  Row(t, i, R) \in RowType
  BY DEF Row, RowType

\* The rows of a message are good when its drawn ids are below the next id
\* and not stored.
LEMMA MessageRowsGood ==
  ASSUME NEW kind \in Kinds, NEW ids \in Seq(Nat), NEW n \in Nat,
         NEW stored \in BOOLEAN,
         \/ Len(ids) = 1
         \/ Len(ids) = 2 /\ kind = "bulk_pull_account" /\ ids[1] # ids[2],
         \A i \in DOMAIN ids : ids[i] < n /\ ids[i] \notin Ids(Stored),
         \A r \in Stored : r.id < n
  PROVE  GoodPlan(MessageRows(kind, ids, n, stored))
<1> DEFINE p == ids[1]
<1>1. p \in Nat /\ p < n /\ p \notin Ids(Stored)
  OBVIOUS
<1>2. \A i \in Nat : i >= n => i \notin Ids(Stored)
  <2>1. SUFFICES ASSUME NEW i \in Nat, i >= n, i \in Ids(Stored)
                 PROVE  FALSE
    OBVIOUS
  <2>2. PICK r \in Stored : r.id = i
    BY <2>1 DEF Ids
  <2> QED
    BY <2>1, <2>2
<1> HIDE DEF p
<1>3. CASE kind \in ContentFirst
  <2> DEFINE B == Block(n, p, stored)
             R == BlockRef(n, stored)
  <2>1. /\ B.id = n /\ (B.table # "none" => B \in RowType)
        /\ R \in SUBSET Nat
    BY <1>1, TablesAre DEF Block, BlockRef, Row, RowType
  <2>2. /\ Row("vote", n, {p}) \in RowType /\ Row("packet", p, {n}) \in RowType
        /\ Row("vote", n + 1, {p} \cup R) \in RowType
        /\ Row("packet", p, {n + 1}) \in RowType
        /\ Row("packet", p, R) \in RowType
    BY <1>1, <2>1, TablesAre, RowIsRow
  <2>3. /\ Row("vote", n, {p}).id = n /\ Row("packet", p, {n}).id = p
        /\ Row("vote", n + 1, {p} \cup R).id = n + 1
        /\ Row("packet", p, {n + 1}).id = p
        /\ Row("packet", p, R).id = p
    BY DEF Row
  <2> HIDE DEF B, R
  <2>4. CASE kind = "vote_hash"
    <3>1. MessageRows(kind, ids, n, stored)
            = <<Row("vote", n, {p}), Row("packet", p, {n})>>
      BY <1>3, <2>4 DEF MessageRows, ContentRows, p
    <3> QED
      BY <1>1, <1>2, <2>2, <2>3, <3>1 DEF GoodPlan
  <2>5. CASE kind = "vote_block"
    <3>1. MessageRows(kind, ids, n, stored)
            = <<B, Row("vote", n + 1, {p} \cup R), Row("packet", p, {n + 1})>>
      BY <1>3, <2>5 DEF MessageRows, ContentRows, p, B, R
    <3> QED
      BY <1>1, <1>2, <2>1, <2>2, <2>3, <3>1 DEF GoodPlan
  <2>6. CASE kind \notin {"vote_hash", "vote_block"}
    <3>1. MessageRows(kind, ids, n, stored) = <<B, Row("packet", p, R)>>
      BY <1>3, <2>6 DEF MessageRows, ContentRows, p, B, R
    <3> QED
      BY <1>1, <1>2, <2>1, <2>2, <2>3, <3>1 DEF GoodPlan
  <2> QED
    BY <2>4, <2>5, <2>6
<1>4. CASE kind \notin ContentFirst
  <2> DEFINE C == Children[kind]
             id(i) == IF Len(ids) = 2 THEN ids[2] ELSE n + i - 1
             rest == [i \in 1 .. Len(C) |-> Row(C[i], id(i), {p})]
             plan == <<Row("packet", p, {})>> \o rest
  <2>1. kind \in DOMAIN Children
    BY <1>4, CaptureDbAssumption
  <2>2. /\ Len(C) \in 0 .. 2 /\ \A i \in 1 .. Len(C) : C[i] \in Tables
        /\ Len(ids) = 2 => Len(C) = 1
    BY <2>1, ChildrenAre
  <2> HIDE DEF C
  <2>3. MessageRows(kind, ids, n, stored) = plan
    BY <1>4 DEF MessageRows, C, p
  <2>4. \A i \in 1 .. Len(C) :
          /\ id(i) \in Nat /\ id(i) # p /\ id(i) \notin Ids(Stored)
          /\ \A j \in 1 .. Len(C) : id(i) = id(j) => i = j
    <3> SUFFICES ASSUME NEW i \in 1 .. Len(C)
                 PROVE  /\ id(i) \in Nat /\ id(i) # p /\ id(i) \notin Ids(Stored)
                        /\ \A j \in 1 .. Len(C) : id(i) = id(j) => i = j
      OBVIOUS
    <3>1. CASE Len(ids) = 2
      <4>1. id(i) = ids[2]
        BY <3>1
      <4>2. \A j \in 1 .. Len(C) : i = j
        <5>1. Len(C) = 1
          BY <2>2, <3>1
        <5>2. \A k \in 1 .. 1 : k = 1
          OBVIOUS
        <5> QED
          BY <5>1, <5>2
      <4>3. 2 \in DOMAIN ids /\ 1 \in DOMAIN ids /\ ids[1] # ids[2]
        BY <3>1
      <4>4. ids[2] \in Nat /\ ids[2] # p /\ ids[2] \notin Ids(Stored)
        BY <4>3 DEF p
      <4> HIDE DEF id
      <4> QED
        BY <4>1, <4>2, <4>4
    <3>2. CASE Len(ids) # 2
      BY <1>1, <1>2, <2>2, <3>2 DEF p
    <3> QED
      BY <3>1, <3>2
  <2> HIDE DEF id
  <2>5. \A i \in 1 .. Len(C) :
          rest[i] \in RowType /\ rest[i].id = id(i)
    BY <1>1, <2>2, <2>4, RowIsRow DEF Row
  <2>6. rest \in Seq(RowType) /\ Len(rest) = Len(C)
    <3>1. DOMAIN rest = 1 .. Len(C) /\ rest = [i \in 1 .. Len(C) |-> rest[i]]
      OBVIOUS
    <3> HIDE DEF rest
    <3>2. rest \in [1 .. Len(C) -> RowType]
      BY <2>5, <3>1
    <3> QED
      BY <2>2, <3>1, <3>2
  <2>7. Row("packet", p, {}) \in RowType /\ Row("packet", p, {}).id = p
    BY <1>1, TablesAre, RowIsRow DEF Row
  <2> HIDE DEF rest
  <2>8. /\ Len(plan) = Len(C) + 1
        /\ plan[1] = Row("packet", p, {})
        /\ \A i \in 2 .. Len(C) + 1 : plan[i] = rest[i - 1]
    BY <2>2, <2>6, <2>7
  <2> HIDE DEF plan
  <2>9. \A i \in 1 .. Len(plan) :
          /\ plan[i] \in RowType
          /\ i = 1 => plan[i].id = p
          /\ i # 1 => i - 1 \in 1 .. Len(C) /\ plan[i].id = id(i - 1)
    <3>1. SUFFICES ASSUME NEW i \in 1 .. Len(plan)
                   PROVE  /\ plan[i] \in RowType
                          /\ i = 1 => plan[i].id = p
                          /\ i # 1 => i - 1 \in 1 .. Len(C) /\ plan[i].id = id(i - 1)
      OBVIOUS
    <3>2. CASE i = 1
      BY <2>7, <2>8, <3>2
    <3>3. CASE i # 1
      <4>1. i - 1 \in 1 .. Len(C) /\ plan[i] = rest[i - 1]
        BY <2>2, <2>8, <3>3
      <4> QED
        BY <2>5, <3>3, <4>1
    <3> QED
      BY <3>2, <3>3
  <2>10. GoodPlan(plan)
    <3>1. Len(plan) \in Nat
      BY <2>2, <2>8
    <3>2. ASSUME NEW i \in 1 .. Len(plan)
          PROVE  /\ plan[i] \in RowType
                 /\ plan[i].id \in Nat
                 /\ plan[i].id \notin Ids(Stored)
                 /\ \A j \in 1 .. Len(plan) : plan[i].id = plan[j].id => i = j
      <4>1. plan[i] \in RowType
        BY <2>9
      <4>2. plan[i].id \in Nat /\ plan[i].id \notin Ids(Stored)
        BY <1>1, <2>4, <2>9
      <4>3. ASSUME NEW j \in 1 .. Len(plan), plan[i].id = plan[j].id
            PROVE  i = j
        <5>1. CASE i = 1
          BY <2>4, <2>9, <4>3, <5>1
        <5>2. CASE i # 1 /\ j = 1
          BY <2>4, <2>9, <4>3, <5>2
        <5>3. CASE i # 1 /\ j # 1
          <6>1. i - 1 \in 1 .. Len(C) /\ j - 1 \in 1 .. Len(C)
                /\ id(i - 1) = id(j - 1)
            BY <2>9, <4>3, <5>3
          <6>2. i - 1 = j - 1
            BY <2>4, <6>1
          <6> QED
            BY <2>2, <2>8, <6>2
        <5> QED
          BY <5>1, <5>2, <5>3
      <4> QED
        BY <4>1, <4>2, <4>3
    <3> QED
      BY <3>1, <3>2 DEF GoodPlan
  <2> QED
    BY <2>3, <2>10
<1> QED
  BY <1>3, <1>4

\* So are those of an entry.
LEMMA EntryPlansGood ==
  ASSUME TypeOK, flow.type \in Requests,
         \A r \in Stored : r.id < nextId,
         NEW plan \in EntryPlans(nextId)
  PROVE  GoodPlan(plan)
<1> DEFINE n == nextId
<1>1. n \in Nat /\ flow.packet \in Nat /\ flow.message \in Nat
  BY DEF TypeOK
<1>2. \A i \in Nat : i >= n => i \notin Ids(Stored)
  <2>1. SUFFICES ASSUME NEW i \in Nat, i >= n, i \in Ids(Stored)
                 PROVE  FALSE
    OBVIOUS
  <2>2. PICK r \in Stored : r.id = i
    BY <2>1 DEF Ids
  <2> QED
    BY <1>1, <2>1, <2>2
<1>3. ASSUME NEW t \in Tables, NEW m \in Nat, plan = <<Row(t, n, {m})>>
      PROVE  GoodPlan(plan)
  <2>1. Row(t, n, {m}) \in RowType /\ Row(t, n, {m}).id = n
    BY <1>1, <1>3, RowIsRow DEF Row
  <2> QED
    BY <1>1, <1>2, <1>3, <2>1 DEF GoodPlan
<1>4. ASSUME NEW t \in Tables, NEW m \in Nat, plan = BlockEntry(t, m, n)
      PROVE  GoodPlan(plan)
  <2> DEFINE B == Row("block", n, {flow.packet})
             E == Row(t, n + 1, {m, n})
  <2>1. B \in RowType /\ B.id = n /\ E \in RowType /\ E.id = n + 1
    BY <1>1, <1>4, TablesAre, RowIsRow DEF Row
  <2>2. plan = <<B, E>>
    BY <1>4 DEF BlockEntry, Block
  <2> HIDE DEF B, E
  <2> QED
    BY <1>1, <1>2, <2>1, <2>2 DEF GoodPlan
<1> HIDE DEF n
<1>5. CASE flow.type = "frontier_req"
  <2>1. plan = <<Row("frontier_response", n, {flow.message})>>
    BY <1>5 DEF EntryPlans, n
  <2> QED
    BY <1>1, <1>3, <2>1, TablesAre
<1>6. CASE flow.type = "bulk_pull"
  <2>1. plan = BlockEntry("bulk_pull_response", flow.message, n)
    BY <1>6 DEF EntryPlans, n
  <2> QED
    BY <1>1, <1>4, <2>1, TablesAre
<1>7. CASE flow.type = "bulk_push"
  <2>1. plan = BlockEntry("bulk_push_entry", flow.packet, n)
    BY <1>7 DEF EntryPlans, n
  <2> QED
    BY <1>1, <1>4, <2>1, TablesAre
<1>8. CASE flow.type = "bulk_pull_account"
  <2>1. PICK t \in {"bulk_pull_account_response",
                    "bulk_pull_account_response_entry"} :
          plan = <<Row(t, n, {flow.message})>>
    BY <1>8 DEF EntryPlans, n
  <2> QED
    BY <1>1, <1>3, <2>1, TablesAre
<1> QED
  BY <1>5, <1>6, <1>7, <1>8 DEF Requests

-----------------------------------------------------------------------------
(* What executing a good plan keeps. *)

\* The ids a put under way holds are neither stored nor in the plan.
Apart(ids, plan) ==
  \A i \in DOMAIN ids :
    /\ ids[i] < nextId /\ ids[i] \notin Ids(Stored)
    /\ \A j \in 1 .. Len(plan) : plan[j].id # ids[i]

\* Any prefix of a good plan stores new rows with fresh ids only.
LEMMA ExecuteKeeps ==
  ASSUME TypeOK, up, BudgetInv, BelowNextRun, IdsAreFresh,
         NEW plan, GoodPlan(plan), NEW k \in 0 .. Len(plan), Execute(plan, k)
  PROVE  /\ rows' \subseteq RowType /\ broken' \subseteq Tables
         /\ nextId' \in nextId .. Budget * multiplier + MaxDraws
         /\ \A r \in rows' : r \in rows \/ \E i \in 1 .. Len(plan) : r = plan[i]
         /\ \A r \in rows' \cup disk : r.id < nextId'
         /\ \A r, s \in rows' \cup disk : r.id = s.id => r = s
<1>1. \A r \in Written(plan, k) :
        \E i \in 1 .. k : r = plan[i] /\ plan[i].table # "none"
  BY DEF Written
<1>2. rows' = rows \cup Written(plan, k)
  BY DEF Execute
<1>3. Len(plan) \in Nat /\ nextId \in Nat /\ Budget * multiplier \in Nat /\ MaxDraws \in Nat
  BY BudgetStep, BudgetNat DEF GoodPlan, TypeOK
<1>4. \A r \in rows' : r \in rows \/ \E i \in 1 .. Len(plan) : r = plan[i]
  BY <1>1, <1>2, <1>3
<1>5. rows' \subseteq RowType
  <2>1. Written(plan, k) \subseteq RowType
    BY <1>1, <1>3 DEF GoodPlan
  <2> QED
    BY <1>2, <2>1 DEF TypeOK
<1>6. broken' \subseteq Tables
  <2>1. ASSUME k < Len(plan)
        PROVE  plan[k + 1].table \in Tables
    <3>1. plan[k + 1].table # "none" \/ plan[k + 1].table \in broken
      BY <2>1 DEF Execute
    <3>2. k + 1 \in 1 .. Len(plan)
      BY <1>3, <2>1
    <3>3. plan[k + 1].table # "none" => plan[k + 1].table \in Tables
      BY <3>2 DEF GoodPlan, RowType
    <3> QED
      BY <3>1, <3>3 DEF TypeOK
  <2>2. CASE k = Len(plan)
    BY <2>2 DEF Execute, TypeOK
  <2>3. CASE k # Len(plan)
    <3>1. broken' = broken \cup {plan[k + 1].table} \cup
                    ({"packet"} \cap {plan[i].table : i \in 1 .. k})
      BY <2>3 DEF Execute
    <3>2. {"packet"} \cap {plan[i].table : i \in 1 .. k} \subseteq Tables
      BY TablesAre
    <3> HIDE <1>2
    <3> QED
      BY <1>3, <2>1, <2>3, <3>1, <3>2 DEF TypeOK
  <2> QED
    BY <2>2, <2>3
<1>7. nextId' \in nextId .. Budget * multiplier + MaxDraws
  BY <1>3 DEF Execute, Room
<1>8. \A i \in 1 .. k : plan[i].id < nextId' /\ plan[i].id \notin Ids(Stored)
                        /\ plan[i].id \in Nat
                        /\ \A j \in 1 .. k : plan[i].id = plan[j].id => i = j
  <2>1. 1 .. k \subseteq 1 .. (IF k < Len(plan) THEN k + 1 ELSE k)
        /\ 1 .. k \subseteq 1 .. Len(plan)
    BY <1>3
  <2> QED
    BY <2>1 DEF Execute, GoodPlan
<1>9. ASSUME NEW r \in rows' \cup disk
      PROVE  r \in Stored \/ \E i \in 1 .. k : r = plan[i]
  BY <1>1, <1>2 DEF Stored
<1>10. \A r \in Stored : r.id < nextId /\ r.id \in Nat
  BY DEF IdsAreFresh, TypeOK, RowType, Stored
<1>11. ASSUME NEW r \in rows' \cup disk
       PROVE  r.id < nextId'
  <2>1. CASE r \in Stored
    BY <1>3, <1>7, <1>10, <2>1
  <2>2. CASE \E i \in 1 .. k : r = plan[i]
    BY <1>8, <2>2
  <2> QED
    BY <1>9, <2>1, <2>2
<1>12. ASSUME NEW r \in rows' \cup disk, NEW s \in rows' \cup disk, r.id = s.id
       PROVE  r = s
  <2>1. \A t \in Stored : t.id \in Ids(Stored)
    BY DEF Ids
  <2>2. CASE r \in Stored /\ s \in Stored
    BY <1>12, <2>2 DEF IdsAreFresh, Stored
  <2>3. CASE r \in Stored /\ \E i \in 1 .. k : s = plan[i]
    BY <1>8, <1>12, <2>1, <2>3
  <2>4. CASE s \in Stored /\ \E i \in 1 .. k : r = plan[i]
    BY <1>8, <1>12, <2>1, <2>4
  <2>5. CASE (\E i \in 1 .. k : r = plan[i]) /\ (\E i \in 1 .. k : s = plan[i])
    BY <1>8, <1>12, <2>5
  <2> QED
    BY <1>9, <2>2, <2>3, <2>4, <2>5
<1> QED
  BY <1>4, <1>5, <1>6, <1>7, <1>11, <1>12

\* A put, of whatever kind: the dispenser's invariants hold after it.
LEMMA PutKeeps ==
  ASSUME Inv, up, NEW plan, GoodPlan(plan), NEW k \in 0 .. Len(plan),
         Execute(plan, k), disk' \in {rows, disk},
         UNCHANGED <<up, seq, multiplier>>,
         worker'.ids \in Seq(Nat), Apart(worker'.ids, plan)
  PROVE  /\ rows' \subseteq RowType /\ disk' \subseteq RowType
         /\ broken' \subseteq Tables /\ nextId' \in Nat
         /\ BudgetInv' /\ BelowNextRun' /\ IdsAreFresh'
<1> USE DEF Inv
<1>1. /\ rows' \subseteq RowType /\ broken' \subseteq Tables
      /\ nextId' \in nextId .. Budget * multiplier + MaxDraws
      /\ \A r \in rows' : r \in rows \/ \E i \in 1 .. Len(plan) : r = plan[i]
      /\ \A r \in rows' \cup disk : r.id < nextId'
      /\ \A r, s \in rows' \cup disk : r.id = s.id => r = s
  BY ExecuteKeeps
<1>2. /\ rows \subseteq rows' /\ rows' \cup disk' \subseteq rows' \cup disk
      /\ Stored' = rows' \cup disk'
  BY DEF Execute, Stored
<1>3. nextId \in Nat /\ multiplier \in 1 .. seq /\ seq \in Nat /\ MaxDraws \in 0 .. Budget
      /\ Budget * multiplier \in Nat /\ Budget \in Nat
      /\ nextId >= Budget * multiplier
  BY BudgetNat, BudgetStep DEF TypeOK, BudgetInv
<1>4. nextId' \in Nat /\ nextId' >= nextId
  BY <1>1, <1>3
<1>5. disk' \subseteq RowType
  BY DEF TypeOK
<1>6. BudgetInv'
  <2>1. \A i \in DOMAIN worker'.ids : worker'.ids[i] < nextId
    BY DEF Apart
  <2>2. \A i \in DOMAIN worker'.ids : worker'.ids[i] < nextId'
    BY <1>1, <1>3, <2>1
  <2> QED
    BY <1>1, <1>3, <2>2 DEF BudgetInv
<1>7. BelowNextRun'
  <2>1. Budget * (multiplier + 1) <= Budget * (seq + 1)
    BY <1>3, BudgetMonotone
  <2>2. Budget * multiplier + MaxDraws <= Budget * (seq + 1)
    BY <1>3, <2>1, BudgetStep
  <2>3. Budget * (seq + 1) \in Nat
    BY <1>3
  <2>4. \A r \in Stored' : r.id < nextId' /\ r.id \in Nat
    BY <1>1, <1>2, <1>5 DEF RowType
  <2> QED
    BY <1>1, <1>3, <1>4, <2>2, <2>3, <2>4 DEF BelowNextRun
<1>8. IdsAreFresh'
  <2>1. ASSUME NEW i \in DOMAIN worker'.ids, NEW r \in rows' \cup disk'
        PROVE  r.id # worker'.ids[i]
    <3>1. r \in Stored \/ \E j \in 1 .. Len(plan) : r = plan[j]
      BY <1>1, <1>2 DEF Stored
    <3>2. \A t \in Stored : t.id \in Ids(Stored)
      BY DEF Ids
    <3> QED
      BY <3>1, <3>2 DEF Apart
  <2>2. \A i \in DOMAIN worker'.ids : worker'.ids[i] \notin Ids(rows' \cup disk')
    BY <2>1 DEF Ids
  <2> QED
    BY <1>1, <1>2, <2>2 DEF IdsAreFresh
<1> QED
  BY <1>1, <1>4, <1>5, <1>6, <1>7, <1>8

-----------------------------------------------------------------------------
(* The theorem: the invariant holds initially and every action keeps it. *)

\* A put notes a statement that fails.
LEMMA SpoiltIsFlag ==
  ASSUME TypeOK, NEW plan, NEW k, Execute(plan, k)
  PROVE  spoilt' \in BOOLEAN
  BY DEF Execute, TypeOK

\* The worker without a message holds no ids.
LEMMA IdleWorker ==
  /\ Idle.kind = "idle" /\ Idle.kind \notin Requests /\ Idle.ids = <<>>
  /\ Idle \in [kind : Kinds \cup {"idle"}, ids : Seq(Nat)]
  BY DEF Idle, Requests

\* The flow without a request is one.
LEMMA NoFlowType ==
  /\ NoFlow \in [type : Requests \cup {"other"}, packet : Nat, message : Nat]
  /\ NoFlow.type = "other" /\ "other" \notin Requests
  BY DEF NoFlow, Requests

\* No kind of message is the idle worker's.
LEMMA NotIdle == \A k \in Kinds : k # "idle"
  BY CaptureDbAssumption DEF Children, ContentFirst

\* The first run draws its ids from the first range.
LEMMA InitInv == Init => Inv
<1> SUFFICES ASSUME Init PROVE Inv
  OBVIOUS
<1>1. TypeOK
  <2>1. up \in BOOLEAN /\ spoilt \in BOOLEAN
    BY DEF Init
  <2>2. /\ worker \in [kind : Kinds \cup {"idle"}, ids : Seq(Nat)]
        /\ flow \in [type : Requests \cup {"other"}, packet : Nat, message : Nat]
    BY IdleWorker, NoFlowType DEF Init
  <2>3. destroyStep \in 0 .. AfterTables
    BY AfterTablesIs DEF Init
  <2>4. rows \subseteq RowType /\ disk \subseteq RowType /\ broken \subseteq Tables
    BY DEF Init
  <2> QED
    BY <2>1, <2>2, <2>3, <2>4, IdleWorker DEF Init, TypeOK
<1>2. WorkerInv /\ BudgetInv
  BY DEF Init, WorkerInv, BudgetInv
<1>3. BelowNextRun /\ IdsAreFresh
  BY DEF Init, BelowNextRun, Stored, IdsAreFresh
<1> QED
  BY <1>1, <1>2, <1>3 DEF Inv

\* The process ends: only rows that were stored remain.
LEMMA EndKeeps ==
  ASSUME Inv, ProcessEnds, rows' \subseteq Stored, disk' \subseteq Stored,
         UNCHANGED <<seq, destroyMark, spoilt>>
  PROVE  Inv'
<1>1. TypeOK'
  <2>1. rows' \subseteq RowType /\ disk' \subseteq RowType
    BY DEF Inv, TypeOK, Stored
  <2>2. up' \in BOOLEAN /\ spoilt' \in BOOLEAN
    BY DEF ProcessEnds, Inv, TypeOK
  <2>3. /\ worker' \in [kind : Kinds \cup {"idle"}, ids : Seq(Nat)]
        /\ flow' \in [type : Requests \cup {"other"}, packet : Nat, message : Nat]
    BY IdleWorker, NoFlowType DEF ProcessEnds
  <2>4. destroyStep' \in 0 .. AfterTables /\ broken' \subseteq Tables
    BY AfterTablesIs DEF ProcessEnds
  <2>5. seq' \in Nat /\ destroyMark' \in Nat
    BY DEF Inv, TypeOK
  <2> QED
    BY <2>1, <2>2, <2>3, <2>4, <2>5, IdleWorker DEF ProcessEnds, TypeOK
<1>2. WorkerInv' /\ BudgetInv'
  BY DEF ProcessEnds, WorkerInv, BudgetInv
<1>3. BelowNextRun'
  BY DEF Inv, BelowNextRun, Stored
<1>4. IdsAreFresh'
  BY DEF ProcessEnds, Inv, IdsAreFresh, Stored
<1> QED
  BY <1>1, <1>2, <1>3, <1>4 DEF Inv

\* A step that draws no id and stores no row.
LEMMA QuietKeeps ==
  ASSUME Inv, TypeOK', WorkerInv', rows' \subseteq rows,
         disk' \in {rows, disk, rows'}, seq' \in {seq, seq + 1},
         UNCHANGED <<up, multiplier, nextId>>, worker' \in {worker, Idle}
  PROVE  Inv'
<1>1. /\ Stored' \subseteq Stored /\ Stored' = rows' \cup disk'
      /\ rows' \cup disk' \subseteq rows \cup disk
  BY DEF Stored
<1>2. BelowNextRun'
  <2>1. seq \in Nat /\ seq' \in Nat /\ seq <= seq'
    BY DEF Inv, TypeOK
  <2>2. Budget * (seq + 1) <= Budget * (seq' + 1)
    BY <2>1, BudgetMonotone
  <2>3. Budget * (seq + 1) \in Nat /\ Budget * (seq' + 1) \in Nat
    BY <2>1, BudgetStep
  <2>4. \A r \in Stored : r.id \in Nat
    BY DEF Inv, TypeOK, RowType, Stored
  <2> QED
    BY <1>1, <2>2, <2>3, <2>4 DEF Inv, BelowNextRun
<1>3. BudgetInv'
  <2>1. \A i \in DOMAIN worker'.ids : worker'.ids[i] = worker.ids[i] /\ i \in DOMAIN worker.ids
    BY IdleWorker
  <2>2. up' => multiplier' \in 1 .. seq'
    BY DEF Inv, BudgetInv, TypeOK
  <2> QED
    BY <2>1, <2>2 DEF Inv, BudgetInv
<1>4. IdsAreFresh'
  <2>1. \A i \in DOMAIN worker'.ids : worker'.ids[i] = worker.ids[i] /\ i \in DOMAIN worker.ids
    BY IdleWorker
  <2>2. Ids(rows' \cup disk') \subseteq Ids(rows \cup disk)
    BY <1>1 DEF Ids
  <2>3. \A r, s \in rows' \cup disk' : r.id = s.id => r = s
    BY <1>1 DEF Inv, IdsAreFresh
  <2>4. up' => \A r \in rows' \cup disk' : r.id < nextId'
    BY <1>1 DEF Inv, IdsAreFresh
  <2>5. up' => \A i \in DOMAIN worker'.ids : worker'.ids[i] \notin Ids(rows' \cup disk')
    BY <2>1, <2>2 DEF Inv, IdsAreFresh
  <2> QED
    BY <2>3, <2>4, <2>5 DEF IdsAreFresh
<1> QED
  BY <1>2, <1>3, <1>4 DEF Inv

\* A step that draws one id and stores no row.
LEMMA DrawKeeps ==
  ASSUME Inv, up, Room(1), nextId' = nextId + 1,
         UNCHANGED <<rows, disk, seq, up, multiplier>>,
         worker'.ids \in Seq(Nat),
         \A i \in DOMAIN worker'.ids :
           worker'.ids[i] <= nextId /\ worker'.ids[i] \notin Ids(Stored)
  PROVE  nextId' \in Nat /\ BudgetInv' /\ BelowNextRun' /\ IdsAreFresh'
<1>1. nextId \in Nat /\ multiplier \in 1 .. seq /\ seq \in Nat /\ MaxDraws \in Nat
      /\ Budget * multiplier \in Nat /\ nextId >= Budget * multiplier
  BY BudgetNat, BudgetStep DEF Inv, TypeOK, BudgetInv
<1>2. nextId' \in Nat /\ nextId' <= Budget * multiplier + MaxDraws
  BY <1>1 DEF Room
<1>3. \A i \in DOMAIN worker'.ids : worker'.ids[i] < nextId'
  BY <1>1
<1>4. BudgetInv'
  BY <1>1, <1>2, <1>3 DEF BudgetInv
<1>5. BelowNextRun'
  BY DEF Inv, BelowNextRun, Stored
<1>6. IdsAreFresh'
  <2>1. \A r \in rows \cup disk : r.id < nextId /\ r.id \in Nat
    BY DEF Inv, IdsAreFresh, TypeOK, RowType
  <2>2. \A r \in rows \cup disk : r.id < nextId'
    BY <1>1, <2>1
  <2>3. \A i \in DOMAIN worker'.ids : worker'.ids[i] \notin Ids(rows \cup disk)
    BY DEF Stored
  <2> QED
    BY <2>2, <2>3 DEF Inv, IdsAreFresh
<1> QED
  BY <1>2, <1>4, <1>5, <1>6

\* The next id is not stored.
LEMMA NextIdFresh ==
  ASSUME Inv, up
  PROVE  /\ nextId \in Nat /\ nextId \notin Ids(Stored)
         /\ \A r \in Stored : r.id < nextId
<1>1. \A r \in Stored : r.id < nextId
  BY DEF Inv, IdsAreFresh, Stored
<1>2. nextId \in Nat
  BY DEF Inv, TypeOK
<1>3. nextId \notin Ids(Stored)
  BY <1>1, <1>2 DEF Ids
<1> QED
  BY <1>1, <1>2, <1>3

\* The ids are distinct naturals below a bound: the stored rows are finite.
LEMMA DiskFinite ==
  ASSUME Inv
  PROVE  IsFiniteSet(disk)
<1> DEFINE N == Budget * (seq + 1)
           f == [r \in disk |-> r.id]
<1>1. N \in Nat
  BY BudgetNat DEF Inv, TypeOK
<1>2. \A r \in disk : r.id \in Nat /\ r.id < N
  BY DEF Inv, TypeOK, RowType, BelowNextRun, Stored
<1>3. \A r, s \in disk : r.id = s.id => r = s
  BY DEF Inv, IdsAreFresh
<1> HIDE DEF N
<1>4. f \in [disk -> 0 .. N]
  BY <1>1, <1>2
<1>5. f \in Injection(disk, 0 .. N)
  BY <1>3, <1>4 DEF Injection, IsInjective
<1>6. IsFiniteSet(0 .. N)
  BY <1>1, FS_Interval
<1> QED
  BY <1>5, <1>6, FS_Injection

\* A new run has a range of its own, above all that is stored.
LEMMA OpenInv == Inv /\ Open => Inv'
<1> SUFFICES ASSUME Inv, Open PROVE Inv'
  OBVIOUS
<1>1. worker = Idle
  BY DEF Inv, WorkerInv, Open
<1>2. seq \in Nat /\ seq' = seq + 1 /\ multiplier' = seq + 1
      /\ nextId' = Budget * (seq + 1) /\ Budget * (seq + 1) \in Nat
      /\ Budget * (seq + 1) <= Budget * (seq + 2)
      /\ MaxDraws \in Nat
  BY BudgetNat, BudgetStep, BudgetMonotone DEF Inv, TypeOK, Open
<1>3. TypeOK'
  <2>1. counted' \in Nat
    <3>1. IsFiniteSet(Packets(disk))
      BY DiskFinite, FS_Subset DEF Packets
    <3> QED
      BY <3>1, FS_CardinalityType DEF Open
  <2> QED
    BY <1>2, <2>1 DEF Inv, TypeOK, Open, destroyVars
<1>4. WorkerInv'
  BY <1>1 DEF WorkerInv, Open
<1>5. BudgetInv'
  BY <1>1, <1>2, IdleWorker DEF BudgetInv, Open
<1>6. \A r \in Stored : r.id \in Nat /\ r.id < Budget * (seq + 1)
  BY DEF Inv, TypeOK, RowType, BelowNextRun, Stored
<1>7. BelowNextRun'
  <2>1. Stored' = Stored /\ seq' + 1 = seq + 2
    BY <1>2 DEF Open, Stored
  <2>2. Budget * (seq + 2) \in Nat
    BY <1>2, BudgetNat
  <2>3. \A r \in Stored : r.id < Budget * (seq + 2)
    BY <1>2, <1>6, <2>2
  <2> QED
    BY <2>1, <2>3 DEF BelowNextRun
<1>8. IdsAreFresh'
  BY <1>1, <1>2, <1>6, IdleWorker DEF IdsAreFresh, Open, Inv, Stored
<1> QED
  BY <1>3, <1>4, <1>5, <1>7, <1>8 DEF Inv

\* An orderly end commits what is stored.
LEMMA CloseInv == Inv /\ Close => Inv'
<1> SUFFICES ASSUME Inv, Close PROVE Inv'
  OBVIOUS
<1>1. ProcessEnds /\ rows' \subseteq Stored /\ disk' \subseteq Stored
      /\ UNCHANGED <<seq, destroyMark, spoilt>>
  BY DEF Close, Stored
<1> QED
  BY <1>1, EndKeeps

\* A crash falls back to what was committed, which is older.
LEMMA CrashInv == Inv /\ Crash => Inv'
<1> SUFFICES ASSUME Inv, Crash PROVE Inv'
  OBVIOUS
<1>1. ProcessEnds /\ rows' \subseteq Stored /\ disk' \subseteq Stored
      /\ UNCHANGED <<seq, destroyMark, spoilt>>
  BY DEF Crash, Stored
<1> QED
  BY <1>1, EndKeeps

\* A packet's id is drawn before the put, and held.
LEMMA DrawPacketIdInv == Inv /\ DrawPacketId => Inv'
<1> SUFFICES ASSUME Inv, DrawPacketId PROVE Inv'
  OBVIOUS
<1>1. PICK k \in Kinds :
        /\ worker' = [kind |-> k, ids |-> <<nextId>>]
        /\ flow' = IF k \in Requests
                     THEN [type |-> k, packet |-> nextId, message |-> 0]
                     ELSE NoFlow
  BY DEF DrawPacketId
<1>2. up /\ Room(1) /\ nextId' = nextId + 1
      /\ UNCHANGED <<rows, disk, seq, up, multiplier>>
  BY DEF DrawPacketId, storeVars, runVars
<1>3. nextId \in Nat /\ nextId \notin Ids(Stored)
  BY <1>2, NextIdFresh
<1>4. /\ worker' \in [kind : Kinds \cup {"idle"}, ids : Seq(Nat)]
      /\ worker'.ids \in Seq(Nat) /\ Len(worker'.ids) = 1 /\ worker'.kind \in Kinds
      /\ \A i \in DOMAIN worker'.ids :
           worker'.ids[i] <= nextId /\ worker'.ids[i] \notin Ids(Stored)
  BY <1>1, <1>3
<1>5. nextId' \in Nat /\ BudgetInv' /\ BelowNextRun' /\ IdsAreFresh'
  BY <1>2, <1>4, DrawKeeps
<1>6. /\ flow' \in [type : Requests \cup {"other"}, packet : Nat, message : Nat]
      /\ flow'.type = "other" => flow' = NoFlow
      /\ worker'.kind \in Requests => flow'.type = worker'.kind
  <2>1. CASE k \in Requests
    BY <1>1, <1>3, <2>1, NoFlowType
  <2>2. CASE k \notin Requests
    BY <1>1, <2>2, NoFlowType
  <2> QED
    BY <2>1, <2>2
<1>7. TypeOK'
  BY <1>4, <1>5, <1>6 DEF Inv, TypeOK, DrawPacketId, storeVars, runVars, destroyVars
<1>8. WorkerInv'
  BY <1>2, <1>4 DEF WorkerInv
<1> QED
  BY <1>5, <1>7, <1>8 DEF Inv

\* What appending x to b makes of it: a name for the library's conclusion, so
\* that a leaf can cite it without its quantifier.
IsAppended(S, b, x) ==
  /\ Append(b, x) \in Seq(S)
  /\ Len(Append(b, x)) = Len(b) + 1
  /\ \A i \in 1 .. Len(b) : Append(b, x)[i] = b[i]
  /\ Append(b, x)[Len(b) + 1] = x

\* An element appended is the last, and the others stay.
LEMMA Appended ==
  ASSUME NEW S, NEW b \in Seq(S), NEW x \in S
  PROVE  IsAppended(S, b, x)
  BY AppendProperties DEF IsAppended

\* The second of two ids.
LEMMA AppendToOne ==
  ASSUME NEW b \in Seq(Nat), Len(b) = 1, NEW x \in Nat
  PROVE  /\ Append(b, x) \in Seq(Nat) /\ Len(Append(b, x)) = 2
         /\ Append(b, x)[1] = b[1] /\ Append(b, x)[2] = x
<1>1. IsAppended(Nat, b, x)
  BY Appended
<1> QED
  BY <1>1 DEF IsAppended

\* The id of a request is drawn after that of its packet.
LEMMA DrawRequestIdInv == Inv /\ DrawRequestId => Inv'
<1> SUFFICES ASSUME Inv, DrawRequestId PROVE Inv'
  OBVIOUS
<1>1. /\ up /\ Room(1) /\ nextId' = nextId + 1
      /\ UNCHANGED <<rows, disk, seq, up, multiplier>>
      /\ worker.kind = "bulk_pull_account" /\ Len(worker.ids) = 1
      /\ worker' = [worker EXCEPT !.ids = Append(@, nextId)]
      /\ flow' = [flow EXCEPT !.message = nextId]
  BY DEF DrawRequestId, storeVars, runVars
<1>2. nextId \in Nat /\ nextId \notin Ids(Stored)
  BY <1>1, NextIdFresh
<1>3. worker \in [kind : Kinds \cup {"idle"}, ids : Seq(Nat)] /\ worker.ids \in Seq(Nat)
      /\ flow \in [type : Requests \cup {"other"}, packet : Nat, message : Nat]
  BY DEF Inv, TypeOK
<1>4. worker.ids[1] < nextId /\ worker.ids[1] \in Nat /\ worker.ids[1] \notin Ids(Stored)
  <2>1. 1 \in DOMAIN worker.ids /\ worker.ids[1] \in Nat
    BY <1>1, <1>3
  <2>2. worker.ids[1] < nextId
    BY <1>1, <2>1 DEF Inv, BudgetInv
  <2>3. worker.ids[1] \notin Ids(Stored)
    BY <1>1, <2>1 DEF Inv, IdsAreFresh, Stored
  <2> QED
    BY <2>1, <2>2, <2>3
<1>5. /\ worker'.ids = Append(worker.ids, nextId) /\ worker'.kind = worker.kind
      /\ worker' \in [kind : Kinds \cup {"idle"}, ids : Seq(Nat)]
  <2>1. Append(worker.ids, nextId) \in Seq(Nat)
    BY <1>2, <1>3
  <2> DEFINE t == Append(worker.ids, nextId)
  <2>2. worker' = [worker EXCEPT !.ids = t]
    BY <1>1
  <2>3. t \in Seq(Nat)
    BY <2>1
  <2> HIDE DEF t
  <2>4. /\ worker'.ids = t /\ worker'.kind = worker.kind
        /\ worker' \in [kind : Kinds \cup {"idle"}, ids : Seq(Nat)]
    BY <1>3, <2>2, <2>3
  <2> QED
    BY <2>4 DEF t
<1>6. /\ worker'.ids \in Seq(Nat) /\ Len(worker'.ids) = 2
      /\ worker'.ids[1] = worker.ids[1] /\ worker'.ids[2] = nextId
      /\ DOMAIN worker'.ids = 1 .. 2
  <2> DEFINE b == worker.ids
             t == Append(b, nextId)
  <2>1. b \in Seq(Nat) /\ Len(b) = 1
    BY <1>1, <1>3
  <2> HIDE DEF b
  <2>2. t \in Seq(Nat) /\ Len(t) = 2 /\ t[1] = b[1] /\ t[2] = nextId
    BY <1>2, <2>1, AppendToOne
  <2>3. worker'.ids = t
    BY <1>5 DEF b
  <2> HIDE DEF t
  <2>4. DOMAIN t = 1 .. 2
    BY <2>2
  <2> QED
    BY <2>2, <2>3, <2>4 DEF b
<1>7. \A i \in DOMAIN worker'.ids :
        worker'.ids[i] <= nextId /\ worker'.ids[i] \notin Ids(Stored)
  <2>1. worker'.ids[1] <= nextId /\ worker'.ids[1] \notin Ids(Stored)
    BY <1>2, <1>4, <1>6
  <2>2. worker'.ids[2] <= nextId /\ worker'.ids[2] \notin Ids(Stored)
    BY <1>2, <1>6
  <2> QED
    BY <1>6, <2>1, <2>2
<1>8. nextId' \in Nat /\ BudgetInv' /\ BelowNextRun' /\ IdsAreFresh'
  BY <1>1, <1>6, <1>7, DrawKeeps
<1>9. /\ flow' \in [type : Requests \cup {"other"}, packet : Nat, message : Nat]
      /\ flow'.type = flow.type /\ flow.type = worker.kind
  <2>1. worker.kind \in Requests
    BY <1>1 DEF Requests
  <2> QED
    BY <1>1, <1>2, <1>3, <2>1 DEF Inv, TypeOK
<1>10. TypeOK'
  BY <1>1, <1>5, <1>8, <1>9, NoFlowType
  DEF Inv, TypeOK, DrawRequestId, storeVars, runVars, destroyVars, Requests
<1>11. WorkerInv'
  <2>1. worker.kind \in Kinds
    BY <1>1, IdleWorker DEF Inv, WorkerInv
  <2>2. worker'.ids[1] # worker'.ids[2]
    BY <1>2, <1>4, <1>6
  <2> QED
    BY <1>1, <1>5, <1>6, <2>1, <2>2 DEF WorkerInv
<1> QED
  BY <1>8, <1>10, <1>11 DEF Inv

\* A message is stored with the ids the worker holds and new ones.
LEMMA PutMessageInv == Inv /\ PutMessage => Inv'
<1> SUFFICES ASSUME Inv, PutMessage PROVE Inv'
  OBVIOUS
<1> DEFINE plan(b) == MessageRows(worker.kind, worker.ids, nextId, b)
<1>1. PICK b \in BOOLEAN :
        /\ PeriodicCheck(plan(b))
        /\ \E k \in 0 .. Len(plan(b)) :
             /\ Execute(plan(b), k)
             /\ flow' = IF worker.kind \in {"frontier_req", "bulk_pull"} /\ k > 0
                          THEN [flow EXCEPT !.message = plan(b)[2].id]
                          ELSE flow
  BY DEF PutMessage
<1>2. PICK k \in 0 .. Len(plan(b)) :
        /\ Execute(plan(b), k)
        /\ flow' = IF worker.kind \in {"frontier_req", "bulk_pull"} /\ k > 0
                     THEN [flow EXCEPT !.message = plan(b)[2].id]
                     ELSE flow
  BY <1>1
<1>3. /\ up /\ worker # Idle /\ worker.kind \in Kinds
      /\ worker.ids \in Seq(Nat) /\ nextId \in Nat
      /\ \/ Len(worker.ids) = 1
         \/ Len(worker.ids) = 2 /\ worker.kind = "bulk_pull_account"
            /\ worker.ids[1] # worker.ids[2]
  BY DEF PutMessage, Inv, TypeOK, WorkerInv
<1>4. \A r \in Stored : r.id < nextId
  BY <1>3, NextIdFresh
<1>5. \A i \in DOMAIN worker.ids : worker.ids[i] < nextId /\ worker.ids[i] \notin Ids(Stored)
  BY <1>3 DEF Inv, BudgetInv, IdsAreFresh, Stored
<1>6. GoodPlan(plan(b))
  BY <1>3, <1>4, <1>5, MessageRowsGood
<1>7. /\ disk' \in {rows, disk} /\ spoilt' \in BOOLEAN
      /\ UNCHANGED <<up, seq, multiplier, destroyStep, destroyMark>>
      /\ worker' = Idle /\ counted' = counted + 1
  <2>1. disk' \in {rows, disk} /\ spoilt' \in BOOLEAN
    BY <1>1, <1>2, SpoiltIsFlag DEF PeriodicCheck, Inv
  <2> QED
    BY <2>1 DEF PutMessage, runVars, destroyVars
<1>8. worker'.ids \in Seq(Nat) /\ Apart(worker'.ids, plan(b))
  BY <1>7, IdleWorker DEF Apart
<1>9. flow' \in [type : Requests \cup {"other"}, packet : Nat, message : Nat]
  <2>1. flow \in [type : Requests \cup {"other"}, packet : Nat, message : Nat]
    BY DEF Inv, TypeOK
  <2>2. CASE worker.kind \in {"frontier_req", "bulk_pull"} /\ k > 0
    <3>1. Len(plan(b)) = 2
      <4>1. worker.kind \notin ContentFirst /\ worker.kind \in DOMAIN Children
        BY <1>3, <2>2, CaptureDbAssumption DEF ContentFirst
      <4>2. Len(Children[worker.kind]) = 1
        BY <2>2, <4>1, ChildrenAre
      <4> DEFINE C == Children[worker.kind]
                 rest == [i \in 1 .. Len(C) |->
                            Row(C[i], IF Len(worker.ids) = 2 THEN worker.ids[2]
                                      ELSE nextId + i - 1, {worker.ids[1]})]
      <4>3. plan(b) = <<Row("packet", worker.ids[1], {})>> \o rest
        BY <4>1 DEF MessageRows
      <4>4. DOMAIN rest = 1 .. 1 /\ rest = [i \in 1 .. 1 |-> rest[i]]
        BY <4>2
      <4> HIDE DEF rest, plan
      <4> DEFINE S == {Row("packet", worker.ids[1], {}), rest[1]}
      <4>5. rest \in [1 .. 1 -> S]
        BY <4>4
      <4>6. rest \in Seq(S) /\ Len(rest) = 1
        BY <4>4, <4>5
      <4>7. <<Row("packet", worker.ids[1], {})>> \in Seq(S)
            /\ Len(<<Row("packet", worker.ids[1], {})>>) = 1
        OBVIOUS
      <4> DEFINE one == <<Row("packet", worker.ids[1], {})>>
      <4>8. one \in Seq(S) /\ Len(one) = 1
        BY <4>7
      <4> HIDE DEF S, one
      <4>9. Len(one \o rest) = 2
        <5>1. Len(one \o rest) = Len(one) + Len(rest)
          BY <4>6, <4>8, ConcatProperties
        <5> QED
          BY <4>6, <4>8, <5>1
      <4>10. plan(b) = one \o rest
        BY <4>3 DEF one
      <4> QED
        BY <4>9, <4>10
    <3>2. plan(b)[2].id \in Nat
      BY <1>6, <3>1 DEF GoodPlan
    <3> HIDE DEF plan
    <3> QED
      BY <1>2, <2>1, <2>2, <3>2
  <2>3. CASE ~(worker.kind \in {"frontier_req", "bulk_pull"} /\ k > 0)
    BY <1>2, <2>1, <2>3
  <2> QED
    BY <2>2, <2>3
<1> HIDE DEF plan
<1>10. /\ rows' \subseteq RowType /\ disk' \subseteq RowType
       /\ broken' \subseteq Tables /\ nextId' \in Nat
       /\ BudgetInv' /\ BelowNextRun' /\ IdsAreFresh'
  BY <1>2, <1>3, <1>6, <1>7, <1>8, PutKeeps
<1>11. TypeOK'
  <2>1. worker' \in [kind : Kinds \cup {"idle"}, ids : Seq(Nat)]
    BY <1>7, IdleWorker
  <2>2. /\ up \in BOOLEAN /\ seq \in Nat /\ multiplier \in Nat /\ counted \in Nat
        /\ destroyStep \in 0 .. AfterTables /\ destroyMark \in Nat
    BY DEF Inv, TypeOK
  <2>3. flow'.type = "other" => flow' = NoFlow
    <3>1. CASE worker.kind \in {"frontier_req", "bulk_pull"}
      <4>1. flow.type = worker.kind
        BY <3>1 DEF Inv, TypeOK, Requests
      <4>2. flow'.type = flow.type
        BY <1>2 DEF Inv, TypeOK
      <4> QED
        BY <3>1, <4>1, <4>2
    <3>2. CASE worker.kind \notin {"frontier_req", "bulk_pull"}
      BY <1>2, <3>2 DEF Inv, TypeOK
    <3> QED
      BY <3>1, <3>2
  <2> QED
    BY <1>7, <1>9, <1>10, <2>1, <2>2, <2>3, IdleWorker DEF TypeOK
<1>12. WorkerInv'
  BY <1>7 DEF WorkerInv
<1> QED
  BY <1>10, <1>11, <1>12 DEF Inv

\* A message that fails at the packet statement gives its ids up.
LEMMA PutMessageFailsInv == Inv /\ PutMessageFails => Inv'
<1> SUFFICES ASSUME Inv, PutMessageFails PROVE Inv'
  OBVIOUS
<1>1. /\ disk' \in {rows, disk} /\ spoilt' \in BOOLEAN
      /\ worker' = Idle
      /\ UNCHANGED <<rows, seq, up, multiplier, nextId, flow, counted, broken,
                     destroyStep, destroyMark>>
  BY DEF PutMessageFails, PeriodicCheck, runVars, destroyVars, Inv, TypeOK
<1>2. worker' \in [kind : Kinds \cup {"idle"}, ids : Seq(Nat)]
  BY <1>1, IdleWorker
<1>3. TypeOK'
  BY <1>1, <1>2, IdleWorker DEF Inv, TypeOK
<1>4. WorkerInv'
  BY <1>1 DEF WorkerInv
<1> QED
  BY <1>1, <1>3, <1>4, QuietKeeps

\* An entry of a stream is stored with new ids.
LEMMA PutEntryInv == Inv /\ PutEntry => Inv'
<1> SUFFICES ASSUME Inv, PutEntry PROVE Inv'
  OBVIOUS
<1>0. PICK plan \in EntryPlans(nextId) : \E k \in 0 .. Len(plan) : Execute(plan, k)
  BY DEF PutEntry
<1>1. PICK k \in 0 .. Len(plan) : Execute(plan, k)
  BY <1>0
<1>2. up /\ worker = Idle /\ flow.type \in Requests
      /\ UNCHANGED <<disk, seq, up, multiplier, worker, flow, counted,
                     destroyStep, destroyMark>>
      /\ spoilt' \in BOOLEAN
  BY <1>1, SpoiltIsFlag DEF PutEntry, runVars, destroyVars, Inv
<1>3. GoodPlan(plan)
  BY <1>2, NextIdFresh, EntryPlansGood DEF Inv
<1>4. worker'.ids \in Seq(Nat) /\ Apart(worker'.ids, plan)
  BY <1>2, IdleWorker DEF Apart
<1>5. /\ rows' \subseteq RowType /\ disk' \subseteq RowType
      /\ broken' \subseteq Tables /\ nextId' \in Nat
      /\ BudgetInv' /\ BelowNextRun' /\ IdsAreFresh'
  BY <1>1, <1>2, <1>3, <1>4, PutKeeps
<1>6. TypeOK'
  BY <1>2, <1>5 DEF Inv, TypeOK
<1>7. WorkerInv'
  BY <1>2 DEF WorkerInv
<1> QED
  BY <1>5, <1>6, <1>7 DEF Inv

\* A connection event is stored between any two steps of the worker.
LEMMA PutConnectionInv == Inv /\ PutConnection => Inv'
<1> SUFFICES ASSUME Inv, PutConnection PROVE Inv'
  OBVIOUS
<1> DEFINE row == Row("connection", nextId, {})
           plan == <<row>>
<1>1. PICK k \in 0 .. 1 : Execute(plan, k)
  BY DEF PutConnection
<1>2. /\ up
      /\ UNCHANGED <<disk, seq, up, multiplier, worker, flow, counted,
                     destroyStep, destroyMark>>
      /\ spoilt' \in BOOLEAN
  BY <1>1, SpoiltIsFlag DEF PutConnection, runVars, destroyVars, Inv
<1>3. nextId \in Nat /\ nextId \notin Ids(Stored)
  BY <1>2, NextIdFresh
<1>4. row \in RowType /\ row.id = nextId
  BY <1>3, TablesAre, RowIsRow DEF Row
<1> HIDE DEF row
<1>5. Len(plan) = 1 /\ plan[1] = row
  OBVIOUS
<1> HIDE DEF plan
<1>6. GoodPlan(plan)
  BY <1>3, <1>4, <1>5 DEF GoodPlan
<1>7. worker'.ids \in Seq(Nat)
  BY <1>2 DEF Inv, TypeOK
<1>8. \A i \in DOMAIN worker.ids : worker.ids[i] < nextId /\ worker.ids[i] \notin Ids(Stored)
  BY <1>2 DEF Inv, BudgetInv, IdsAreFresh, Stored
<1>9. Apart(worker'.ids, plan)
  BY <1>2, <1>3, <1>4, <1>5, <1>8 DEF Apart
<1>10. /\ rows' \subseteq RowType /\ disk' \subseteq RowType
       /\ broken' \subseteq Tables /\ nextId' \in Nat
       /\ BudgetInv' /\ BelowNextRun' /\ IdsAreFresh'
  BY <1>1, <1>2, <1>5, <1>6, <1>7, <1>9, PutKeeps
<1>11. TypeOK'
  BY <1>2, <1>10 DEF Inv, TypeOK
<1>12. WorkerInv'
  BY <1>2 DEF WorkerInv, Inv
<1> QED
  BY <1>10, <1>11, <1>12 DEF Inv

\* An invalid entry draws an id and stores nothing.
LEMMA PutInvalidEntryInv == Inv /\ PutInvalidEntry => Inv'
<1> SUFFICES ASSUME Inv, PutInvalidEntry PROVE Inv'
  OBVIOUS
<1>1. /\ up /\ Room(1) /\ nextId' = nextId + 1 /\ worker = Idle
      /\ UNCHANGED <<rows, disk, seq, up, multiplier, worker, flow, counted,
                     broken, destroyStep, destroyMark, spoilt>>
  BY DEF PutInvalidEntry, storeVars, runVars, destroyVars
<1>2. /\ worker'.ids \in Seq(Nat)
      /\ \A i \in DOMAIN worker'.ids :
           worker'.ids[i] <= nextId /\ worker'.ids[i] \notin Ids(Stored)
  BY <1>1, IdleWorker
<1>3. nextId' \in Nat /\ BudgetInv' /\ BelowNextRun' /\ IdsAreFresh'
  BY <1>1, <1>2, DrawKeeps
<1>4. TypeOK'
  BY <1>1, <1>3 DEF Inv, TypeOK
<1>5. WorkerInv'
  BY <1>1 DEF WorkerInv
<1> QED
  BY <1>3, <1>4, <1>5 DEF Inv

\* The end of a stream leaves the rows alone.
LEMMA EndOfStreamInv == Inv /\ EndOfStream => Inv'
<1> SUFFICES ASSUME Inv, EndOfStream PROVE Inv'
  OBVIOUS
<1>1. /\ flow' = NoFlow /\ worker = Idle
      /\ UNCHANGED <<rows, disk, seq, up, multiplier, nextId, worker, counted,
                     broken, destroyStep, destroyMark, spoilt>>
  BY DEF EndOfStream, storeVars, runVars, destroyVars
<1>2. TypeOK'
  BY <1>1, NoFlowType, IdleWorker DEF Inv, TypeOK
<1>3. WorkerInv'
  BY <1>1 DEF Inv, WorkerInv
<1> QED
  BY <1>1, <1>2, <1>3, QuietKeeps

\* A user's DELETE makes no id less fresh.
LEMMA QueryInv == Inv /\ Query => Inv'
<1> SUFFICES ASSUME Inv, Query PROVE Inv'
  OBVIOUS
<1>1. /\ rows' \subseteq rows /\ spoilt' \in BOOLEAN
      /\ UNCHANGED <<disk, seq, up, multiplier, nextId, worker, flow, counted,
                     broken, destroyStep, destroyMark>>
  BY DEF Query, runVars, destroyVars
<1>2. TypeOK'
  BY <1>1 DEF Inv, TypeOK
<1>3. WorkerInv'
  BY <1>1 DEF Inv, WorkerInv
<1> QED
  BY <1>1, <1>2, <1>3, QuietKeeps

\* Destroy commits, and begins with the first table.
LEMMA DestroyBeginInv == Inv /\ DestroyBegin => Inv'
<1> SUFFICES ASSUME Inv, DestroyBegin PROVE Inv'
  OBVIOUS
<1>1. /\ disk' = rows' /\ destroyStep' \in 2 .. AfterTables /\ destroyMark' = nextId
      /\ UNCHANGED <<rows, seq, up, multiplier, nextId, worker, flow, counted,
                     broken, spoilt>>
  BY DEF DestroyBegin, GoToTable, FlushInternal, runVars
<1>2. TypeOK'
  BY <1>1, AfterTablesIs DEF Inv, TypeOK
<1>3. WorkerInv'
  BY <1>1 DEF Inv, WorkerInv
<1> QED
  BY <1>1, <1>2, <1>3, QuietKeeps

\* Destroy empties a table, which makes no id less fresh.
LEMMA DestroyTableInv == Inv /\ DestroyTable => Inv'
<1> SUFFICES ASSUME Inv, DestroyTable PROVE Inv'
  OBVIOUS
<1>1. /\ disk' = rows' /\ rows' \subseteq rows
      /\ destroyStep' \in destroyStep + 1 .. AfterTables
      /\ UNCHANGED <<seq, up, multiplier, nextId, worker, flow, counted,
                     broken, destroyMark, spoilt>>
  BY DEF DestroyTable, GoToTable, FlushInternal, runVars
<1>2. destroyStep' \in 0 .. AfterTables
  BY <1>1, AfterTablesIs DEF Inv, TypeOK
<1>3. TypeOK'
  BY <1>1, <1>2 DEF Inv, TypeOK
<1>4. WorkerInv'
  BY <1>1 DEF Inv, WorkerInv
<1> QED
  BY <1>1, <1>3, <1>4, QuietKeeps

\* Destroy ends: the sequence goes on, and so do the ids.
LEMMA DestroyEndInv == Inv /\ DestroyEnd => Inv'
<1> SUFFICES ASSUME Inv, DestroyEnd PROVE Inv'
  OBVIOUS
<1>1. /\ disk' = rows' /\ seq' = seq + 1 /\ counted' = 0 /\ destroyStep' = 0
      /\ UNCHANGED <<rows, up, multiplier, nextId, worker, flow, broken,
                     destroyMark, spoilt>>
  BY DEF DestroyEnd, FlushInternal, runVars
<1>2. TypeOK'
  BY <1>1, AfterTablesIs DEF Inv, TypeOK
<1>3. WorkerInv'
  BY <1>1 DEF Inv, WorkerInv
<1> QED
  BY <1>1, <1>2, <1>3, QuietKeeps

\* Nothing changes.
LEMMA StutterInv == Inv /\ UNCHANGED vars => Inv'
<1> SUFFICES ASSUME Inv, UNCHANGED vars PROVE Inv'
  OBVIOUS
<1>1. UNCHANGED <<rows, disk, seq, up, multiplier, nextId, worker, flow,
                  counted, broken, destroyStep, destroyMark, spoilt>>
  BY DEF vars
<1>2. TypeOK'
  BY <1>1 DEF Inv, TypeOK
<1>3. WorkerInv'
  BY <1>1 DEF Inv, WorkerInv
<1> QED
  BY <1>1, <1>2, <1>3, QuietKeeps

\* Every step of every thread keeps the invariant.
LEMMA NextInv == Inv /\ [Next]_vars => Inv'
  BY OpenInv, CloseInv, CrashInv, DrawPacketIdInv, DrawRequestIdInv,
     PutMessageInv, PutMessageFailsInv, PutEntryInv, PutInvalidEntryInv,
     PutConnectionInv, EndOfStreamInv, QueryInv, DestroyBeginInv,
     DestroyTableInv, DestroyEndInv, StutterInv
  DEF Next

\* Whatever the kinds of messages, the budget, the period, and whichever
\* statements fail, the database's state keeps its type: a flow answers a
\* request or none, and only known tables have a statement left behind.
THEOREM TypeCorrect == Spec => []TypeOK
<1>1. Inv => TypeOK
  BY DEF Inv
<1> QED
  BY <1>1, InitInv, NextInv, PTL DEF Spec

\* The dispenser of db.cpp never repeats an id, over restarts, crashes,
\* destroys and failed statements, as long as a run keeps to its budget.
THEOREM IdsCorrect == Spec => []IdsAreFresh
<1>1. Inv => IdsAreFresh
  BY DEF Inv
<1> QED
  BY <1>1, InitInv, NextInv, PTL DEF Spec

-----------------------------------------------------------------------------
(* Destroy. *)

\* While a destroy is under way everything is committed, and the tables it
\* has passed are empty.
DestroyInv ==
  destroyStep # 0 =>
    /\ disk = rows
    /\ \A r \in rows : \A j \in 2 .. Len(TableOrder) :
         j < destroyStep => r.table # TableOrder[j]

\* Every table comes up in the loop of destroy.
LEMMA TableHasPlace ==
  \A t \in Tables : \E j \in 2 .. Len(TableOrder) :
    t = TableOrder[j] /\ j < AfterTables
<1>1. Len(TableOrder) = 17
  BY DEF TableOrder
<1> QED
  BY <1>1, AfterTablesIs DEF Tables

\* What destroy has emptied stays empty until it ends.
LEMMA DestroyInvKept == Inv /\ DestroyInv /\ [Next]_vars => DestroyInv'
<1> SUFFICES ASSUME Inv, DestroyInv, [Next]_vars PROVE DestroyInv'
  OBVIOUS
<1>1. ASSUME destroyStep' = 0
      PROVE  DestroyInv'
  BY <1>1 DEF DestroyInv
<1>2. ASSUME UNCHANGED <<rows, disk, destroyStep>>
      PROVE  DestroyInv'
  BY <1>2 DEF DestroyInv
<1>3. CASE Open
  BY <1>2, <1>3 DEF Open, destroyVars
<1>4. CASE Close \/ Crash \/ DestroyEnd
  BY <1>1, <1>4 DEF Close, Crash, ProcessEnds, DestroyEnd
<1>5. CASE DrawPacketId \/ DrawRequestId \/ EndOfStream \/ PutInvalidEntry
  BY <1>2, <1>5 DEF DrawPacketId, DrawRequestId, EndOfStream, PutInvalidEntry,
                    storeVars, destroyVars
<1>6. CASE PutMessage \/ PutMessageFails \/ PutEntry \/ PutConnection \/ Query
  BY <1>1, <1>6 DEF PutMessage, PutMessageFails, PutEntry, PutConnection, Query,
                    destroyVars
<1>7. CASE DestroyBegin
  BY <1>7 DEF DestroyBegin, FlushInternal, GoToTable, DestroyInv
<1>8. CASE DestroyTable
  <2>1. destroyStep \in 0 .. 18
    BY AfterTablesIs DEF Inv, TypeOK
  <2>2. /\ destroyStep # 0 /\ disk' = rows'
        /\ rows' = {r \in rows : r.table # TableOrder[destroyStep]}
    BY <1>8 DEF DestroyTable, FlushInternal
  <2>3. \A j \in destroyStep + 1 .. Len(TableOrder) :
          j < destroyStep' => \A r \in rows : r.table # TableOrder[j]
    BY <1>8 DEF DestroyTable, GoToTable
  <2>4. ASSUME NEW r \in rows', NEW j \in 2 .. Len(TableOrder), j < destroyStep'
        PROVE  r.table # TableOrder[j]
    <3>1. Len(TableOrder) = 17
      BY DEF TableOrder
    <3>2. CASE j < destroyStep
      BY <2>2, <2>4, <3>2 DEF DestroyInv
    <3>3. CASE j = destroyStep
      BY <2>2, <2>4, <3>3
    <3>4. CASE j > destroyStep
      BY <2>1, <2>2, <2>3, <2>4, <3>1, <3>4
    <3> QED
      BY <2>1, <3>1, <3>2, <3>3, <3>4
  <2> QED
    BY <2>2, <2>4 DEF DestroyInv
<1>9. CASE UNCHANGED vars
  BY <1>2, <1>9 DEF vars
<1> QED
  BY <1>3, <1>4, <1>5, <1>6, <1>7, <1>8, <1>9 DEF Next

\* When destroy ends, there is no row, committed or not.
LEMMA DestroyLeavesNothing ==
  Inv /\ DestroyInv /\ [Next]_vars =>
    (destroyStep # 0 /\ destroyStep' = 0 /\ up' => rows' = {} /\ disk' = {})
<1> SUFFICES ASSUME Inv, DestroyInv, [Next]_vars,
                    destroyStep # 0, destroyStep' = 0, up'
             PROVE  rows' = {} /\ disk' = {}
  OBVIOUS
<1>1. CASE DestroyEnd
  <2>1. rows' = rows /\ disk' = rows /\ destroyStep = AfterTables
    BY <1>1 DEF DestroyEnd, FlushInternal
  <2>2. \A r \in rows : r.table \in Tables
    BY DEF Inv, TypeOK, RowType
  <2>3. \A r \in rows : \A j \in 2 .. Len(TableOrder) :
          j < AfterTables => r.table # TableOrder[j]
    BY <2>1 DEF DestroyInv
  <2>4. rows = {}
    BY <2>2, <2>3, TableHasPlace
  <2> QED
    BY <2>1, <2>4
<1>2. CASE UNCHANGED destroyStep
  BY <1>2
<1>3. CASE Open \/ DrawPacketId \/ DrawRequestId \/ EndOfStream \/ PutInvalidEntry
  BY <1>2, <1>3 DEF Open, DrawPacketId, DrawRequestId, EndOfStream,
                    PutInvalidEntry, destroyVars
<1>4. CASE PutMessage \/ PutMessageFails \/ PutEntry \/ PutConnection \/ Query
  BY <1>2, <1>4 DEF PutMessage, PutMessageFails, PutEntry, PutConnection, Query,
                    destroyVars
<1>5. CASE Close \/ Crash
  BY <1>5 DEF Close, Crash, ProcessEnds
<1>6. CASE DestroyBegin \/ DestroyTable
  <2>1. destroyStep' \in 2 .. AfterTables \/ destroyStep' \in destroyStep + 1 .. AfterTables
    BY <1>6 DEF DestroyBegin, DestroyTable, GoToTable
  <2> QED
    BY <2>1, AfterTablesIs DEF Inv, TypeOK
<1>7. CASE UNCHANGED vars
  BY <1>2, <1>7 DEF vars
<1> QED
  BY <1>1, <1>3, <1>4, <1>5, <1>6, <1>7 DEF Next

\* When destroy_capture_data returns, the capture tables are empty and the
\* emptiness is committed, whatever the other threads do meanwhile.
THEOREM DestroyCorrect == Spec => DestroyIsDurable
<1>1. Init => DestroyInv
  BY DEF Init, DestroyInv
<1>2. Inv /\ DestroyInv /\ [Next]_vars =>
        [destroyStep # 0 /\ destroyStep' = 0 /\ up' => rows' = {} /\ disk' = {}]_vars
  BY DestroyLeavesNothing
<1> QED
  BY <1>1, <1>2, InitInv, NextInv, DestroyInvKept, PTL DEF Spec, DestroyIsDurable

-----------------------------------------------------------------------------
(* References and counts, while no statement has failed. *)

\* What all the steps of a plan write.
All(plan) == Written(plan, Len(plan))

\* A message stores rows that refer to one another only, one of them a packet.
WholeMessage(W, p) ==
  /\ IsFiniteSet(W)
  /\ \A r \in W : r.refs \subseteq Ids(W)
  /\ \E q \in W : q.id = p /\ Packets(W) = {q}

\* The rows of plans of one, two and three steps.
LEMMA AllRows ==
  /\ \A a : All(<<a>>) = {x \in {a} : x.table # "none"}
  /\ \A a, b : All(<<a, b>>) = {x \in {a, b} : x.table # "none"}
  /\ \A a, b, c : All(<<a, b, c>>) = {x \in {a, b, c} : x.table # "none"}
<1>1. ASSUME NEW a
      PROVE  All(<<a>>) = {x \in {a} : x.table # "none"}
  BY DEF All, Written
<1>2. ASSUME NEW a, NEW b
      PROVE  All(<<a, b>>) = {x \in {a, b} : x.table # "none"}
  BY DEF All, Written
<1>3. ASSUME NEW a, NEW b, NEW c
      PROVE  All(<<a, b, c>>) = {x \in {a, b, c} : x.table # "none"}
  BY DEF All, Written
<1> QED
  BY <1>1, <1>2, <1>3

\* Sets of at most three are finite, and so are their subsets.
LEMMA FewAreFinite ==
  \A a, b, c : \A T \in SUBSET {a, b, c} : IsFiniteSet(T)
<1> SUFFICES ASSUME NEW a, NEW b, NEW c, NEW T \in SUBSET {a, b, c}
             PROVE  IsFiniteSet(T)
  OBVIOUS
<1>1. IsFiniteSet({a} \cup {b})
  BY FS_Singleton, FS_AddElement
<1>2. IsFiniteSet(({a} \cup {b}) \cup {c})
  BY <1>1, FS_AddElement
<1>3. {a, b, c} = ({a} \cup {b}) \cup {c}
  OBVIOUS
<1> QED
  BY <1>2, <1>3, FS_Subset

\* A packet q with up to three rows X of other tables that refer to one another.
PacketWith(W, X, q) ==
  /\ W = X \cup {q} /\ \E a, b, c : X \subseteq {a, b, c}
  /\ q.table = "packet" /\ \A x \in X : x.table # "packet"
  /\ \A r \in W : \A i \in r.refs : \E s \in W : s.id = i

\* Such rows are a whole message.
LEMMA PacketAndContent ==
  ASSUME NEW W, NEW X, NEW q, PacketWith(W, X, q)
  PROVE  WholeMessage(W, q.id)
<1> USE DEF PacketWith
<1>1. IsFiniteSet(X)
  BY FewAreFinite
<1>2. IsFiniteSet(W)
  BY <1>1, FS_AddElement
<1>3. Packets(W) = {q} /\ q \in W
  BY DEF Packets
<1>4. \A r \in W : r.refs \subseteq Ids(W)
  BY DEF Ids
<1> QED
  BY <1>2, <1>3, <1>4 DEF WholeMessage

\* The content of a message that is stored before its packet.
LEMMA ContentWhole ==
  ASSUME NEW kind \in ContentFirst, NEW p \in Nat, NEW n \in Nat, NEW stored \in BOOLEAN
  PROVE  WholeMessage(All(ContentRows(kind, p, n, stored)), p)
<1> DEFINE B == Block(n, p, stored)
           R == BlockRef(n, stored)
           v == Row("vote", IF kind = "vote_block" THEN n + 1 ELSE n, {p} \cup (IF kind = "vote_block" THEN R ELSE {}))
           q == Row("packet", p, IF kind \in {"vote_hash", "vote_block"} THEN {v.id} ELSE R)
           W == All(ContentRows(kind, p, n, stored))
<1>1. /\ stored => B.table = "block" /\ B.refs = {p} /\ R = {n}
      /\ ~stored => B.table = "none" /\ R = {}
      /\ B.id = n
  BY DEF Block, BlockRef, Row
<1>2. /\ v.table = "vote" /\ q.table = "packet" /\ q.id = p
      /\ q.refs = IF kind \in {"vote_hash", "vote_block"} THEN {v.id} ELSE R
      /\ v.refs = {p} \cup (IF kind = "vote_block" THEN R ELSE {})
  BY DEF Row
<1>3. ContentRows(kind, p, n, stored) =
        IF kind = "vote_hash" THEN <<v, q>>
        ELSE IF kind = "vote_block" THEN <<B, v, q>> ELSE <<B, q>>
  <2>1. CASE kind = "vote_hash"
    BY <2>1 DEF ContentRows, Row
  <2>2. CASE kind = "vote_block"
    BY <2>2 DEF ContentRows, Row
  <2>3. CASE kind \notin {"vote_hash", "vote_block"}
    BY <2>3 DEF ContentRows, Row
  <2> QED
    BY <2>1, <2>2, <2>3
<1> HIDE DEF B, R, v, q
<1>4. ASSUME kind = "vote_hash"
      PROVE  WholeMessage(W, p)
  <2>1. W = {v} \cup {q}
    BY <1>2, <1>3, <1>4, AllRows
  <2> HIDE DEF W
  <2>2. \A r \in W : \A i \in r.refs : \E s \in W : s.id = i
    BY <1>2, <1>4, <2>1
  <2>3. \E a, b, c : {v} \subseteq {a, b, c}
    OBVIOUS
  <2>4. PacketWith(W, {v}, q)
    BY <1>2, <2>1, <2>2, <2>3 DEF PacketWith
  <2> QED
    BY <1>2, <2>4, PacketAndContent
<1>5. ASSUME kind = "vote_block"
      PROVE  WholeMessage(W, p)
  <2>1. CASE stored
    <3>1. W = {B, v} \cup {q}
      BY <1>1, <1>2, <1>3, <1>5, <2>1, AllRows
    <3> HIDE DEF W
    <3>2. \A r \in W : \A i \in r.refs : \E s \in W : s.id = i
      BY <1>1, <1>2, <1>5, <2>1, <3>1
    <3>3. \E a, b, c : {B, v} \subseteq {a, b, c}
      OBVIOUS
    <3>4. PacketWith(W, {B, v}, q)
      BY <1>1, <1>2, <2>1, <3>1, <3>2, <3>3 DEF PacketWith
    <3> QED
      BY <1>2, <3>4, PacketAndContent
  <2>2. CASE ~stored
    <3>1. W = {v} \cup {q}
      BY <1>1, <1>2, <1>3, <1>5, <2>2, AllRows
    <3> HIDE DEF W
    <3>2. \A r \in W : \A i \in r.refs : \E s \in W : s.id = i
      BY <1>1, <1>2, <1>5, <2>2, <3>1
    <3>3. \E a, b, c : {v} \subseteq {a, b, c}
      OBVIOUS
    <3>4. PacketWith(W, {v}, q)
      BY <1>2, <3>1, <3>2, <3>3 DEF PacketWith
    <3> QED
      BY <1>2, <3>4, PacketAndContent
  <2> QED
    BY <2>1, <2>2
<1>6. ASSUME kind \notin {"vote_hash", "vote_block"}
      PROVE  WholeMessage(W, p)
  <2>1. CASE stored
    <3>1. W = {B} \cup {q}
      BY <1>1, <1>2, <1>3, <1>6, <2>1, AllRows
    <3> HIDE DEF W
    <3>2. \A r \in W : \A i \in r.refs : \E s \in W : s.id = i
      BY <1>1, <1>2, <1>6, <2>1, <3>1
    <3>3. \E a, b, c : {B} \subseteq {a, b, c}
      OBVIOUS
    <3>4. PacketWith(W, {B}, q)
      BY <1>1, <1>2, <2>1, <3>1, <3>2, <3>3 DEF PacketWith
    <3> QED
      BY <1>2, <3>4, PacketAndContent
  <2>2. CASE ~stored
    <3>1. W = {} \cup {q}
      BY <1>1, <1>2, <1>3, <1>6, <2>2, AllRows
    <3> HIDE DEF W
    <3>2. \A r \in W : \A i \in r.refs : \E s \in W : s.id = i
      BY <1>1, <1>2, <1>6, <2>2, <3>1
    <3>3. \E a, b, c : {} \subseteq {a, b, c}
      OBVIOUS
    <3>4. PacketWith(W, {}, q)
      BY <1>2, <3>1, <3>2, <3>3 DEF PacketWith
    <3> QED
      BY <1>2, <3>4, PacketAndContent
  <2> QED
    BY <2>1, <2>2
<1> QED
  BY <1>4, <1>5, <1>6

\* One row before up to two others.
LEMMA OneBefore ==
  ASSUME NEW q, NEW a, NEW b
  PROVE  /\ <<q>> \o <<>> = <<q>>
         /\ <<q>> \o <<a>> = <<q, a>>
         /\ <<q>> \o <<a, b>> = <<q, a, b>>
<1> DEFINE S == {q, a, b}
<1>1. /\ <<q>> \in Seq(S) /\ <<>> \in Seq(S) /\ <<a>> \in Seq(S) /\ <<a, b>> \in Seq(S)
      /\ <<q, a>> \in Seq(S) /\ <<q, a, b>> \in Seq(S)
  OBVIOUS
<1>2. <<q>> \o <<>> = <<q>>
  BY <1>1, ConcatEmptySeq
<1>3. <<q>> \o <<a>> = <<q, a>>
  <2> DEFINE z == <<q>> \o <<a>>
  <2>1. z \in Seq(S) /\ Len(z) = 2 /\ z[1] = q /\ z[2] = a
    BY <1>1, ConcatProperties
  <2>2. Len(<<q, a>>) = 2 /\ <<q, a>>[1] = q /\ <<q, a>>[2] = a
    OBVIOUS
  <2> HIDE DEF z
  <2>3. z = <<q, a>>
    BY <1>1, <2>1, <2>2, SeqEqual
  <2> QED
    BY <2>3 DEF z
<1>4. <<q>> \o <<a, b>> = <<q, a, b>>
  <2> DEFINE z == <<q>> \o <<a, b>>
  <2>1. z \in Seq(S) /\ Len(z) = 3 /\ z[1] = q /\ z[2] = a /\ z[3] = b
    BY <1>1, ConcatProperties
  <2>2. Len(<<q, a, b>>) = 3 /\ <<q, a, b>>[1] = q /\ <<q, a, b>>[2] = a /\ <<q, a, b>>[3] = b
    OBVIOUS
  <2> HIDE DEF z
  <2>3. z = <<q, a, b>>
    BY <1>1, <2>1, <2>2, SeqEqual
  <2> QED
    BY <2>3 DEF z
<1> QED
  BY <1>2, <1>3, <1>4

\* The tables of a message's own rows are not that of packets.
LEMMA ChildrenAreNoPackets ==
  ASSUME NEW k \in DOMAIN Children
  PROVE  /\ Len(Children[k]) \in 0 .. 2
         /\ \A i \in 1 .. Len(Children[k]) : Children[k][i] \notin {"packet", "none"}
<1>1. CASE k \in {"telemetry_req", "bulk_push"}
  BY <1>1 DEF Children
<1>2. CASE k \in {"telemetry_ack", "frontier_req", "bulk_pull", "bulk_pull_account"}
  BY <1>2 DEF Children
<1>3. CASE k \in {"keepalive", "handshake_query", "handshake_response", "handshake_both"}
  BY <1>3 DEF Children
<1> QED
  BY <1>1, <1>2, <1>3 DEF Children

\* A message whose packet is stored first: its rows refer to the packet, and a
\* request's row has the id that the flow keeps.
LEMMA ChildrenWhole ==
  ASSUME NEW kind \in DOMAIN Children, kind \notin ContentFirst, NEW ids \in Seq(Nat),
         NEW n \in Nat, NEW stored \in BOOLEAN, Len(ids) \in {1, 2}
  PROVE  /\ WholeMessage(All(MessageRows(kind, ids, n, stored)), ids[1])
         /\ Len(Children[kind]) = 1 =>
              /\ Len(MessageRows(kind, ids, n, stored)) = 2
              /\ MessageRows(kind, ids, n, stored)[2].id \in
                   Ids(All(MessageRows(kind, ids, n, stored)))
              /\ Len(ids) = 2 => MessageRows(kind, ids, n, stored)[2].id = ids[2]
<1> DEFINE C == Children[kind]
           p == ids[1]
           id(i) == IF Len(ids) = 2 THEN ids[2] ELSE n + i - 1
           child(i) == Row(C[i], id(i), {p})
           rest == [i \in 1 .. Len(C) |-> child(i)]
           q == Row("packet", p, {})
           plan == MessageRows(kind, ids, n, stored)
           W == All(plan)
<1>1. /\ Len(C) \in 0 .. 2
      /\ \A i \in 1 .. Len(C) : C[i] \notin {"packet", "none"}
  BY ChildrenAreNoPackets
<1>2. plan = <<q>> \o rest
  BY DEF MessageRows
<1>3. q.table = "packet" /\ q.id = p /\ q.refs = {}
  BY DEF Row
<1>4. \A i \in 1 .. Len(C) :
        /\ child(i).table \notin {"packet", "none"} /\ child(i).refs = {p}
        /\ child(i).id = id(i)
  BY <1>1 DEF Row
<1>5. Len(ids) = 2 => id(1) = ids[2]
  OBVIOUS
<1> HIDE DEF q, child, plan, id, p
<1>6. CASE Len(C) = 0
  <2>1. rest = <<>>
    BY <1>6
  <2>2. plan = <<q>>
    BY <1>2, <2>1, OneBefore
  <2>3. W = {} \cup {q}
    BY <1>3, <2>2, AllRows
  <2> HIDE DEF W
  <2>4. \A r \in W : \A i \in r.refs : \E s \in W : s.id = i
    BY <1>3, <2>3
  <2>5. PacketWith(W, {}, q)
    BY <1>3, <2>3, <2>4 DEF PacketWith
  <2>6. WholeMessage(W, p)
    BY <1>3, <2>5, PacketAndContent
  <2> QED
    BY <1>6, <2>6 DEF W, plan, p
<1>7. CASE Len(C) = 1
  <2>1. rest = <<child(1)>>
    BY <1>7
  <2>2. plan = <<q, child(1)>>
    BY <1>2, <2>1, OneBefore
  <2>3. /\ child(1).table \notin {"packet", "none"} /\ child(1).refs = {p}
        /\ child(1).id = id(1)
    BY <1>4, <1>7
  <2>4. W = {child(1)} \cup {q}
    BY <1>3, <2>2, <2>3, AllRows
  <2> HIDE DEF W
  <2>5. \A r \in W : \A i \in r.refs : \E s \in W : s.id = i
    BY <1>3, <2>3, <2>4
  <2>6. PacketWith(W, {child(1)}, q)
    BY <1>3, <2>3, <2>4, <2>5 DEF PacketWith
  <2>7. WholeMessage(W, p)
    BY <1>3, <2>6, PacketAndContent
  <2>8. Len(plan) = 2 /\ plan[2] = child(1)
    BY <2>2
  <2>9. child(1).id \in Ids(W)
    BY <2>4 DEF Ids
  <2>10. /\ WholeMessage(W, p)
         /\ Len(plan) = 2 /\ plan[2].id \in Ids(W)
         /\ Len(ids) = 2 => plan[2].id = ids[2]
    BY <1>5, <2>3, <2>7, <2>8, <2>9
  <2> QED
    BY <2>10 DEF W, plan, p
<1>8. CASE Len(C) = 2
  <2>1. rest = <<child(1), child(2)>>
    BY <1>8
  <2> HIDE DEF rest
  <2>2. plan = <<q, child(1), child(2)>>
    <3>1. <<q>> \o <<child(1), child(2)>> = <<q, child(1), child(2)>>
      BY OneBefore
    <3> QED
      BY <1>2, <2>1, <3>1, Zenon
  <2>3. /\ child(1).table \notin {"packet", "none"} /\ child(1).refs = {p}
        /\ child(2).table \notin {"packet", "none"} /\ child(2).refs = {p}
    BY <1>4, <1>8
  <2>4. W = {child(1), child(2)} \cup {q}
    BY <1>3, <2>2, <2>3, AllRows
  <2> HIDE DEF W
  <2>5. \A r \in W : \A i \in r.refs : \E s \in W : s.id = i
    BY <1>3, <2>3, <2>4
  <2>6. PacketWith(W, {child(1), child(2)}, q)
    BY <1>3, <2>3, <2>4, <2>5 DEF PacketWith
  <2>7. WholeMessage(W, p)
    BY <1>3, <2>6, PacketAndContent
  <2> QED
    BY <1>8, <2>7 DEF W, plan, p
<1> QED
  BY <1>1, <1>6, <1>7, <1>8

\* What an entry stores refers to itself and to its request's rows.
EntryRefs(W) ==
  /\ IsFiniteSet(W) /\ Packets(W) = {}
  /\ \A r \in W : \A i \in r.refs :
       \/ i \in Ids(W)
       \/ i = flow.packet
       \/ i = flow.message /\ flow.type # "bulk_push"

\* So does every plan of an entry.
LEMMA EntryWhole ==
  ASSUME flow.type \in Requests, NEW plan \in EntryPlans(nextId)
  PROVE  EntryRefs(All(plan)) /\ Len(plan) \in Nat
<1> DEFINE n == nextId
<1>1. ASSUME NEW t, t \notin {"packet", "none"}, flow.type # "bulk_push",
             plan = <<Row(t, n, {flow.message})>>
      PROVE  EntryRefs(All(plan)) /\ Len(plan) \in Nat
  <2> DEFINE e == Row(t, n, {flow.message})
  <2>1. e.table = t /\ e.refs = {flow.message}
    BY DEF Row
  <2> HIDE DEF e
  <2>2. All(plan) = {e}
    BY <1>1, <2>1, AllRows DEF e
  <2>3. IsFiniteSet({e}) /\ Packets({e}) = {}
    BY <1>1, <2>1, FS_Singleton DEF Packets
  <2>4. Len(plan) \in Nat
    BY <1>1
  <2> QED
    BY <1>1, <2>1, <2>2, <2>3, <2>4 DEF EntryRefs
<1>2. ASSUME NEW t, t \notin {"packet", "none"}, NEW ref,
             ref = flow.packet \/ (ref = flow.message /\ flow.type # "bulk_push"),
             plan = BlockEntry(t, ref, n)
      PROVE  EntryRefs(All(plan)) /\ Len(plan) \in Nat
  <2> DEFINE b == Row("block", n, {flow.packet})
             e == Row(t, n + 1, {ref, n})
  <2>1. /\ b.table = "block" /\ b.id = n /\ b.refs = {flow.packet}
        /\ e.table = t /\ e.refs = {ref, n}
    BY DEF Row
  <2>2. plan = <<b, e>>
    BY <1>2 DEF BlockEntry, Block
  <2> HIDE DEF b, e
  <2>3. All(plan) = {b, e} /\ Len(plan) \in Nat
    BY <1>2, <2>1, <2>2, AllRows
  <2>4. IsFiniteSet({b, e}) /\ Packets({b, e}) = {}
    BY <1>2, <2>1, FewAreFinite DEF Packets
  <2>5. n \in Ids({b, e})
    BY <2>1 DEF Ids
  <2> QED
    BY <1>2, <2>1, <2>3, <2>4, <2>5 DEF EntryRefs
<1> HIDE DEF n
<1>3. CASE flow.type = "frontier_req"
  <2>1. plan = <<Row("frontier_response", n, {flow.message})>>
    BY <1>3 DEF EntryPlans, n
  <2> QED
    BY <1>1, <1>3, <2>1
<1>4. CASE flow.type = "bulk_pull"
  <2>1. plan = BlockEntry("bulk_pull_response", flow.message, n)
    BY <1>4 DEF EntryPlans, n
  <2> QED
    BY <1>2, <1>4, <2>1
<1>5. CASE flow.type = "bulk_push"
  <2>1. plan = BlockEntry("bulk_push_entry", flow.packet, n)
    BY <1>5 DEF EntryPlans, n
  <2> QED
    BY <1>2, <1>5, <2>1
<1>6. CASE flow.type = "bulk_pull_account"
  <2>1. PICK t \in {"bulk_pull_account_response",
                    "bulk_pull_account_response_entry"} :
          plan = <<Row(t, n, {flow.message})>>
    BY <1>6 DEF EntryPlans, n
  <2> QED
    BY <1>1, <1>6, <2>1
<1> QED
  BY <1>3, <1>4, <1>5, <1>6 DEF Requests

\* Without failures a put executes all of its plan.
LEMMA ExecuteWhole ==
  ASSUME ~spoilt', broken = {}, nextId \in Nat, NEW plan, Len(plan) \in Nat,
         NEW k \in 0 .. Len(plan), Execute(plan, k)
  PROVE  /\ k = Len(plan) /\ rows' = rows \cup All(plan) /\ broken' = {}
         /\ nextId' \in Nat /\ nextId' >= nextId
<1>1. ~(k < Len(plan))
  BY DEF Execute
<1>2. k = Len(plan)
  BY <1>1
<1> QED
  BY <1>2 DEF Execute, All

\* What the rows in S may refer to, when the last destroy began at mark.
Kept(i, S, mark) == i \in Ids(S) \/ i < mark

Closed(S, mark) == \A r \in S : \A i \in r.refs : Kept(i, S, mark)

\* The ids that entries will refer to are those the worker is about to store
\* for the request, or stored.
FlowInv ==
  flow.type \in Requests =>
    \/ /\ worker # Idle /\ flow.type = worker.kind
       /\ flow.packet = worker.ids[1]
       /\ Len(worker.ids) = 2 => flow.message = worker.ids[2]
    \/ /\ worker = Idle /\ Kept(flow.packet, rows, destroyMark)
       /\ flow.type # "bulk_push" => Kept(flow.message, rows, destroyMark)

\* The mark is an id of this or an earlier run, and what a destroy under way
\* removes lies below it.
MarkInv ==
  /\ destroyMark <= Budget * (seq + 1)
  /\ up => destroyMark <= nextId
  /\ destroyStep # 0 => \A r \in Stored : r.id < destroyMark

\* The count is right, except while a destroy is under way.
CountsRight ==
  up /\ destroyStep = 0 => counted = Cardinality(Packets(rows))

CountInv ==
  /\ IsFiniteSet(rows) /\ IsFiniteSet(disk)
  /\ ~up => rows = disk
  /\ CountsRight

WholeInv ==
  /\ broken = {}
  /\ Closed(rows, destroyMark) /\ Closed(disk, destroyMark)
  /\ FlowInv /\ MarkInv /\ CountInv

\* Rows that refer to one another and to kept rows may be added.
LEMMA ClosedGrows ==
  ASSUME NEW S, NEW W, NEW mark, Closed(S, mark),
         \A r \in W : \A i \in r.refs : i \in Ids(W) \/ Kept(i, S, mark)
  PROVE  Closed(S \cup W, mark)
  BY DEF Closed, Kept, Ids

\* What is kept stays so when rows are added and when a destroy begins.
LEMMA KeptGrows ==
  ASSUME NEW i \in Nat, NEW S, NEW T, NEW mark \in Nat, NEW more \in Nat,
         Kept(i, S, mark), mark <= more, S \subseteq T
  PROVE  Kept(i, T, more)
  BY DEF Kept, Ids

\* A packet with a new id is one more.
LEMMA OnePacketMore ==
  ASSUME IsFiniteSet(rows), NEW W, NEW p, WholeMessage(W, p), p \notin Ids(rows)
  PROVE  /\ IsFiniteSet(rows \cup W)
         /\ Cardinality(Packets(rows \cup W)) = Cardinality(Packets(rows)) + 1
<1>1. PICK q \in W : q.id = p /\ Packets(W) = {q}
  BY DEF WholeMessage
<1>2. q \notin Packets(rows)
  BY <1>1 DEF Packets, Ids
<1>3. Packets(rows \cup W) = Packets(rows) \cup {q}
  BY <1>1 DEF Packets
<1>4. IsFiniteSet(Packets(rows))
  BY FS_Subset DEF Packets
<1> QED
  BY <1>2, <1>3, <1>4, FS_AddElement, FS_Union DEF WholeMessage

\* Rows of other tables leave the number of packets as it is.
LEMMA NoPacketMore ==
  ASSUME IsFiniteSet(rows), NEW W, IsFiniteSet(W), Packets(W) = {}
  PROVE  IsFiniteSet(rows \cup W) /\ Packets(rows \cup W) = Packets(rows)
<1>1. IsFiniteSet(rows \cup W)
  BY FS_Union
<1>2. Packets(rows \cup W) = Packets(rows)
  BY DEF Packets
<1> QED
  BY <1>1, <1>2

\* A step that keeps rows and the mark, and commits or not.
LEMMA QuietWhole ==
  ASSUME WholeInv, rows' = rows, disk' \in {rows, disk}, broken' = broken,
         UNCHANGED <<up, seq, counted, destroyStep, destroyMark>>,
         nextId \in Nat, nextId' \in Nat, nextId' >= nextId, destroyMark \in Nat, FlowInv'
  PROVE  WholeInv'
<1>1. broken' = {}
  BY DEF WholeInv
<1>2. Closed(rows, destroyMark)' /\ Closed(disk, destroyMark)'
  BY DEF WholeInv, Closed, Kept, Ids
<1>3. MarkInv'
  BY DEF WholeInv, MarkInv, Stored
<1>4. CountInv'
  BY DEF WholeInv, CountInv, CountsRight
<1> QED
  BY <1>1, <1>2, <1>3, <1>4 DEF WholeInv

\* A connection without a request has no request's type.
LEMMA TypeIsNone == NoFlow.type \notin Requests
  BY DEF NoFlow, Requests

\* A put, while no destroy is under way, of rows that refer to one another and
\* to kept rows, with the right count and flow.
LEMMA PutWhole ==
  ASSUME Inv, WholeInv, up, destroyStep = 0, NEW W,
         rows' = rows \cup W, disk' \in {rows, disk}, broken' = {},
         UNCHANGED <<up, seq, destroyStep, destroyMark>>,
         nextId' \in Nat, nextId' >= nextId,
         \A r \in W : \A i \in r.refs : i \in Ids(W) \/ Kept(i, rows, destroyMark),
         IsFiniteSet(rows'), counted' = Cardinality(Packets(rows')), FlowInv'
  PROVE  WholeInv'
<1>1. Closed(rows, destroyMark)'
  <2>1. Closed(rows \cup W, destroyMark)
    BY ClosedGrows DEF WholeInv
  <2> QED
    BY <2>1 DEF Closed, Kept, Ids
<1>2. Closed(disk, destroyMark)'
  BY DEF WholeInv, Closed, Kept, Ids
<1>3. destroyMark \in Nat /\ nextId \in Nat
  BY DEF Inv, TypeOK
<1>4. MarkInv'
  BY <1>3 DEF WholeInv, MarkInv
<1>5. CountInv'
  BY DEF WholeInv, CountInv, CountsRight
<1> QED
  BY <1>1, <1>2, <1>4, <1>5 DEF WholeInv

\* While the process is down there is no destroy to remember and no put.
LEMMA DownWhole ==
  ASSUME Inv, WholeInv, ProcessEnds, rows' = disk', rows' \in {rows, disk},
         UNCHANGED <<seq, destroyMark>>
  PROVE  WholeInv'
<1>1. up' = FALSE /\ worker' = Idle /\ flow' = NoFlow /\ broken' = {} /\ destroyStep' = 0
  BY DEF ProcessEnds
<1>2. Closed(rows, destroyMark)' /\ Closed(disk, destroyMark)'
  BY DEF WholeInv, Closed, Kept, Ids
<1>3. FlowInv'
  BY <1>1, TypeIsNone DEF FlowInv
<1>4. MarkInv'
  BY <1>1 DEF WholeInv, MarkInv
<1>5. CountInv'
  BY <1>1 DEF WholeInv, CountInv, CountsRight
<1> QED
  BY <1>1, <1>2, <1>3, <1>4, <1>5 DEF WholeInv

\* A new run reads the counts of what is committed.
LEMMA OpenWhole == Inv /\ WholeInv /\ Open => WholeInv'
<1> SUFFICES ASSUME Inv, WholeInv, Open PROVE WholeInv'
  OBVIOUS
<1>1. /\ ~up /\ up' = TRUE /\ seq' = seq + 1 /\ nextId' = Budget * (seq + 1)
      /\ counted' = Cardinality(Packets(disk))
      /\ UNCHANGED <<rows, disk, worker, flow, broken, destroyStep, destroyMark>>
  BY DEF Open, destroyVars
<1>2. seq \in Nat /\ destroyMark \in Nat
  BY DEF Inv, TypeOK
<1>3. Closed(rows, destroyMark)' /\ Closed(disk, destroyMark)' /\ broken' = {}
  BY <1>1 DEF WholeInv, Closed, Kept, Ids
<1>4. FlowInv'
  BY <1>1 DEF WholeInv, FlowInv, Kept, Ids
<1>5. MarkInv'
  <2>1. Budget * (seq + 1) <= Budget * (seq + 2)
        /\ Budget * (seq + 1) \in Nat /\ Budget * (seq + 2) \in Nat
    BY <1>2, BudgetMonotone, BudgetNat
  <2>2. seq' + 1 = seq + 2 /\ destroyMark <= Budget * (seq + 1)
    BY <1>1, <1>2 DEF WholeInv, MarkInv
  <2>3. destroyMark <= Budget * (seq + 2)
    BY <1>2, <2>1, <2>2
  <2>4. destroyMark' <= Budget * (seq' + 1)
    BY <1>1, <2>2, <2>3
  <2>5. destroyMark' <= nextId'
    BY <1>1, <2>2
  <2>6. destroyStep' # 0 => \A r \in Stored' : r.id < destroyMark'
    BY <1>1 DEF WholeInv, MarkInv, Stored
  <2> QED
    BY <2>4, <2>5, <2>6 DEF MarkInv
<1>6. CountInv'
  BY <1>1 DEF WholeInv, CountInv, CountsRight
<1> QED
  BY <1>3, <1>4, <1>5, <1>6 DEF WholeInv

\* The end of the process, orderly or not.
LEMMA EndWhole == Inv /\ WholeInv /\ (Close \/ Crash) => WholeInv'
<1>1. ASSUME Inv, WholeInv, Close PROVE WholeInv'
  BY <1>1, DownWhole DEF Close
<1>2. ASSUME Inv, WholeInv, Crash PROVE WholeInv'
  BY <1>2, DownWhole DEF Crash
<1> QED
  BY <1>1, <1>2

\* A request's flow begins with the packet id that is about to be stored.
LEMMA DrawPacketIdWhole == Inv /\ WholeInv /\ DrawPacketId => WholeInv'
<1> SUFFICES ASSUME Inv, WholeInv, DrawPacketId PROVE WholeInv'
  OBVIOUS
<1>1. PICK k \in Kinds :
        /\ worker' = [kind |-> k, ids |-> <<nextId>>]
        /\ flow' = IF k \in Requests
                     THEN [type |-> k, packet |-> nextId, message |-> 0]
                     ELSE NoFlow
  BY DEF DrawPacketId
<1>2. nextId' = nextId + 1
      /\ UNCHANGED <<rows, disk, up, seq, counted, broken, destroyStep, destroyMark>>
  BY DEF DrawPacketId, storeVars, runVars, destroyVars
<1>3. nextId \in Nat /\ destroyMark \in Nat
  BY DEF Inv, TypeOK
<1>4. worker' # Idle /\ worker'.kind = k /\ worker'.ids = <<nextId>>
  BY <1>1, IdleWorker, NotIdle
<1>5. FlowInv'
  <2>1. CASE k \in Requests
    BY <1>1, <1>4, <2>1 DEF FlowInv
  <2>2. CASE k \notin Requests
    BY <1>1, <2>2, TypeIsNone DEF FlowInv
  <2> QED
    BY <2>1, <2>2
<1> QED
  BY <1>2, <1>3, <1>5, QuietWhole

\* The request's own id is kept in the flow.
LEMMA DrawRequestIdWhole == Inv /\ WholeInv /\ DrawRequestId => WholeInv'
<1> SUFFICES ASSUME Inv, WholeInv, DrawRequestId PROVE WholeInv'
  OBVIOUS
<1>1. /\ worker.kind = "bulk_pull_account" /\ Len(worker.ids) = 1
      /\ worker' = [worker EXCEPT !.ids = Append(@, nextId)]
      /\ flow' = [flow EXCEPT !.message = nextId] /\ nextId' = nextId + 1
      /\ UNCHANGED <<rows, disk, up, seq, counted, broken, destroyStep, destroyMark>>
  BY DEF DrawRequestId, storeVars, runVars, destroyVars
<1>2. /\ nextId \in Nat /\ destroyMark \in Nat
      /\ worker \in [kind : Kinds \cup {"idle"}, ids : Seq(Nat)]
      /\ flow \in [type : Requests \cup {"other"}, packet : Nat, message : Nat]
  BY DEF Inv, TypeOK
<1>3. /\ worker'.kind = worker.kind /\ worker'.ids = Append(worker.ids, nextId)
      /\ flow'.type = flow.type /\ flow'.packet = flow.packet /\ flow'.message = nextId
  BY <1>1, <1>2
<1>4. worker.ids \in Seq(Nat)
  BY <1>2
<1>5. worker'.ids[1] = worker.ids[1] /\ worker'.ids[2] = nextId
  BY <1>1, <1>2, <1>3, <1>4, AppendToOne DEF IsAppended
<1>6. worker # Idle /\ worker' # Idle
  BY <1>1, <1>3, IdleWorker
<1>7. flow.type \in Requests => flow.type = worker.kind /\ flow.packet = worker.ids[1]
  BY <1>6 DEF WholeInv, FlowInv
<1>8. FlowInv'
  BY <1>3, <1>5, <1>6, <1>7 DEF FlowInv
<1> QED
  BY <1>1, <1>2, <1>8, QuietWhole

\* An entry without a block stores nothing.
LEMMA PutInvalidEntryWhole == Inv /\ WholeInv /\ PutInvalidEntry => WholeInv'
<1> SUFFICES ASSUME Inv, WholeInv, PutInvalidEntry PROVE WholeInv'
  OBVIOUS
<1>1. nextId' = nextId + 1
      /\ UNCHANGED <<rows, disk, up, seq, worker, flow, counted, broken,
                     destroyStep, destroyMark>>
  BY DEF PutInvalidEntry, storeVars, runVars, destroyVars
<1>2. nextId \in Nat /\ destroyMark \in Nat
  BY DEF Inv, TypeOK
<1>3. FlowInv'
  BY <1>1 DEF WholeInv, FlowInv, Kept, Ids
<1> QED
  BY <1>1, <1>2, <1>3, QuietWhole

\* A flow that has ended refers to nothing.
LEMMA EndOfStreamWhole == Inv /\ WholeInv /\ EndOfStream => WholeInv'
<1> SUFFICES ASSUME Inv, WholeInv, EndOfStream PROVE WholeInv'
  OBVIOUS
<1>1. flow' = NoFlow
      /\ UNCHANGED <<rows, disk, up, seq, nextId, counted, broken,
                     destroyStep, destroyMark>>
  BY DEF EndOfStream, storeVars, runVars, destroyVars
<1>2. nextId \in Nat /\ destroyMark \in Nat
  BY DEF Inv, TypeOK
<1>3. FlowInv'
  BY <1>1, TypeIsNone DEF FlowInv
<1> QED
  BY <1>1, <1>2, <1>3, QuietWhole

\* A connection event is one row that refers to nothing.
LEMMA PutConnectionWhole ==
  Inv /\ WholeInv /\ PutConnection /\ ~spoilt' => WholeInv'
<1> SUFFICES ASSUME ~spoilt', Inv, WholeInv, PutConnection PROVE WholeInv'
  OBVIOUS
<1> DEFINE row == Row("connection", nextId, {})
           plan == <<row>>
<1>1. PICK k \in 0 .. 1 : Execute(plan, k)
  BY DEF PutConnection
<1>2. up /\ destroyStep = 0
      /\ UNCHANGED <<disk, seq, up, worker, flow, counted, destroyStep, destroyMark>>
  BY DEF PutConnection, runVars, destroyVars
<1>3. row.table = "connection" /\ row.refs = {}
  BY DEF Row
<1> HIDE DEF row
<1>4. All(plan) = {row} /\ Len(plan) = 1
  BY <1>3, AllRows
<1> HIDE DEF plan
<1>5. nextId \in Nat
  BY DEF Inv, TypeOK
<1>6. /\ rows' = rows \cup {row} /\ broken' = {}
      /\ nextId' \in Nat /\ nextId' >= nextId
  BY <1>1, <1>4, <1>5, ExecuteWhole DEF WholeInv
<1>7. Packets({row}) = {} /\ IsFiniteSet({row})
  BY <1>3, FS_Singleton DEF Packets
<1>8. IsFiniteSet(rows') /\ Packets(rows') = Packets(rows)
  BY <1>6, <1>7, NoPacketMore DEF WholeInv, CountInv
<1>9. counted' = Cardinality(Packets(rows'))
  BY <1>2, <1>8 DEF WholeInv, CountInv, CountsRight
<1>10. FlowInv'
  BY <1>2, <1>6 DEF WholeInv, FlowInv, Kept, Ids
<1> QED
  BY <1>2, <1>3, <1>6, <1>8, <1>9, <1>10, PutWhole

\* An entry refers to its request, which is stored.
LEMMA PutEntryWhole == Inv /\ WholeInv /\ PutEntry /\ ~spoilt' => WholeInv'
<1> SUFFICES ASSUME ~spoilt', Inv, WholeInv, PutEntry PROVE WholeInv'
  OBVIOUS
<1>1. PICK plan \in EntryPlans(nextId) : \E k \in 0 .. Len(plan) : Execute(plan, k)
  BY DEF PutEntry
<1>2. PICK k \in 0 .. Len(plan) : Execute(plan, k)
  BY <1>1
<1>3. up /\ destroyStep = 0 /\ worker = Idle /\ flow.type \in Requests
      /\ UNCHANGED <<disk, seq, up, worker, flow, counted, destroyStep, destroyMark>>
  BY DEF PutEntry, runVars, destroyVars
<1>4. nextId \in Nat
  BY DEF Inv, TypeOK
<1> DEFINE W == All(plan)
<1>5. EntryRefs(W) /\ Len(plan) \in Nat
  BY <1>3, EntryWhole
<1>6. /\ rows' = rows \cup W /\ broken' = {}
      /\ nextId' \in Nat /\ nextId' >= nextId
  BY <1>2, <1>4, <1>5, ExecuteWhole DEF WholeInv
<1> HIDE DEF W
<1>7. Kept(flow.packet, rows, destroyMark)
      /\ (flow.type # "bulk_push" => Kept(flow.message, rows, destroyMark))
  BY <1>3 DEF WholeInv, FlowInv
<1>8. IsFiniteSet(rows') /\ Packets(rows') = Packets(rows)
  BY <1>5, <1>6, NoPacketMore DEF EntryRefs, WholeInv, CountInv
<1>9. counted' = Cardinality(Packets(rows'))
  BY <1>3, <1>8 DEF WholeInv, CountInv, CountsRight
<1>10. FlowInv'
  BY <1>3, <1>6, <1>7 DEF FlowInv, Kept, Ids
<1>11. \A r \in W : \A i \in r.refs : i \in Ids(W) \/ Kept(i, rows, destroyMark)
  BY <1>5, <1>7 DEF EntryRefs
<1> QED
  BY <1>3, <1>6, <1>8, <1>9, <1>10, <1>11, PutWhole

\* A message is stored whole, with one packet, and a request's flow then
\* refers to what is stored.
LEMMA PutMessageWhole == Inv /\ WholeInv /\ PutMessage /\ ~spoilt' => WholeInv'
<1> SUFFICES ASSUME ~spoilt', Inv, WholeInv, PutMessage PROVE WholeInv'
  OBVIOUS
<1> DEFINE plan(b) == MessageRows(worker.kind, worker.ids, nextId, b)
<1>1. PICK b \in BOOLEAN :
        /\ PeriodicCheck(plan(b))
        /\ \E k \in 0 .. Len(plan(b)) :
             /\ Execute(plan(b), k)
             /\ flow' = IF worker.kind \in {"frontier_req", "bulk_pull"} /\ k > 0
                          THEN [flow EXCEPT !.message = plan(b)[2].id]
                          ELSE flow
  BY DEF PutMessage
<1>2. PICK k \in 0 .. Len(plan(b)) :
        /\ Execute(plan(b), k)
        /\ flow' = IF worker.kind \in {"frontier_req", "bulk_pull"} /\ k > 0
                     THEN [flow EXCEPT !.message = plan(b)[2].id]
                     ELSE flow
  BY <1>1
<1>3. /\ up /\ destroyStep = 0 /\ worker # Idle /\ worker' = Idle
      /\ worker.kind = "bulk_pull_account" => Len(worker.ids) = 2
      /\ counted' = counted + 1 /\ disk' \in {rows, disk}
      /\ UNCHANGED <<up, seq, destroyStep, destroyMark>>
  BY <1>1 DEF PutMessage, PeriodicCheck, runVars, destroyVars
<1>4. /\ worker.kind \in Kinds /\ worker.ids \in Seq(Nat) /\ nextId \in Nat
      /\ counted \in Nat
      /\ \/ Len(worker.ids) = 1
         \/ Len(worker.ids) = 2 /\ worker.kind = "bulk_pull_account"
  BY <1>3 DEF Inv, TypeOK, WorkerInv
<1>5. GoodPlan(plan(b))
  <2>1. \A r \in Stored : r.id < nextId
    BY <1>3, NextIdFresh
  <2>2. \A i \in DOMAIN worker.ids : worker.ids[i] < nextId /\ worker.ids[i] \notin Ids(Stored)
    BY <1>3 DEF Inv, BudgetInv, IdsAreFresh, Stored
  <2>3. \/ Len(worker.ids) = 1
        \/ Len(worker.ids) = 2 /\ worker.kind = "bulk_pull_account"
           /\ worker.ids[1] # worker.ids[2]
    BY <1>3 DEF Inv, WorkerInv
  <2> QED
    BY <1>4, <2>1, <2>2, <2>3, MessageRowsGood
<1> DEFINE W == All(plan(b))
           p == worker.ids[1]
<1>6. WholeMessage(W, p)
  <2>1. CASE worker.kind \in ContentFirst
    <3>1. plan(b) = ContentRows(worker.kind, p, nextId, b)
      BY <2>1 DEF MessageRows
    <3>2. p \in Nat
      BY <1>4
    <3> HIDE DEF plan, p
    <3> QED
      BY <1>4, <2>1, <3>1, <3>2, ContentWhole
  <2>2. CASE worker.kind \notin ContentFirst
    <3>1. worker.kind \in DOMAIN Children
      BY <1>4, <2>2, CaptureDbAssumption
    <3> QED
      BY <1>4, <2>2, <3>1, ChildrenWhole
  <2> QED
    BY <2>1, <2>2
<1>7. ASSUME worker.kind \in {"frontier_req", "bulk_pull", "bulk_pull_account"}
      PROVE  /\ Len(plan(b)) = 2 /\ plan(b)[2].id \in Ids(W)
             /\ Len(worker.ids) = 2 => plan(b)[2].id = worker.ids[2]
  <2>1. worker.kind \in DOMAIN Children /\ worker.kind \notin ContentFirst
    BY <1>4, <1>7, CaptureDbAssumption DEF ContentFirst
  <2>2. Len(Children[worker.kind]) = 1
    BY <1>7, <2>1, ChildrenAre
  <2> QED
    BY <1>4, <2>1, <2>2, ChildrenWhole
<1> HIDE DEF W, plan
<1>8. /\ k = Len(plan(b)) /\ rows' = rows \cup W /\ broken' = {}
      /\ nextId' \in Nat /\ nextId' >= nextId
  <2>1. Len(plan(b)) \in Nat
    BY <1>5 DEF GoodPlan
  <2> QED
    BY <1>2, <1>4, <2>1, ExecuteWhole DEF WholeInv, W
<1>9. p \notin Ids(rows)
  <2>1. \A i \in DOMAIN worker.ids : worker.ids[i] \notin Ids(Stored)
    BY <1>3 DEF Inv, IdsAreFresh, Stored
  <2>2. 1 \in DOMAIN worker.ids
    BY <1>4
  <2>3. p \notin Ids(Stored)
    BY <2>1, <2>2
  <2> QED
    BY <2>3 DEF Ids, Stored
<1> HIDE DEF p
<1>10. /\ IsFiniteSet(rows')
       /\ Cardinality(Packets(rows')) = Cardinality(Packets(rows)) + 1
  BY <1>6, <1>8, <1>9, OnePacketMore DEF WholeInv, CountInv
<1>11. counted' = Cardinality(Packets(rows'))
  BY <1>3, <1>10 DEF WholeInv, CountInv, CountsRight
<1>12. \A r \in W : \A i \in r.refs : i \in Ids(W) \/ Kept(i, rows, destroyMark)
  BY <1>6 DEF WholeMessage
<1>13. \A i \in Ids(W) : Kept(i, rows', destroyMark')
  BY <1>8 DEF Kept, Ids
<1>14. p \in Ids(W)
  BY <1>6 DEF WholeMessage, Ids, Packets
<1>15. flow.type \in Requests =>
         /\ flow.type = worker.kind /\ flow.packet = p
         /\ Len(worker.ids) = 2 => flow.message = worker.ids[2]
  BY <1>3 DEF WholeInv, FlowInv, p
<1>16. flow \in [type : Requests \cup {"other"}, packet : Nat, message : Nat]
  BY DEF Inv, TypeOK
<1>17. FlowInv'
  <2>1. CASE worker.kind \in {"frontier_req", "bulk_pull"}
    <3>1. flow' = [flow EXCEPT !.message = plan(b)[2].id]
      BY <1>2, <1>7, <1>8, <2>1
    <3>2. /\ flow'.type = flow.type /\ flow'.packet = flow.packet
          /\ flow'.message = plan(b)[2].id
      BY <1>16, <3>1
    <3>3. plan(b)[2].id \in Ids(W)
      BY <1>7, <2>1
    <3> QED
      BY <1>3, <1>13, <1>14, <1>15, <3>2, <3>3 DEF FlowInv
  <2>2. CASE worker.kind \notin {"frontier_req", "bulk_pull"}
    <3>1. flow' = flow
      BY <1>2, <2>2
    <3>2. CASE flow.type = "bulk_pull_account"
      <4>1. Len(worker.ids) = 2 /\ worker.kind = "bulk_pull_account"
        BY <1>3, <1>15, <3>2 DEF Requests
      <4>2. flow.message \in Ids(W) /\ flow.packet \in Ids(W)
        BY <1>7, <1>14, <1>15, <3>2, <4>1 DEF Requests
      <4> QED
        BY <1>3, <1>13, <3>1, <4>2 DEF FlowInv
    <3>3. CASE flow.type # "bulk_pull_account"
      BY <1>3, <1>13, <1>14, <1>15, <2>2, <3>1, <3>3 DEF FlowInv, Requests
    <3> QED
      BY <3>2, <3>3
  <2> QED
    BY <2>1, <2>2
<1> QED
  BY <1>3, <1>8, <1>10, <1>11, <1>12, <1>17, PutWhole

\* Destroy commits; every row so far has an id below the mark.
LEMMA DestroyBeginWhole == Inv /\ WholeInv /\ DestroyBegin => WholeInv'
<1> SUFFICES ASSUME Inv, WholeInv, DestroyBegin PROVE WholeInv'
  OBVIOUS
<1>1. /\ up /\ rows' = rows /\ disk' = rows /\ destroyMark' = nextId
      /\ destroyStep' \in 2 .. AfterTables
      /\ UNCHANGED <<seq, up, multiplier, nextId, worker, flow, counted, broken>>
  BY DEF DestroyBegin, GoToTable, FlushInternal, runVars
<1>2. /\ nextId \in Nat /\ destroyMark \in Nat /\ seq \in Nat
      /\ rows \subseteq RowType
      /\ flow \in [type : Requests \cup {"other"}, packet : Nat, message : Nat]
  BY DEF Inv, TypeOK
<1>3. destroyMark <= nextId
  BY <1>1 DEF WholeInv, MarkInv
<1>4. \A r \in rows : \A i \in r.refs : i \in Nat
  BY <1>2 DEF RowType
<1>5. Closed(rows', destroyMark') /\ Closed(disk', destroyMark')
  BY <1>1, <1>2, <1>3, <1>4, KeptGrows DEF WholeInv, Closed
<1>6. FlowInv'
  <2>1. flow.packet \in Nat /\ flow.message \in Nat
    BY <1>2
  <2>2. /\ Kept(flow.packet, rows, destroyMark) => Kept(flow.packet, rows', destroyMark')
        /\ Kept(flow.message, rows, destroyMark) => Kept(flow.message, rows', destroyMark')
    BY <1>1, <1>2, <1>3, <2>1, KeptGrows
  <2> QED
    BY <1>1, <2>2 DEF WholeInv, FlowInv
<1>7. MarkInv'
  <2>1. nextId <= Budget * (seq + 1)
    <3>1. /\ multiplier \in 1 .. seq /\ nextId <= Budget * multiplier + MaxDraws
      BY <1>1 DEF Inv, BudgetInv
    <3>2. multiplier \in Nat /\ multiplier + 1 <= seq + 1
      BY <1>2, <3>1
    <3>3. Budget * (multiplier + 1) <= Budget * (seq + 1)
      BY <1>2, <3>2, BudgetMonotone
    <3>4. Budget * (multiplier + 1) = Budget * multiplier + Budget /\ Budget * multiplier \in Nat
      BY <3>2, BudgetStep
    <3>5. Budget * (seq + 1) \in Nat
      BY <1>2, BudgetNat
    <3> HIDE DEF Inv
    <3> QED
      BY <1>2, <3>1, <3>3, <3>4, <3>5, BudgetNat
  <2>2. \A r \in Stored' : r.id < nextId
    BY <1>1, NextIdFresh DEF Stored
  <2> QED
    BY <1>1, <1>2, <2>1, <2>2 DEF MarkInv
<1>8. CountInv'
  BY <1>1 DEF WholeInv, CountInv, CountsRight
<1> QED
  BY <1>1, <1>5, <1>6, <1>7, <1>8 DEF WholeInv

\* What destroy removes lies below the mark, and may still be referred to.
LEMMA DestroyTableWhole == Inv /\ WholeInv /\ DestroyTable => WholeInv'
<1> SUFFICES ASSUME Inv, WholeInv, DestroyTable PROVE WholeInv'
  OBVIOUS
<1>1. /\ disk' = rows' /\ rows' \subseteq rows /\ destroyStep # 0
      /\ destroyStep' \in destroyStep + 1 .. AfterTables
      /\ UNCHANGED <<seq, up, nextId, worker, flow, counted, broken, destroyMark>>
  <2>1. destroyStep \in 1 .. Len(TableOrder)
    BY DEF DestroyTable
  <2>2. destroyStep # 0
    BY <2>1
  <2> QED
    BY <2>2 DEF DestroyTable, GoToTable, FlushInternal, runVars
<1>2. \A r \in rows : r.id < destroyMark
  BY <1>1 DEF WholeInv, MarkInv, Stored
<1>3. \A i : Kept(i, rows, destroyMark) => Kept(i, rows', destroyMark')
  BY <1>1, <1>2 DEF Kept, Ids
<1>4. Closed(rows', destroyMark') /\ Closed(disk', destroyMark')
  BY <1>1, <1>3 DEF WholeInv, Closed
<1>5. FlowInv'
  BY <1>1, <1>3 DEF WholeInv, FlowInv
<1>6. MarkInv'
  BY <1>1, <1>2 DEF WholeInv, MarkInv, Stored
<1>7. CountInv'
  <2>1. destroyStep' # 0
    BY <1>1, AfterTablesIs DEF Inv, TypeOK
  <2>2. IsFiniteSet(rows')
    BY <1>1, FS_Subset DEF WholeInv, CountInv
  <2> QED
    BY <1>1, <2>1, <2>2 DEF CountInv, CountsRight
<1> QED
  BY <1>1, <1>4, <1>5, <1>6, <1>7 DEF WholeInv

\* When destroy ends there is no row and no packet.
LEMMA DestroyEndWhole ==
  Inv /\ DestroyInv /\ WholeInv /\ DestroyEnd => WholeInv'
<1> SUFFICES ASSUME Inv, DestroyInv, WholeInv, DestroyEnd PROVE WholeInv'
  OBVIOUS
<1>1. /\ up /\ rows' = rows /\ disk' = rows /\ seq' = seq + 1 /\ counted' = 0
      /\ destroyStep' = 0 /\ destroyStep # 0
      /\ UNCHANGED <<up, nextId, worker, flow, broken, destroyMark>>
  BY AfterTablesIs DEF DestroyEnd, FlushInternal, runVars
<1>2. rows' = {} /\ disk' = {}
  BY <1>1, DestroyLeavesNothing DEF Next
<1>3. seq \in Nat /\ destroyMark \in Nat
  BY DEF Inv, TypeOK
<1>4. Closed(rows', destroyMark') /\ Closed(disk', destroyMark')
  BY <1>2 DEF Closed
<1>5. FlowInv'
  BY <1>1 DEF WholeInv, FlowInv, Kept, Ids
<1>6. MarkInv'
  <2>1. Budget * (seq + 1) <= Budget * (seq + 2)
        /\ Budget * (seq + 1) \in Nat /\ Budget * (seq + 2) \in Nat
    BY <1>3, BudgetMonotone, BudgetNat
  <2>2. destroyMark <= Budget * (seq + 1) /\ seq' + 1 = seq + 2
    BY <1>1, <1>3 DEF WholeInv, MarkInv
  <2>3. destroyMark <= Budget * (seq + 2)
    BY <1>3, <2>1, <2>2
  <2> QED
    BY <1>1, <2>2, <2>3 DEF WholeInv, MarkInv
<1>7. CountInv'
  <2>1. Packets(rows') = {}
    BY <1>2 DEF Packets
  <2> QED
    BY <1>1, <1>2, <2>1, FS_EmptySet DEF CountInv, CountsRight
<1> QED
  BY <1>1, <1>4, <1>5, <1>6, <1>7 DEF WholeInv

\* A refused message and a user's DELETE are noted.
LEMMA NoneIsNoted == PutMessageFails \/ Query => spoilt'
  BY DEF PutMessageFails, Query

\* Nothing changes.
LEMMA StutterWhole == WholeInv /\ UNCHANGED vars => WholeInv'
<1> SUFFICES ASSUME WholeInv, UNCHANGED vars PROVE WholeInv'
  OBVIOUS
<1>1. UNCHANGED <<rows, disk, seq, up, nextId, worker, flow, counted, broken,
                  destroyStep, destroyMark>>
  BY DEF vars
<1> QED
  BY <1>1 DEF WholeInv, Closed, Kept, Ids, FlowInv, MarkInv, Stored, CountInv, CountsRight

\* The database begins empty.
LEMMA InitWhole == Init => WholeInv
<1> SUFFICES ASSUME Init PROVE WholeInv
  OBVIOUS
<1>1. FlowInv
  BY TypeIsNone DEF Init, FlowInv
<1>2. MarkInv
  BY BudgetNat DEF Init, MarkInv
<1>3. CountInv
  BY FS_EmptySet DEF Init, CountInv, CountsRight
<1> QED
  BY <1>1, <1>2, <1>3 DEF Init, WholeInv, Closed

\* What has failed stays noted.
LEMMA SpoiltStays == [Next]_vars /\ spoilt => spoilt'
<1> SUFFICES ASSUME [Next]_vars, spoilt PROVE spoilt'
  OBVIOUS
<1>1. CASE Open \/ Close \/ Crash
  BY <1>1 DEF Open, Close, Crash
<1>2. CASE DrawPacketId \/ DrawRequestId \/ PutInvalidEntry \/ EndOfStream
  BY <1>2 DEF DrawPacketId, DrawRequestId, PutInvalidEntry, EndOfStream
<1>3. ASSUME NEW plan, NEW k, Execute(plan, k) PROVE spoilt'
  BY <1>3 DEF Execute
<1>4. CASE PutMessage
  BY <1>3, <1>4 DEF PutMessage
<1>5. CASE PutEntry
  BY <1>3, <1>5 DEF PutEntry
<1>6. CASE PutConnection
  BY <1>3, <1>6 DEF PutConnection
<1>7. CASE PutMessageFails \/ Query
  BY <1>7, NoneIsNoted
<1>8. CASE DestroyBegin \/ DestroyTable \/ DestroyEnd
  BY <1>8 DEF DestroyBegin, DestroyTable, DestroyEnd
<1>9. CASE UNCHANGED vars
  BY <1>9 DEF vars
<1> QED
  BY <1>1, <1>2, <1>4, <1>5, <1>6, <1>7, <1>8, <1>9 DEF Next

\* Every step keeps references and counts, until it spoils them.
SoundInv == ~spoilt => WholeInv

LEMMA NextWhole == Inv /\ DestroyInv /\ SoundInv /\ [Next]_vars => SoundInv'
<1> SUFFICES ASSUME Inv, DestroyInv, SoundInv, [Next]_vars, ~spoilt'
             PROVE  WholeInv'
  BY DEF SoundInv
<1>1. WholeInv
  BY SpoiltStays DEF SoundInv
<1> QED
  BY <1>1, OpenWhole, EndWhole, DrawPacketIdWhole, DrawRequestIdWhole,
     PutMessageWhole, NoneIsNoted, PutEntryWhole, PutInvalidEntryWhole,
     PutConnectionWhole, EndOfStreamWhole, DestroyBeginWhole,
     DestroyTableWhole, DestroyEndWhole, StutterWhole
  DEF Next

\* As long as no statement has failed and no user's SQL removed rows, what a
\* row refers to is stored with it, for the connection and on disk, or lay
\* below the mark of a destroy: over periodic commits, crashes, restarts and
\* the destroys that cut through a stream.
THEOREM ReferencesCorrect == Spec => []ReferencesHold
<1>1. Init => DestroyInv /\ SoundInv
  BY InitWhole DEF Init, DestroyInv, SoundInv
<1>2. SoundInv => ReferencesHold
  BY DEF SoundInv, WholeInv, Closed, Kept, ReferencesHold
<1> QED
  BY <1>1, <1>2, InitInv, NextInv, DestroyInvKept, NextWhole, PTL DEF Spec

\* As long as no statement has failed and no user's SQL removed rows, the
\* counts of count_packets_per_type are those of the packet table whenever no
\* destroy is under way.
THEOREM CountsCorrect == Spec => []CountsMatch
<1>1. Init => DestroyInv /\ SoundInv
  BY InitWhole DEF Init, DestroyInv, SoundInv
<1>2. SoundInv => CountsMatch
  BY DEF SoundInv, WholeInv, CountInv, CountsRight, CountsMatch
<1> QED
  BY <1>1, <1>2, InitInv, NextInv, DestroyInvKept, NextWhole, PTL DEF Spec

=============================================================================
