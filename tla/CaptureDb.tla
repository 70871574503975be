----------------------------- MODULE CaptureDb -----------------------------
(***************************************************************************)
(* The capture database of db.cpp and db.hpp: ids, rows, the one long      *)
(* transaction, prepared statements, the packet count, destroy, restart    *)
(* and crash.  SQLite is external and modelled by what the code relies on: *)
(* rows of the connection, of which those committed survive a crash of the *)
(* process, and an AUTOINCREMENT sequence that DELETE does not reset.      *)
(*                                                                         *)
(* Every access to the connection is under db_mutex, so a put is one step  *)
(* after the packet id is drawn outside of it; destroy_capture_data holds  *)
(* the mutex over several commits and is one step per table.  A row is its *)
(* table, its id and the ids it refers to; the five block tables are one.  *)
(* A put is a list of rows in the order in which they are executed, so     *)
(* that an exception can end it between two of them.                       *)
(***************************************************************************)
EXTENDS Integers, Sequences, FiniteSets

CONSTANTS
  Kinds,     \* the kinds of messages that arrive
  Budget,    \* ids per run: one billion
  Period,    \* the commit period in ids: 10000
  MaxDraws,  \* bound: ids drawn in a run, within the budget
  MaxSeq     \* bound: runs inserted by restarts and destroys

\* The tables a put writes to; one prepared statement each.
Children ==
  [telemetry_req      |-> <<>>,
   bulk_push          |-> <<>>,
   telemetry_ack      |-> <<"telemetry">>,
   keepalive          |-> <<"keepalive_host", "keepalive_host">>,
   handshake_query    |-> <<"nodeid_query">>,
   handshake_response |-> <<"nodeid_response">>,
   handshake_both     |-> <<"nodeid_query", "nodeid_response">>,
   frontier_req       |-> <<"frontier_request">>,
   bulk_pull          |-> <<"bulk_pull_request">>,
   bulk_pull_account  |-> <<"bulk_pull_account_request">>]

\* Messages whose content is written before the packet that refers to it.
ContentFirst == {"publish", "confirm_req", "vote_block", "vote_hash"}

\* Requests: what follows on the connection is answered in entries.
Requests == {"frontier_req", "bulk_pull", "bulk_push", "bulk_pull_account"}

ASSUME CaptureDbAssumption ==
  /\ Kinds \subseteq DOMAIN Children \cup ContentFirst
  /\ Budget \in Nat \ {0} /\ Period \in Nat \ {0}
  /\ MaxDraws \in 0 .. Budget
  /\ MaxSeq \in Nat

\* In the order of sqlite_master.
TableOrder ==
  <<"runs", "packet", "connection", "keepalive_host", "vote", "block",
    "nodeid_query", "nodeid_response", "telemetry", "frontier_request",
    "frontier_response", "bulk_pull_request", "bulk_pull_response",
    "bulk_pull_account_request", "bulk_pull_account_response",
    "bulk_pull_account_response_entry", "bulk_push_entry">>

\* Those with rows of captured data: all but the first.
Tables == {TableOrder[i] : i \in 2 .. Len(TableOrder)}

VARIABLES
  up,          \* is the process running?
  rows,        \* the rows the connection sees
  disk,        \* the rows committed
  seq,         \* sqlite_sequence of runs
  multiplier,  \* the run's id multiplier
  nextId,      \* next_id
  worker,      \* the put under way on the processing thread
  flow,        \* type, packet_id and message_id of the connection's flow
  counted,     \* the sum of count_per_type
  broken,      \* the tables whose statement was left without a reset
  destroyStep, \* destroy_capture_data: 0, or the table it looks at next
  destroyMark, \* history: next_id when the last destroy began
  spoilt       \* history: a statement failed, or a user's SQL removed rows

vars == <<up, rows, disk, seq, multiplier, nextId, worker, flow, counted,
          broken, destroyStep, destroyMark, spoilt>>

storeVars == <<rows, disk, seq>>
runVars == <<up, multiplier>>
destroyVars == <<destroyStep, destroyMark>>

Row(table, id, refs) == [table |-> table, id |-> id, refs |-> refs]

Ids(S) == {r.id : r \in S}

Packets(S) == {r \in S : r.table = "packet"}

Idle == [kind |-> "idle", ids |-> <<>>]

NoFlow == [type |-> "other", packet |-> 0, message |-> 0]

Init ==
  /\ up = FALSE
  /\ rows = {} /\ disk = {}
  /\ seq = 0 /\ multiplier = 0 /\ nextId = 0
  /\ worker = Idle /\ flow = NoFlow
  /\ counted = 0 /\ broken = {}
  /\ destroyStep = 0 /\ destroyMark = 0
  /\ spoilt = FALSE

-----------------------------------------------------------------------------
(* Start and end of the process. *)

\* Mutant: the multiplier is read without inserting a run.
OpenWithoutRun ==
  /\ ~up
  /\ seq < MaxSeq
  /\ up' = TRUE
  /\ seq' = IF seq = 0 THEN 1 ELSE seq
  /\ multiplier' = seq'
  /\ nextId' = Budget * seq'
  /\ counted' = Cardinality(Packets(disk))
  /\ UNCHANGED <<rows, disk, worker, flow, broken, destroyVars, spoilt>>

\* The constructor: a run is inserted, and committed at once; ids start at
\* its multiple of the budget; the counts are read from the packet table.
Open ==
  /\ ~up
  /\ seq < MaxSeq
  /\ up' = TRUE
  /\ seq' = seq + 1
  /\ multiplier' = seq + 1
  /\ nextId' = Budget * (seq + 1)
  /\ counted' = Cardinality(Packets(disk))
  /\ UNCHANGED <<rows, disk, worker, flow, broken, destroyVars, spoilt>>

\* Mutant: a new transaction is begun and the old one forgotten.
FlushInternalForgets == UNCHANGED disk

\* flush_internal: the transaction is committed and the next one begun.
FlushInternal == disk' = rows'

\* What is in memory is gone.
ProcessEnds ==
  /\ up' = FALSE
  /\ multiplier' = 0 /\ nextId' = 0
  /\ worker' = Idle /\ flow' = NoFlow
  /\ counted' = 0 /\ broken' = {}
  /\ destroyStep' = 0

\* The destructor, when the threads have been joined, commits.
Close ==
  /\ up /\ worker = Idle /\ destroyStep = 0
  /\ ProcessEnds
  /\ disk' = rows
  /\ UNCHANGED <<rows, seq, destroyMark, spoilt>>

\* The process dies at any moment; what was not committed is lost.
Crash ==
  /\ up
  /\ ProcessEnds
  /\ rows' = disk
  /\ UNCHANGED <<disk, seq, destroyMark, spoilt>>

-----------------------------------------------------------------------------
(* Ids. *)

\* Bound: n more ids fit in the run.
Room(n) == nextId + n <= Budget * multiplier + MaxDraws

\* A message: handle_message resets the flow to the message's type, then put
\* draws the packet's id before it takes the mutex and a request's is kept in
\* the flow.  The types that no stream follows are one here, "other": with
\* them the flow's ids are not used.
DrawPacketId ==
  /\ up /\ worker = Idle /\ Room(1)
  /\ \E k \in Kinds :
       /\ worker' = [kind |-> k, ids |-> <<nextId>>]
       /\ flow' = IF k \in Requests
                    THEN [type |-> k, packet |-> nextId, message |-> 0]
                    ELSE NoFlow
  /\ nextId' = nextId + 1
  /\ UNCHANGED <<storeVars, runVars, counted, broken, destroyVars, spoilt>>

\* Mutant: the request's id is not kept for the entries.
DrawRequestIdUnkept ==
  /\ up /\ Room(1)
  /\ worker.kind = "bulk_pull_account" /\ Len(worker.ids) = 1
  /\ worker' = [worker EXCEPT !.ids = Append(@, nextId)]
  /\ nextId' = nextId + 1
  /\ UNCHANGED <<storeVars, runVars, flow, counted, broken, destroyVars,
                 spoilt>>

\* put(msg_bulk_pull_account_t) draws the request's id as well.
DrawRequestId ==
  /\ up /\ Room(1)
  /\ worker.kind = "bulk_pull_account" /\ Len(worker.ids) = 1
  /\ worker' = [worker EXCEPT !.ids = Append(@, nextId)]
  /\ flow' = [flow EXCEPT !.message = nextId]
  /\ nextId' = nextId + 1
  /\ UNCHANGED <<storeVars, runVars, counted, broken, destroyVars, spoilt>>

-----------------------------------------------------------------------------
(* Puts: the rows, in the order of execution. *)

\* put_block stores the block, or, with block_details off or a type it does
\* not know, leaves content_table empty and the id unused.
Block(n, p, stored) ==
  IF stored THEN Row("block", n, {p}) ELSE Row("none", n, {})

BlockRef(n, stored) == IF stored THEN {n} ELSE {}

\* The content, then what refers to it, the packet last.
ContentRows(kind, p, n, stored) ==
  IF kind = "vote_hash"
    THEN <<Row("vote", n, {p}), Row("packet", p, {n})>>
  ELSE IF kind = "vote_block"
    THEN <<Block(n, p, stored), Row("vote", n + 1, {p} \cup BlockRef(n, stored)),
           Row("packet", p, {n + 1})>>
  ELSE <<Block(n, p, stored), Row("packet", p, BlockRef(n, stored))>>

\* The rows of a message whose drawn ids are ids, the next free one being n.
MessageRows(kind, ids, n, stored) ==
  IF kind \in ContentFirst
    THEN ContentRows(kind, ids[1], n, stored)
    ELSE <<Row("packet", ids[1], {})>> \o
         [i \in 1 .. Len(Children[kind]) |->
            Row(Children[kind][i],
                IF Len(ids) = 2 THEN ids[2] ELSE n + i - 1, {ids[1]})]

\* A block of a bulk stream and the row that ties it to the request ref.
BlockEntry(table, ref, n) ==
  <<Block(n, flow.packet, TRUE), Row(table, n + 1, {ref, n})>>

\* What an entry of the stream that answers the flow's request may write.
EntryPlans(n) ==
  [frontier_req      |-> {<<Row("frontier_response", n, {flow.message})>>},
   bulk_pull         |-> {BlockEntry("bulk_pull_response", flow.message, n)},
   bulk_push         |-> {BlockEntry("bulk_push_entry", flow.packet, n)},
   bulk_pull_account |-> {<<Row(table, n, {flow.message})>> :
                            table \in {"bulk_pull_account_response",
                                       "bulk_pull_account_response_entry"}}
  ][flow.type]

\* The rows of a plan's first k steps.
Written(plan, k) == {plan[i] : i \in {j \in 1 .. k : plan[j].table # "none"}}

\* The first k rows are written; row k + 1, if any, throws once its id is
\* drawn: its statement fails, or was left without a reset and refuses to be
\* bound.  It is then left without one itself, and so is the packet's, which
\* is reset only when the whole message is stored.
Execute(plan, k) ==
  LET tried == 1 .. (IF k < Len(plan) THEN k + 1 ELSE k) IN
  /\ Room(Len(plan))
  /\ \A i \in 1 .. k : plan[i].table \notin broken
  /\ k < Len(plan) => plan[k + 1].table # "none"
  /\ spoilt' = (spoilt \/ k < Len(plan))
  /\ rows' = rows \cup Written(plan, k)
  /\ broken' = IF k = Len(plan)
                 THEN broken
                 ELSE broken \cup {plan[k + 1].table} \cup
                      ({"packet"} \cap {plan[i].table : i \in 1 .. k})
  /\ nextId' \in nextId .. nextId + Len(plan)
  /\ \A i \in tried : plan[i].id < nextId'
  /\ nextId' = nextId \/ \E i \in tried : plan[i].id + 1 = nextId'

\* Mutant: the commit comes after the content is written.
PeriodicCheckLate(plan) ==
  disk' = IF nextId % Period = 0 THEN rows \cup Written(plan, 1) ELSE disk

\* bind_header_fields, before anything of the message is written: whenever
\* next_id is a multiple of the period, commit.  What the check of the file's
\* size leads to is in CaptureControl.
PeriodicCheck(plan) ==
  disk' = IF nextId % Period = 0 THEN rows ELSE disk

\* The put of a message, under db_mutex.
PutMessage ==
  /\ up /\ destroyStep = 0
  /\ worker # Idle
  /\ worker.kind = "bulk_pull_account" => Len(worker.ids) = 2
  /\ "packet" \notin broken
  /\ \E stored \in BOOLEAN :
     LET plan == MessageRows(worker.kind, worker.ids, nextId, stored) IN
       /\ PeriodicCheck(plan)
       /\ \E k \in 0 .. Len(plan) :
            /\ Execute(plan, k)
            /\ flow' = IF worker.kind \in {"frontier_req", "bulk_pull"} /\ k > 0
                         THEN [flow EXCEPT !.message = plan[2].id]
                         ELSE flow
  /\ counted' = counted + 1
  /\ worker' = Idle
  /\ UNCHANGED <<seq, runVars, destroyVars>>

\* stmt_packet was left without a reset: binding the header throws.
PutMessageFails ==
  /\ up /\ destroyStep = 0
  /\ worker # Idle
  /\ worker.kind = "bulk_pull_account" => Len(worker.ids) = 2
  /\ "packet" \in broken
  /\ PeriodicCheck(<<>>)
  /\ worker' = Idle
  /\ spoilt' = TRUE
  /\ UNCHANGED <<rows, seq, runVars, nextId, flow, counted, broken,
                 destroyVars>>

\* The put of a stream entry, whole under db_mutex.
PutEntry ==
  /\ up /\ destroyStep = 0
  /\ worker = Idle /\ flow.type \in Requests
  /\ \E plan \in EntryPlans(nextId) : \E k \in 0 .. Len(plan) : Execute(plan, k)
  /\ UNCHANGED <<disk, seq, runVars, worker, flow, counted, destroyVars>>

\* An entry whose block put_block does not store takes an id and writes
\* nothing; the first of a flow is followed by put_connection.
PutInvalidEntry ==
  /\ up /\ destroyStep = 0
  /\ worker = Idle /\ flow.type \in {"bulk_pull", "bulk_push"}
  /\ Room(1)
  /\ nextId' = nextId + 1
  /\ UNCHANGED <<storeVars, runVars, worker, flow, counted, broken,
                 destroyVars, spoilt>>

\* Mutant: put_connection without its lock_guard.
PutConnectionUnlocked ==
  /\ up
  /\ LET plan == <<Row("connection", nextId, {})>> IN
       \E k \in 0 .. 1 : Execute(plan, k)
  /\ UNCHANGED <<disk, seq, runVars, worker, flow, counted, destroyVars>>

\* put_connection, on the capture thread or on the processing thread.
PutConnection ==
  /\ up /\ destroyStep = 0
  /\ LET plan == <<Row("connection", nextId, {})>> IN
       \E k \in 0 .. 1 : Execute(plan, k)
  /\ UNCHANGED <<disk, seq, runVars, worker, flow, counted, destroyVars>>

\* Mutant: the reset changes the type and forgets the ids.
EndOfStreamKeepsIds ==
  /\ up /\ worker = Idle /\ flow.type \in Requests
  /\ flow' = [flow EXCEPT !.type = "other"]
  /\ UNCHANGED <<storeVars, runVars, nextId, worker, counted, broken,
                 destroyVars, spoilt>>

\* The end of a stream resets the flow.
EndOfStream ==
  /\ up /\ worker = Idle /\ flow.type \in Requests
  /\ flow' = NoFlow
  /\ UNCHANGED <<storeVars, runVars, nextId, worker, counted, broken,
                 destroyVars, spoilt>>

-----------------------------------------------------------------------------
(* db::query executes whatever SQL the console's user sends, under the mutex
   and in the open transaction.  Of the statements that write, the model has
   the DELETE of a table's rows. *)
Query ==
  /\ up /\ destroyStep = 0
  /\ \E table \in Tables :
       /\ \E r \in rows : r.table = table
       /\ rows' = {r \in rows : r.table # table}
  /\ spoilt' = TRUE
  /\ UNCHANGED <<disk, seq, runVars, nextId, worker, flow, counted, broken,
                 destroyVars>>

-----------------------------------------------------------------------------
(* destroy_capture_data, the mutex held from the first step to the last.  The
   table of runs comes first; it is empty in the model, and its flush commits
   what is pending.  An empty table is passed over: its DELETE and flush
   change nothing. *)

AfterTables == Len(TableOrder) + 1

\* The loop goes on to the first table from the i-th on that has rows.
GoToTable(i) ==
  LET empty(j) == \A r \in rows : r.table # TableOrder[j] IN
  /\ destroyStep' \in i .. AfterTables
  /\ destroyStep' # AfterTables => ~empty(destroyStep')
  /\ \A j \in i .. Len(TableOrder) : j < destroyStep' => empty(j)

DestroyBegin ==
  /\ up /\ destroyStep = 0
  /\ GoToTable(2)
  /\ destroyMark' = nextId
  /\ UNCHANGED rows
  /\ FlushInternal
  /\ UNCHANGED <<seq, runVars, nextId, worker, flow, counted, broken, spoilt>>

\* DELETE FROM one table and flush_internal.
DestroyTable ==
  /\ up /\ destroyStep \in 1 .. Len(TableOrder)
  /\ rows' = {r \in rows : r.table # TableOrder[destroyStep]}
  /\ FlushInternal
  /\ GoToTable(destroyStep + 1)
  /\ UNCHANGED <<seq, runVars, nextId, worker, flow, counted, broken,
                 destroyMark, spoilt>>

\* Mutant: the counts survive.
DestroyEndCounts ==
  /\ up /\ destroyStep = AfterTables
  /\ seq < MaxSeq
  /\ seq' = seq + 1
  /\ UNCHANGED rows
  /\ FlushInternal
  /\ destroyStep' = 0
  /\ UNCHANGED <<runVars, nextId, worker, flow, counted, broken,
                 destroyMark, spoilt>>

\* Mutant: sqlite_sequence is emptied with the other tables.
DestroyEndSequence ==
  /\ up /\ destroyStep = AfterTables
  /\ seq' = 1
  /\ UNCHANGED rows
  /\ FlushInternal
  /\ counted' = 0
  /\ destroyStep' = 0
  /\ UNCHANGED <<runVars, nextId, worker, flow, broken, destroyMark, spoilt>>

\* sqlite_sequence has been skipped; a run is inserted and committed; next_id
\* goes on from where it is; the counts are zeroed.
DestroyEnd ==
  /\ up /\ destroyStep = AfterTables
  /\ seq < MaxSeq
  /\ seq' = seq + 1
  /\ UNCHANGED rows
  /\ FlushInternal
  /\ counted' = 0
  /\ destroyStep' = 0
  /\ UNCHANGED <<runVars, nextId, worker, flow, broken, destroyMark, spoilt>>

-----------------------------------------------------------------------------
Next ==
  \/ Open \/ Close \/ Crash
  \/ DrawPacketId \/ DrawRequestId
  \/ PutMessage \/ PutMessageFails
  \/ PutEntry \/ PutInvalidEntry \/ PutConnection \/ EndOfStream
  \/ Query
  \/ DestroyBegin \/ DestroyTable \/ DestroyEnd

Spec == Init /\ [][Next]_vars

-----------------------------------------------------------------------------
(* Properties. *)

RowType == [table : Tables, id : Nat, refs : SUBSET Nat]

\* The values the variables can take; a flow without a stream keeps no ids of
\* the stream before it (tcp_flow_data::reset), and a request whose put is
\* under way has the flow.
TypeOK ==
  /\ up \in BOOLEAN
  /\ rows \subseteq RowType /\ disk \subseteq RowType
  /\ seq \in Nat /\ multiplier \in Nat /\ nextId \in Nat
  /\ worker \in [kind : Kinds \cup {"idle"}, ids : Seq(Nat)]
  /\ flow \in [type : Requests \cup {"other"}, packet : Nat, message : Nat]
  /\ flow.type = "other" => flow = NoFlow
  /\ worker.kind \in Requests => flow.type = worker.kind
  /\ counted \in Nat
  /\ broken \subseteq Tables
  /\ destroyStep \in 0 .. AfterTables
  /\ destroyMark \in Nat
  /\ spoilt \in BOOLEAN

\* The ids of db.cpp's dispenser, drawn in and out of the mutex by two
\* threads, are fresh over restarts, crashes and destroys: no two rows have
\* the same id, so no INSERT meets a primary key that exists, and the next id
\* and those drawn for a put under way are in no row.
IdsAreFresh ==
  /\ \A r, s \in rows \cup disk : r.id = s.id => r = s
  /\ up => /\ \A r \in rows \cup disk : r.id < nextId
           /\ \A i \in DOMAIN worker.ids : worker.ids[i] \notin Ids(rows \cup disk)

\* As long as no statement has failed and no user's SQL removed rows, what a
\* row refers to (its packet, its content, its request) is stored as well, for
\* the connection and on disk: commits fall between messages, so a crash keeps
\* or loses a message whole.  Ids from before the last destroy are exempt: an
\* entry stored after it refers to a request that it removed.
ReferencesHold ==
  ~spoilt => \A S \in {rows, disk} : \A r \in S : \A i \in r.refs :
    i \in Ids(S) \/ i < destroyMark

\* As long as no statement has failed and no user's SQL removed rows, the
\* packet counts that count_packets_per_type reports are the counts of the
\* packet table, over destroys, crashes and restarts.
CountsMatch ==
  ~spoilt /\ up /\ destroyStep = 0 => counted = Cardinality(Packets(rows))

\* When destroy_capture_data returns, the capture tables are empty, and on
\* disk as well: a crash brings nothing back, and no put on another thread
\* slipped a row in behind it.
DestroyIsDurable ==
  [][destroyStep # 0 /\ destroyStep' = 0 /\ up' => rows' = {} /\ disk' = {}]_vars

=============================================================================
