--------------------------- MODULE StatementReuse ---------------------------
(***************************************************************************)
(* The prepared statements of nanocap::db (src/src/db.cpp) are made once   *)
(* and used for every message.  A statement keeps the values bound to its  *)
(* columns when it is reset; only `stmt_packet` is cleared before a use    *)
(* (db.hpp, bind_header_fields).  `stmt_vote` and                          *)
(* `stmt_bulk_pull_account_response_entry` bind a different set of columns *)
(* for every kind of vote and of entry, so a column that a message does    *)
(* not bind is stored with the value some earlier message left there.      *)
(*                                                                         *)
(* The value of a column is abstracted to the number of the message it was *)
(* bound for, 0 being NULL: that is what tells a row's own data from data  *)
(* of another message.  The statements that bind all their columns on      *)
(* every use are two: "block" is the one of a block's type, "child" that   *)
(* of a host, a request, a telemetry record, a handshake.  Each put runs   *)
(* under db_mutex, so it is one action; an INSERT that throws part-way is  *)
(* part of the action.  Transactions and ids are in CaptureDb.             *)
(***************************************************************************)
EXTENDS Naturals, Sequences

CONSTANTS
    Kinds,      \* the kinds of messages put, a subset of AllKinds
    MayFail,    \* TRUE: an INSERT may throw (disk full, I/O error)
    MaxPuts     \* bound: messages put

\* Messages with no content of their own, blocks that are published, the three
\* forms of a vote, and the entries of a bulk_pull_account response by the
\* flags of the request.
VoteKinds  == {"regular", "hashes", "malformed"}
EntryKinds == {"hash_amount", "address_only", "hash_amount_address"}
AllKinds   == {"plain", "publish"} \cup VoteKinds \cup EntryKinds

ASSUME StatementReuseAssumption ==
    /\ Kinds \subseteq AllKinds /\ Kinds # {}
    /\ MayFail \in BOOLEAN
    /\ MaxPuts \in Nat

VARIABLES
    bound,  \* [Statements -> [Columns of it -> message number, 0 is NULL]]
    ready,  \* [Statements -> BOOLEAN]: FALSE once an exec was not followed by reset
    rows,   \* the rows stored: [table, put, values]
    log     \* the kinds of the messages put, in order

vars == <<bound, ready, rows, log>>

\* The statements and their columns, those always bound together as one.
\* "key" is the id and the reference to the packet or the request.
Columns ==
    [packet |-> {"header", "content"},
     block  |-> {"key", "fields"},
     child  |-> {"key", "fields"},
     vote   |-> {"key", "kind", "content", "hashes", "common"},
     entry  |-> {"key", "hash_amount", "source"}]

Statements == DOMAIN Columns

Init ==
    /\ bound = [s \in Statements |-> [c \in Columns[s] |-> 0]]
    /\ ready = [s \in Statements |-> TRUE]
    /\ rows = {}
    /\ log = <<>>

-----------------------------------------------------------------------------
(***************************************************************************)
(* Operations on a statement.  A put is a sequence of them on the record   *)
(* [bound, ready, rows, ok]; after one that throws, ok is FALSE and the    *)
(* rest of the put does not run.                                           *)
(***************************************************************************)

\* stmt->bind of the columns in cols for message p.  SQLite refuses to bind a
\* statement that was executed and not reset, and the wrapper throws.
Bind(d, s, cols, p) ==
    IF d.ok /\ d.ready[s]
    THEN [d EXCEPT !.bound[s] = [c \in Columns[s] |->
                                    IF c \in cols THEN p ELSE @[c]]]
    ELSE [d EXCEPT !.ok = FALSE]

\* stmt->clearBindings
Clear(d, s) == [d EXCEPT !.bound[s] = [c \in Columns[s] |-> 0]]

\* stmt->exec.  The statement is to be reset before its next use, also when
\* the INSERT throws.
Exec(d, s, p, fails) ==
    IF ~d.ok THEN d
    ELSE [d EXCEPT !.ok = ~fails, !.ready[s] = FALSE, !.rows = @ \cup
             IF fails THEN {}
             ELSE {[table |-> s, put |-> p, values |-> d.bound[s]]}]

\* stmt->reset, which keeps the bindings.  It is skipped when something before
\* it in the put threw.
Reset(d, s) == IF d.ok THEN [d EXCEPT !.ready[s] = TRUE] ELSE d

Insert(d, s, p, fails) == Reset(Exec(d, s, p, fails), s)

\* Mutant: the bindings of the packet statement are not cleared.
BindHeaderKeep(d, p) == Bind(d, "packet", {"header"}, p)

\* bind_header_fields and bind_packet_fields: the bindings are cleared, the
\* header bound and the content set to NULL.
BindHeader(d, p) == Bind(Clear(d, "packet"), "packet", {"header"}, p)

\* put_block.  A block of an unknown type, or with block_details off, is not
\* stored (stored = FALSE).
PutBlock(d, p, stored, at) ==
    IF stored
    THEN Insert(Bind(d, "block", {"key", "fields"}, p), "block", p, at = "block")
    ELSE d

\* A message whose packet has no content: keepalive, telemetry, the requests,
\* the handshake, bulk_push.  Most store rows of their own between the exec of
\* the packet and its reset (child = TRUE).
PutPlain(d, p, child, at) ==
    LET e == Exec(BindHeader(d, p), "packet", p, at = "packet")
        c == IF child
             THEN Insert(Bind(e, "child", {"key", "fields"}, p), "child", p, at = "child")
             ELSE e
    IN  Reset(c, "packet")

\* publish and confirm_req
PutPublish(d, p, stored, at) ==
    LET b == PutBlock(BindHeader(d, p), p, stored, at)
    IN  Insert(Bind(b, "packet", {"content"}, p), "packet", p, at = "packet")

\* Mutant: a vote by hash forgets to say that it is one.
VoteColumnsUnmarked(kind) ==
    {"key", "common"}
        \cup (IF kind # "hashes" THEN {"kind"} ELSE {"hashes"})
        \cup (IF kind = "regular" THEN {"content"} ELSE {})

\* The columns of stmt_vote that a vote of this kind binds.  The parser always
\* sets common().
VoteColumns(kind) ==
    {"key", "kind", "common"}
        \cup (IF kind = "regular" THEN {"content"} ELSE {})
        \cup (IF kind = "hashes"  THEN {"hashes"}  ELSE {})

\* Mutant: the packet is stored before the vote is.
PutVotePacketFirst(d, p, kind, stored, at) ==
    LET h == Bind(BindHeader(d, p), "packet", {"content"}, p)
        k == Insert(h, "packet", p, at = "packet")
        b == IF kind = "regular" THEN PutBlock(k, p, stored, at) ELSE k
    IN  Insert(Bind(b, "vote", VoteColumns(kind), p), "vote", p, at = "vote")

\* confirm_ack: the block of a regular vote, the vote, then the packet.
PutVote(d, p, kind, stored, at) ==
    LET h == BindHeader(d, p)
        b == IF kind = "regular" THEN PutBlock(h, p, stored, at) ELSE h
        v == Insert(Bind(b, "vote", VoteColumns(kind), p), "vote", p, at = "vote")
    IN  Insert(Bind(v, "packet", {"content"}, p), "packet", p, at = "packet")

\* The columns of stmt_bulk_pull_account_response_entry bound under the flags
\* of the request.
EntryColumns(flags) ==
    {"key"} \cup (IF flags # "address_only" THEN {"hash_amount"} ELSE {})
            \cup (IF flags # "hash_amount"  THEN {"source"} ELSE {})

\* put(bulk_pull_account_entry_t)
PutEntry(d, p, flags, at) ==
    Insert(Bind(d, "entry", EntryColumns(flags), p), "entry", p, at = "entry")

-----------------------------------------------------------------------------
(***************************************************************************)
(* Actions.  `at` is the INSERT that throws, "none" when all succeed.      *)
(***************************************************************************)
Failures == IF MayFail THEN {"none"} \cup Statements ELSE {"none"}

Here == [bound |-> bound, ready |-> ready, rows |-> rows, ok |-> TRUE]

\* The put of the next message, of this kind, has the outcome d.
Put(kind, d) ==
    /\ kind \in Kinds
    /\ Len(log) < MaxPuts
    /\ log' = Append(log, kind)
    /\ bound' = d.bound
    /\ ready' = d.ready
    /\ rows' = d.rows

\* The number of the message that is put.
NextPut == Len(log) + 1

Plain ==
    \E at \in Failures, child \in BOOLEAN :
        Put("plain", PutPlain(Here, NextPut, child, at))

Publish ==
    \E at \in Failures, stored \in BOOLEAN :
        Put("publish", PutPublish(Here, NextPut, stored, at))

ConfirmAck ==
    \E kind \in VoteKinds, at \in Failures, stored \in BOOLEAN :
        Put(kind, PutVote(Here, NextPut, kind, stored, at))

AccountEntry ==
    \E flags \in EntryKinds, at \in Failures :
        Put(flags, PutEntry(Here, NextPut, flags, at))

\* destroy_capture_data deletes the rows; the statements keep their bindings.
Destroy ==
    /\ rows # {}
    /\ rows' = {}
    /\ UNCHANGED <<bound, ready, log>>

Next == Plain \/ Publish \/ ConfirmAck \/ AccountEntry \/ Destroy

Spec == Init /\ [][Next]_vars

-----------------------------------------------------------------------------
(***************************************************************************)
(* Properties                                                              *)
(***************************************************************************)

\* Types: columns hold NULL or the number of a message that was put.
TypeOK ==
    /\ log \in Seq(Kinds) /\ Len(log) <= MaxPuts
    /\ \A s \in Statements :
          /\ bound[s] \in [Columns[s] -> 0..Len(log)]
          /\ ready[s] \in BOOLEAN
    /\ \A r \in rows :
          /\ r.table \in Statements /\ r.put \in 1..Len(log)
          /\ r.values \in [Columns[r.table] -> 0..Len(log)]

\* How a reader takes a row apart.  The column vbh says which columns of a vote
\* mean something; the flags of the request say it of an entry.
ReadOfVote  == [regular |-> {"content"}, hashes |-> {"hashes"}, malformed |-> {}]
ReadOfEntry == [hash_amount         |-> {"hash_amount"},
                address_only        |-> {"source"},
                hash_amount_address |-> {"hash_amount", "source"}]

\* Whatever was put before, and whichever INSERT failed in between, a row read
\* by its own discriminator shows only data of the message that stored it: a
\* vote's vbh column is its own and so are the columns vbh makes meaningful, and
\* so are the columns the request's flags make meaningful in an entry
\* (db.cpp, put(confirm_ack), put(bulk_pull_account_entry)).
MeaningfulColumnsOwn ==
    \A r \in rows :
        /\ r.table = "vote" =>
              \A c \in {"key", "kind", "common"} \cup ReadOfVote[log[r.put]] :
                  r.values[c] = r.put
        /\ r.table = "entry" =>
              \A c \in {"key"} \cup ReadOfEntry[log[r.put]] :
                  r.values[c] = r.put

\* A packet's content is NULL or its own message's, never what an earlier one
\* left in the reused statement, and a packet of a vote is stored only when its
\* vote is (bind_header_fields; the order of the INSERTs of put(confirm_ack)).
PacketsOwnTheirContent ==
    \A r \in rows : r.table = "packet" =>
        /\ r.values["content"] \in {0, r.put}
        /\ r.values["content"] # 0 <=> log[r.put] # "plain"
        /\ log[r.put] \in VoteKinds =>
              \E v \in rows : v.table = "vote" /\ v.values["key"] = r.put
=============================================================================
