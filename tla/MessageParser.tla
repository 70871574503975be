--------------------------- MODULE MessageParser ---------------------------
(***************************************************************************)
(* Reading one payload that is not part of a bootstrap stream: the last    *)
(* branch of packet_handler::handle_tcp (src/src/packet_handler.cpp) with  *)
(* the generated parser (nano.cpp) over a kaitai::kstream.                 *)
(*                                                                         *)
(* A payload is what the parser can tell apart: the fields of its header   *)
(* and its size in bytes.  The parser is a recursive descent over          *)
(* structures of fixed size, lists that end at a count or at the end of    *)
(* the payload, and blocks chosen by a type; `todo` is what is left to     *)
(* descend into.  The fields of a structure are read as one: whichever of  *)
(* them passes the end of the payload, the same exception leaves the       *)
(* parser.                                                                 *)
(***************************************************************************)
EXTENDS Naturals, Sequences

CONSTANTS
    MessageTypes,  \* message types in headers, AllTypes and others
    BlockTypes,    \* block types in headers and in bulk_push entries
    ItemCounts,    \* item counts in headers (four bits)
    MaxSize        \* bound: bytes of a payload

AllTypes ==
    {"keepalive", "publish", "confirm_req", "confirm_ack", "bulk_pull",
     "bulk_push", "frontier_req", "bulk_pull_blocks", "node_id_handshake",
     "bulk_pull_account", "telemetry_req", "telemetry_ack"}

NotABlock == "not_a_block"

ASSUME MessageParserAssumption ==
    /\ ItemCounts \subseteq 0..15
    /\ MaxSize \in Nat

VARIABLES
    payload,  \* the payload: its header's fields and its size
    pos,      \* bytes read
    todo,     \* what is left to read, in order
    items,    \* items read of the list in the message, if it has one
    outcome   \* "reading", or how handle_tcp is left

vars == <<payload, pos, todo, items, outcome>>

-----------------------------------------------------------------------------
(***************************************************************************)
(* The layouts of the protocol, in bytes                                   *)
(***************************************************************************)
HeaderSize == 1 + 1 + 1 + 1 + 1 + 1 + 2

\* The fixed part of each message's body.
BodySize ==
    [bulk_pull          |-> 32 + 32,
     extended_parameters |-> 1 + 4 + 3,
     bulk_pull_blocks   |-> 1,
     bulk_pull_account  |-> 32 + 16 + 1,
     frontier_req       |-> 32 + 4 + 4,
     vote_common        |-> 32 + 64 + 8,
     node_id_query      |-> 32,
     node_id_response   |-> 32 + 64,
     telemetry_ack      |-> 64 + 32 + 6 * 8 + 4 + 1 + 32 + 5 * 1 + 8 + 8]

\* The items of lists.
PeerSize == 16 + 2
HashPairSize == 32 + 32
HashSize == 32
MaxPeers == 8

\* The five kinds of blocks.
BlockSize ==
    [send    |-> 32 + 32 + 16 + 64 + 8,
     receive |-> 32 + 32 + 64 + 8,
     open    |-> 32 + 32 + 32 + 64 + 8,
     change  |-> 32 + 32 + 64 + 8,
     state   |-> 32 + 32 + 32 + 16 + 32 + 64 + 8]

\* What the parser descends into.
Struct(n)       == [op |-> "struct", size |-> n, limit |-> 0]
List(n, limit)  == [op |-> "list",   size |-> n, limit |-> limit]
More(n, limit)  == [op |-> "more",   size |-> n, limit |-> limit]
UntilEof        == [op |-> "rest",   size |-> 0, limit |-> 0]
PushEntry       == [op |-> "entry",  size |-> 1, limit |-> 0]
EntryTest       == [op |-> "test",   size |-> 0, limit |-> 0]

\* block_selector_t: a block of an unknown type is all that is left.
BlockSelector(type) ==
    IF type \in DOMAIN BlockSize THEN Struct(BlockSize[type]) ELSE UntilEof

\* The body of a message, by its header.
Body(h) ==
    CASE h.type = "keepalive"   -> <<List(PeerSize, MaxPeers)>>
      [] h.type = "publish"     -> <<BlockSelector(h.block)>>
      [] h.type = "confirm_req" ->
            IF h.block = NotABlock THEN <<List(HashPairSize, h.items)>>
                                   ELSE <<BlockSelector(h.block)>>
      [] h.type = "confirm_ack" ->
            <<Struct(BodySize.vote_common),
              IF h.block = NotABlock THEN List(HashSize, h.items)
                                     ELSE BlockSelector(h.block)>>
      [] h.type = "bulk_pull"   ->
            <<Struct(BodySize.bulk_pull)>> \o
            (IF h.bit0 THEN <<Struct(BodySize.extended_parameters)>> ELSE <<>>)
      [] h.type = "bulk_push"   -> <<PushEntry>>
      [] h.type = "node_id_handshake" ->
            (IF h.bit0 THEN <<Struct(BodySize.node_id_query)>> ELSE <<>>) \o
            (IF h.bit1 THEN <<Struct(BodySize.node_id_response)>> ELSE <<>>)
      [] h.type = "telemetry_req" -> <<>>
      [] h.type \in {"bulk_pull_blocks", "bulk_pull_account", "frontier_req",
                     "telemetry_ack"} -> <<Struct(BodySize[h.type])>>
      [] OTHER -> <<UntilEof>>

\* The payloads: the header fields a type does not look at are left at one
\* value.  `entry` is the type byte of the first entry of a bulk_push.
Payloads ==
    LET Any   == CHOOSE b \in BlockTypes : TRUE
        Count == CHOOSE n \in ItemCounts : TRUE
    IN  {p \in [magic : BOOLEAN, type : MessageTypes, block : BlockTypes,
                entry : BlockTypes, items : ItemCounts,
                bit0 : BOOLEAN, bit1 : BOOLEAN, size : 0..MaxSize] :
            /\ p.type \notin {"publish", "confirm_req", "confirm_ack"} => p.block = Any
            /\ p.type # "bulk_push" => p.entry = Any
            /\ p.type \notin {"confirm_req", "confirm_ack"} => p.items = Count
            /\ p.type \notin {"bulk_pull", "node_id_handshake"} => ~p.bit0
            /\ p.type # "node_id_handshake" => ~p.bit1
            /\ p.magic \/ p.type = "keepalive"}

Init ==
    /\ payload \in Payloads
    /\ pos = 0
    /\ todo = <<>>
    /\ items = 0
    /\ outcome = "reading"

-----------------------------------------------------------------------------
(***************************************************************************)
(* The stream                                                              *)
(***************************************************************************)

\* is_eof looks one byte ahead and puts it back.
IsEof(at) == at = payload.size

\* Mutant: the end of the payload raises no exception.
ReadUnchecked(n) == pos' = pos + n /\ UNCHANGED outcome

\* read_bytes, read_u1, ...: n bytes, or an exception that handle_tcp counts
\* as a parse error.
Read(n) ==
    IF pos + n <= payload.size
    THEN pos' = pos + n /\ UNCHANGED outcome
    ELSE UNCHANGED pos /\ outcome' = "parse_error"

Doing(op) == outcome = "reading" /\ todo # <<>> /\ Head(todo).op = op

\* message_header_t: the magic byte is checked before the rest is read.
ReadHeader ==
    /\ outcome = "reading" /\ pos = 0
    /\ IF payload.magic
       THEN /\ Read(HeaderSize)
            /\ todo' = Body(payload)
       ELSE /\ outcome' = "parse_error"
            /\ UNCHANGED <<pos, todo>>
    /\ UNCHANGED <<payload, items>>

\* A structure of fixed size.
ReadStruct ==
    /\ Doing("struct")
    /\ Read(Head(todo).size)
    /\ todo' = Tail(todo)
    /\ UNCHANGED <<payload, items>>

\* ignore_until_eof_t
ReadRest ==
    /\ Doing("rest")
    /\ pos' = payload.size
    /\ todo' = Tail(todo)
    /\ UNCHANGED <<payload, items, outcome>>

\* A list is read only if there is something left to read.
ReadList ==
    /\ Doing("list")
    /\ todo' = (IF IsEof(pos) THEN <<>>
                ELSE <<More(Head(todo).size, Head(todo).limit)>>) \o Tail(todo)
    /\ UNCHANGED <<payload, pos, items, outcome>>

\* Mutant: the loop stops at its count only.
ListEndsAtCount(limit, n, at) == n = limit

\* while (!(i == count || is_eof)): the test comes after an item is read, so a
\* count of zero is never met.
ListEnds(limit, n, at) == n = limit \/ IsEof(at)

\* One item of a list.
ReadItem ==
    /\ Doing("more")
    /\ Read(Head(todo).size)
    /\ items' = items + 1
    /\ todo' = IF ListEnds(Head(todo).limit, items + 1, pos + Head(todo).size)
               THEN Tail(todo) ELSE todo
    /\ UNCHANGED payload

\* msg_bulk_push_t reads the type byte and the block of an entry.
ReadEntry ==
    /\ Doing("entry")
    /\ Read(1)
    /\ todo' = <<BlockSelector(payload.entry), EntryTest>> \o Tail(todo)
    /\ UNCHANGED <<payload, items>>

\* The test of its loop asks for the entry after the one it read, unless the
\* payload ends there: vector::at throws, and it is no runtime_error.
TestEntry ==
    /\ Doing("test")
    /\ IF IsEof(pos)
       THEN todo' = Tail(todo) /\ UNCHANGED outcome
       ELSE outcome' = "unknown_exception" /\ UNCHANGED todo
    /\ UNCHANGED <<payload, pos, items>>

\* handle_tcp resets the flow and dispatches the message.
Dispatch ==
    /\ outcome = "reading" /\ pos > 0 /\ todo = <<>>
    /\ outcome' = IF payload.type \in AllTypes \ {"bulk_pull_blocks"}
                  THEN "stored" ELSE "ignored"
    /\ UNCHANGED <<payload, pos, todo, items>>

\* Mutant: the votes are told apart by the count their header declares.
VoteFormByCount ==
    IF payload.block # NotABlock THEN "regular"
    ELSE IF payload.items > 0 THEN "hashes" ELSE "malformed"

\* How put(confirm_ack) tells the votes apart (db.cpp).
VoteForm ==
    IF payload.block # NotABlock THEN "regular"
    ELSE IF items > 0 THEN "hashes" ELSE "malformed"

Parse == ReadHeader \/ ReadStruct \/ ReadRest \/ ReadList \/ ReadItem
            \/ ReadEntry \/ TestEntry \/ Dispatch

Next == Parse

Spec == Init /\ [][Next]_vars

-----------------------------------------------------------------------------
(***************************************************************************)
(* Properties                                                              *)
(***************************************************************************)

Outcomes == {"reading", "stored", "ignored", "parse_error", "unknown_exception"}

\* Types; nothing is read past the end of the payload.
TypeOK ==
    /\ payload \in Payloads
    /\ pos \in 0..payload.size
    /\ todo \in Seq([op : {"struct", "list", "more", "rest", "entry", "test"},
                     size : Nat, limit : Nat])
    /\ items \in Nat
    /\ outcome \in Outcomes

(***************************************************************************)
(* The reference: what becomes of a payload, from its header and its size  *)
(* alone, as the layouts and the comments say.  A bulk_push is a header    *)
(* (packet_handler.cpp, "doesn't contain any data") and a list has up to   *)
(* its declared count of items (nano.h).                                   *)
(***************************************************************************)

\* Bytes of the message in front of its list, or of all of it.
Fixed(h) ==
    HeaderSize +
    CASE h.type = "confirm_ack" ->
            104 + (IF h.block \in DOMAIN BlockSize THEN BlockSize[h.block] ELSE 0)
      [] h.type \in {"publish", "confirm_req"} ->
            (IF h.block \in DOMAIN BlockSize THEN BlockSize[h.block] ELSE 0)
      [] h.type = "bulk_pull"         -> IF h.bit0 THEN 72 ELSE 64
      [] h.type = "node_id_handshake" ->
            (IF h.bit0 THEN 32 ELSE 0) + (IF h.bit1 THEN 96 ELSE 0)
      [] h.type = "bulk_pull_blocks"  -> 1
      [] h.type = "bulk_pull_account" -> 49
      [] h.type = "frontier_req"      -> 40
      [] h.type = "telemetry_ack"     -> 202
      [] OTHER                        -> 0

\* Size of an item of the message's list (0: it has none), and the most items.
ItemOf(h) ==
    CASE h.type = "keepalive" -> [size |-> 18, most |-> 8]
      [] h.type = "confirm_req" /\ h.block = NotABlock -> [size |-> 64, most |-> h.items]
      [] h.type = "confirm_ack" /\ h.block = NotABlock -> [size |-> 32, most |-> h.items]
      [] OTHER -> [size |-> 0, most |-> 0]

\* A payload is accepted when its fixed part is there and its list is either
\* complete or ends with the payload between two items.
Accepted(h) ==
    LET rest == h.size - Fixed(h)
        item == ItemOf(h)
        full == rest >= item.most * item.size
    IN  /\ h.magic /\ h.size >= Fixed(h)
        /\ item.size # 0 => full \/ rest % item.size = 0

ExpectedItems(h) ==
    LET rest == h.size - Fixed(h)
        item == ItemOf(h)
    IN  IF item.size = 0 THEN 0
        ELSE IF rest >= item.most * item.size THEN item.most
        ELSE rest \div item.size

Expected(h) ==
    CASE ~Accepted(h) -> "parse_error"
      [] Accepted(h) /\ h.type \notin AllTypes -> "ignored"
      [] Accepted(h) /\ h.type = "bulk_pull_blocks" -> "ignored"
      [] OTHER -> "stored"

\* The parser accepts exactly the payloads whose size fits their header, reads
\* as many items as were declared or are there, and a list cut short goes
\* unnoticed only between two items.  It does not: a bulk_push of a header only
\* is a parse error (nano.cpp, msg_bulk_push_t::_read).
ParseAgrees ==
    outcome # "reading" =>
        /\ outcome = Expected(payload)
        /\ outcome \in {"stored", "ignored"} => items = ExpectedItems(payload)

\* Where the parser departs from the comments: it reads an entry with every
\* bulk_push, and takes a declared count of zero for no limit.
Disputed(h) ==
    \/ h.type = "bulk_push"
    \/ ItemOf(h).size # 0 /\ ItemOf(h).most = 0

\* Every other payload ends as the reference says (nano.cpp, the _read
\* functions; packet_handler.cpp, the exceptions of handle_tcp).
ParseAgreesElsewhere == ~Disputed(payload) => ParseAgrees

\* A vote is recorded as malformed only if its payload ends where its hashes
\* should begin; no declared count, zero included, makes it so (db.cpp: "Shouldn't
\* happen unless the packet is malformed").
MalformedVotesAreCut ==
    outcome = "stored" /\ payload.type = "confirm_ack" =>
        (VoteForm = "malformed"
            <=> payload.block = NotABlock /\ payload.size = HeaderSize + 104)
=============================================================================
