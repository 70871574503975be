--------------------------- MODULE StreamDecoder ---------------------------
(***************************************************************************)
(* The decoding of one connection in packet_handler.cpp: handle_tcp with   *)
(* the tcp_flow_data of the connection, for the requests that are answered *)
(* by, or followed by, a stream of entries without message headers.  The   *)
(* stream arrives in payloads cut anywhere; handle_tcp appends each to the *)
(* ring accumulated_data and stores all entries that are complete.         *)
(*                                                                         *)
(* A stream is a sequence of units, a unit being one field of an entry     *)
(* (account, hash, amount, the type byte of a block, a part of its body).  *)
(* The ring holds POSITIONS in the stream, so that what is stored can be   *)
(* compared with what was sent, and a parser sees the VALUE of the unit at *)
(* a position: whether it is all zero (for a type byte: not_a_block), and  *)
(* as a type byte how long the block is.  Bytes of a body can have any     *)
(* value, which matters when decoding is out of step with the entries.     *)
(* One iteration of a decoding loop is one action.                         *)
(***************************************************************************)
EXTENDS Naturals, Sequences

CONSTANTS
  Capacity,    \* of accumulated_data, in units
  MaxPayload,  \* units in a payload, at most
  Replies,     \* the streams peers send
  MaxStored,   \* bound: entries recorded of a stream that repeats them
  MayLose,     \* may the capture miss bytes of a connection?
  MayFail      \* may db::put throw?

\* What a unit looks like to the parser.
Values == {"end", "short", "long", "other"}

Streams == {"frontier_req", "bulk_pull", "bulk_push", "bulk_pull_account"}

\* Units of a block: its type byte and its body, by what the type byte is.
BlockSize == [short |-> 2, long |-> 3]

\* Units of an entry of bulk_pull_account: hash and amount, source alone, or
\* hash, amount and source, by the flags of the request.
AccountEntrySize == [f \in {0, 1, 2} |-> IF f = 1 THEN 1 ELSE IF f = 2 THEN 3 ELSE 2]

\* Units of the entry with this number whose first unit has this value.
EntrySize(kind, flags, number, value) ==
  CASE kind = "frontier_req" -> 2
    [] kind = "bulk_pull_account" -> IF number = 1 THEN 2 ELSE AccountEntrySize[flags]
    [] OTHER -> IF value = "end" THEN 1 ELSE BlockSize[value]

\* A stream a peer may send: cuts are the positions at which its entries
\* begin, the last of them being that of the terminator.
IsReply(r) ==
  LET n == Len(r.cuts)
      first(i) == r.units[r.cuts[i]]
      size(i) == EntrySize(r.kind, r.flags, i, first(i))
  IN /\ r.kind \in Streams
     /\ r.flags \in {0, 1, 2}
     /\ r.units \in Seq(Values)
     /\ r.cuts \in Seq(1 .. Len(r.units))
     /\ n > 0 /\ r.cuts[1] = 1
     /\ \A i \in 1 .. n - 1 :
          /\ first(i) # "end"
          /\ r.kind \in {"bulk_pull", "bulk_push"} => first(i) # "other"
          /\ r.cuts[i + 1] = r.cuts[i] + size(i)
     /\ first(n) = "end"
     /\ Len(r.units) = r.cuts[n] + size(n) - 1

ASSUME StreamDecoderAssumption ==
  /\ Capacity \in Nat \ {0}
  /\ MaxPayload \in Nat \ {0}
  /\ \A r \in Replies : IsReply(r)
  /\ MaxStored \in Nat
  /\ MayLose \in BOOLEAN
  /\ MayFail \in BOOLEAN

VARIABLES
  current_msg_type,  \* of flow_data; "none" for all that is not a stream
  request_flags,     \* of flow_data
  step,              \* of flow_data
  accumulated_data,  \* of flow_data: positions, oldest first
  pc,                \* handle_tcp: "idle", in its "loop", or in the "rest" of
                     \* an iteration that has consumed the balance entry
  rest,              \* what the parser still sees in that iteration
  reply,             \* the stream the peer sends at present
  sent,              \* how many of its units have been sent
  stored             \* history: the entries put into the database for it;
                     \* repeated ones are recorded up to MaxStored only

flow == <<current_msg_type, request_flags, step, accumulated_data>>
vars == <<flow, pc, rest, reply, sent, stored>>

NoReply == [kind |-> "frontier_req", flags |-> 0, units |-> <<>>, cuts |-> <<1>>]

Init ==
  /\ current_msg_type = "none"
  /\ request_flags = 0
  /\ step = 0
  /\ accumulated_data = <<>>
  /\ pc = "idle"
  /\ rest = <<>>
  /\ reply = NoReply
  /\ sent = 0
  /\ stored = <<>>

-----------------------------------------------------------------------------
(* The flow's data. *)

\* tcp_flow_data::reset, and the flags set after it.
Reset(type, flags) ==
  /\ current_msg_type' = type
  /\ request_flags' = flags
  /\ step' = 0
  /\ accumulated_data' = <<>>

\* The positions from first to last.
Positions(first, last) == [j \in 1 .. last - first + 1 |-> first + j - 1]

\* Mutant: a deque, which grows.
PushBackUnbounded(data, new) == data \o new

\* Mutant: the unread part of an earlier payload is given up.
PushBackFresh(data, new) ==
  IF Len(new) <= Capacity
    THEN new
    ELSE SubSeq(new, Len(new) - Capacity + 1, Len(new))

\* circular_buffer::push_back of every unit: when the ring is full the oldest
\* one is overwritten.
PushBack(data, new) ==
  LET all == data \o new
  IN IF Len(all) <= Capacity
       THEN all
       ELSE SubSeq(all, Len(all) - Capacity + 1, Len(all))

\* circular_buffer::erase of the first n elements.
Erase(data, n) == SubSeq(data, n + 1, Len(data))

\* The memory behind linearize() after that erase: the elements have moved to
\* the front, what was behind them still lies there.
Shifted(data, n) ==
  [j \in 1 .. Len(data) |-> IF j + n <= Len(data) THEN data[j + n] ELSE data[j]]

Value(position) == reply.units[position]

-----------------------------------------------------------------------------
(* Payloads. *)

\* A request is parsed as a message: reset(), then handle_message.
Request(r) ==
  /\ pc = "idle"
  /\ current_msg_type = "none"
  /\ sent = Len(reply.units)
  /\ r.kind # "bulk_push"
  /\ Reset(r.kind, r.flags)
  /\ reply' = r
  /\ sent' = 0
  /\ stored' = <<>>
  /\ UNCHANGED <<pc, rest>>

\* A bulk_push header with the first n units of the stream in one payload.
\* The parser reads an entry after the header, and fails if it is not
\* complete; it then tests for the end of the payload, and if there is more
\* looks at an entry it has not read yet, which fails as well.  Handling the
\* message drops the payload, and with it the first entry.
RequestPush(r, n) ==
  /\ pc = "idle"
  /\ current_msg_type = "none"
  /\ sent = Len(reply.units)
  /\ r.kind = "bulk_push"
  /\ n <= Len(r.units)
  /\ IF n > 0 /\ n = EntrySize(r.kind, r.flags, 1, r.units[1])
       THEN Reset(r.kind, 0)
       ELSE UNCHANGED flow
  /\ reply' = r
  /\ sent' = n
  /\ stored' = <<>>
  /\ UNCHANGED <<pc, rest>>

\* The next n units arrive.  With no stream expected they are parsed as a
\* message, which fails and leaves the flow alone.
Payload(n) ==
  /\ pc = "idle"
  /\ sent + n <= Len(reply.units)
  /\ sent' = sent + n
  /\ IF current_msg_type = "none"
       THEN UNCHANGED <<accumulated_data, pc>>
       ELSE /\ accumulated_data' =
                 PushBack(accumulated_data, Positions(sent + 1, sent + n))
            /\ pc' = "loop"
  /\ UNCHANGED <<current_msg_type, request_flags, step, rest, reply, stored>>

\* Packets were lost: the reassembly marks the payload as incomplete, and
\* hasMissingData makes the callback drop it.
MissingData(n) ==
  /\ MayLose
  /\ pc = "idle"
  /\ sent + n <= Len(reply.units)
  /\ sent' = sent + n
  /\ UNCHANGED <<flow, pc, rest, reply, stored>>

\* The connection starts anew under the same flow key.
ConnectionStart ==
  /\ pc = "idle"
  /\ Reset("none", 0)
  /\ reply' = NoReply
  /\ sent' = 0
  /\ stored' = <<>>
  /\ UNCHANGED <<pc, rest>>

-----------------------------------------------------------------------------
(* The decoding loops. *)

\* Mutant: continue in place of break.
LeaveContinue ==
  /\ pc' = "loop"
  /\ rest' = <<>>
  /\ UNCHANGED <<flow, stored>>

\* The loop is left; a partial entry waits for more data.
Leave ==
  /\ pc' = "idle"
  /\ rest' = <<>>
  /\ UNCHANGED <<flow, stored>>

\* The terminator: the connection event is stored and the flow is reset.
EndOfStream ==
  /\ Reset("none", 0)
  /\ pc' = "idle"
  /\ rest' = <<>>
  /\ UNCHANGED stored

\* The first n units are an entry: it is put and erased.
PutAndErase(n) ==
  /\ stored' = Append(stored, SubSeq(accumulated_data, 1, n))
  /\ accumulated_data' = Erase(accumulated_data, n)

\* Mutant: while (size() > 64).
FrontierEntryOffByOne ==
  /\ pc = "loop"
  /\ current_msg_type = "frontier_req"
  /\ IF Len(accumulated_data) <= 2
       THEN Leave
       ELSE IF Value(accumulated_data[1]) = "end"
              THEN EndOfStream
              ELSE /\ PutAndErase(2)
                   /\ UNCHANGED <<current_msg_type, request_flags, step, pc, rest>>
  /\ UNCHANGED <<reply, sent>>

\* Mutant: the test for the end looks at the frontier hash.
FrontierEntryHashEnd ==
  /\ pc = "loop"
  /\ current_msg_type = "frontier_req"
  /\ IF Len(accumulated_data) < 2
       THEN Leave
       ELSE IF Value(accumulated_data[2]) = "end"
              THEN EndOfStream
              ELSE /\ PutAndErase(2)
                   /\ UNCHANGED <<current_msg_type, request_flags, step, pc, rest>>
  /\ UNCHANGED <<reply, sent>>

\* One iteration for frontier_req: while (size() >= 64).
FrontierEntry ==
  /\ pc = "loop"
  /\ current_msg_type = "frontier_req"
  /\ IF Len(accumulated_data) < 2
       THEN Leave
       ELSE IF Value(accumulated_data[1]) = "end"
              THEN EndOfStream
              ELSE /\ PutAndErase(2)
                   /\ UNCHANGED <<current_msg_type, request_flags, step, pc, rest>>
  /\ UNCHANGED <<reply, sent>>

\* Mutant: the test for not_a_block is missing.
BlockEntryNoEnd ==
  LET value == Value(accumulated_data[1])
  IN /\ pc = "loop"
     /\ current_msg_type \in {"bulk_pull", "bulk_push"}
     /\ IF accumulated_data = <<>>
          THEN Leave
        ELSE IF value \in {"end", "other"}
          THEN /\ accumulated_data' = <<>>
               /\ UNCHANGED <<current_msg_type, request_flags, step, pc, rest, stored>>
        ELSE IF Len(accumulated_data) < BlockSize[value]
          THEN Leave
          ELSE /\ PutAndErase(BlockSize[value])
               /\ UNCHANGED <<current_msg_type, request_flags, step, pc, rest>>
     /\ UNCHANGED <<reply, sent>>

\* One iteration for bulk_pull and bulk_push, whose loops are the same.  An
\* unknown type swallows all that is there, and put stores no entry for it.
BlockEntry ==
  LET value == Value(accumulated_data[1])
  IN /\ pc = "loop"
     /\ current_msg_type \in {"bulk_pull", "bulk_push"}
     /\ IF accumulated_data = <<>>
          THEN Leave
        ELSE IF value = "end"
          THEN EndOfStream
        ELSE IF value = "other"
          THEN /\ accumulated_data' = <<>>
               /\ UNCHANGED <<current_msg_type, request_flags, step, pc, rest, stored>>
        ELSE IF Len(accumulated_data) < BlockSize[value]
          THEN Leave
          ELSE /\ PutAndErase(BlockSize[value])
               /\ UNCHANGED <<current_msg_type, request_flags, step, pc, rest>>
     /\ UNCHANGED <<reply, sent>>

\* bulk_pull_account, step 0: the balance entry is put and erased, and the
\* same iteration goes on with the parser behind it, over memory in which the
\* erase has moved everything.
BalanceEntry ==
  /\ pc = "loop"
  /\ current_msg_type = "bulk_pull_account"
  /\ step = 0
  /\ IF Len(accumulated_data) < 2
       THEN Leave
       ELSE /\ PutAndErase(2)
            /\ step' = 1
            /\ pc' = "rest"
            /\ rest' = Erase(Shifted(accumulated_data, 2), 2)
            /\ UNCHANGED <<current_msg_type, request_flags>>
  /\ UNCHANGED <<reply, sent>>

\* What an entry of step 1 is parsed from.
AccountData == IF pc = "rest" THEN rest ELSE accumulated_data

\* An all-zero hash or source marks the last entry, and so does one that the
\* flags leave out: an empty string has no byte that is not zero.
IsLastAccountEntry ==
  LET size == AccountEntrySize[request_flags]
  IN \/ request_flags = 0 \/ Value(AccountData[size]) = "end"  \* source
     \/ request_flags = 1 \/ Value(AccountData[1]) = "end"     \* hash

\* bulk_pull_account, step 1: the entry is put, and not erased.  The next
\* iteration finds it again, or finds the one behind it when this one was
\* parsed from memory the erase of the balance entry had moved; with a complete
\* entry at the front of the ring that is not the last, the loop has no end.
AccountEntry ==
  LET size == AccountEntrySize[request_flags]
  IN /\ current_msg_type = "bulk_pull_account"
     /\ step = 1
     /\ pc # "idle"
     /\ IF Len(AccountData) < size
          THEN Leave
        ELSE IF IsLastAccountEntry
          THEN EndOfStream
          ELSE /\ stored' = IF Len(stored) < MaxStored
                              THEN Append(stored, SubSeq(AccountData, 1, size))
                              ELSE stored
               /\ pc' = "loop"
               /\ rest' = <<>>
               /\ UNCHANGED flow
     /\ UNCHANGED <<reply, sent>>

\* A complete entry or terminator is there.
EntryReady ==
  CASE current_msg_type = "frontier_req" -> Len(accumulated_data) >= 2
    [] current_msg_type = "bulk_pull_account" ->
         IF step = 0 THEN Len(accumulated_data) >= 2
                     ELSE Len(AccountData) >= AccountEntrySize[request_flags]
    [] OTHER -> /\ accumulated_data # <<>>
                /\ Value(accumulated_data[1]) \in DOMAIN BlockSize
                     => Len(accumulated_data) >= BlockSize[Value(accumulated_data[1])]

\* put or put_connection throws: the loop is left before anything is erased,
\* counted or reset, and the entry is tried again with the next payload.
PutFails ==
  /\ MayFail
  /\ pc # "idle"
  /\ EntryReady
  /\ Leave
  /\ UNCHANGED <<reply, sent>>

\* One iteration of the loop for the type of the stream.
Iterate == FrontierEntry \/ BlockEntry \/ BalanceEntry \/ AccountEntry

Decode == Iterate \/ PutFails

Next ==
  \/ \E r \in Replies : Request(r)
  \/ \E r \in Replies, n \in 0 .. MaxPayload : RequestPush(r, n)
  \/ \E n \in 1 .. MaxPayload : Payload(n) \/ MissingData(n)
  \/ ConnectionStart
  \/ Decode

\* The processing thread goes on with the payload it handles, one iteration
\* after the other.  Nothing obliges a peer to send or a put to fail, and it is
\* not assumed that a loop ends.
Spec == Init /\ [][Next]_vars /\ WF_vars(Iterate)

-----------------------------------------------------------------------------
(* Properties. *)

\* The entries of a stream, without the terminator.
EntriesOf(r) ==
  [i \in 1 .. Len(r.cuts) - 1 |-> Positions(r.cuts[i], r.cuts[i + 1] - 1)]

Entries == EntriesOf(reply)

\* The ring never holds more than its capacity, whatever the peers send.
TypeOK ==
  /\ current_msg_type \in Streams \cup {"none"}
  /\ request_flags \in {0, 1, 2}
  /\ step \in {0, 1}
  /\ accumulated_data \in Seq(1 .. sent)
  /\ Len(accumulated_data) <= Capacity
  /\ pc \in {"idle", "loop", "rest"}
  /\ rest \in Seq(1 .. sent)
  /\ reply \in Replies \cup {NoReply}
  /\ sent \in 0 .. Len(reply.units)
  /\ stored \in Seq(Seq(1 .. Len(reply.units)))

\* handle_tcp stores the entries of a stream each once, whole and in order,
\* wherever TCP cuts the stream into payloads.
EntriesInOrder ==
  /\ Len(stored) <= Len(Entries)
  /\ \A i \in 1 .. Len(stored) : stored[i] = Entries[i]

\* Between two payloads the decoding loops leave no more than a part of one
\* entry unread: whatever could be stored has been.
NothingReadyWaits ==
  pc = "idle" /\ current_msg_type # "none" => ~EntryReady

\* When a peer has sent all of its stream and the payloads are handled, all of
\* its entries are stored and the flow accepts messages again.
WholeStreamStored ==
  pc = "idle" /\ sent = Len(reply.units) =>
    current_msg_type = "none" /\ stored = Entries

\* The loop of bulk_pull_account is at an entry it stores and does not erase:
\* complete, with nothing in it that marks the last one.  Only flags 2 give
\* such entries.
Endless ==
  /\ pc # "idle"
  /\ current_msg_type = "bulk_pull_account"
  /\ step = 1
  /\ EntryReady
  /\ ~IsLastAccountEntry

\* handle_tcp returns from every payload, whatever is cut, lost, out of step or
\* thrown, but for the one loop that cannot end: every other way through the
\* loops erases what it has read, leaves, or resets the flow.
LoopsEnd == pc # "idle" ~> (pc = "idle" \/ Endless)

\* "Next step is reading bulk_pull_account_entry until zero-block"
\* (packet_handler.cpp:487): the loops read a payload to its end and handle_tcp
\* returns from every one, so that the processing thread goes on.
HandlerReturns == pc # "idle" ~> pc = "idle"

Stream == INSTANCE EntryStream WITH
  Answers <- {EntriesOf(r) : r \in Replies},
  answer <- Entries, read <- stored, open <- current_msg_type # "none"

\* handle_tcp with its ring, its payloads and its parsers implements the
\* reading of a stream entry by entry: in particular it does not take
\* anything but the terminator for the end.
ImplementsStream == Stream!StreamSpec

=============================================================================
