# A TLA+ verification project for nanocap

nanocap captures the TCP traffic of a nano node (live through pcap, or from a
pcap file), reassembles the connections, parses the nano protocol messages, and
stores them in a SQLite database that a small web console queries. This
directory holds TLA+ models of its own code, the TLC runs that check them and
the TLAPS proofs about them. All source paths are relative to the repository's
root; the own code is `src/*.cpp`, `src/*.hpp` (everything else under `src/` is
vendored or generated) and the console in `public/`.

## 1. Inventory

| Component | State | Operations | Talks to |
|---|---|---|---|
| Capture callbacks (`packet_handler.cpp:23-138`) | `connMgr`: flow key to per-connection state; `packet_queue` | message ready, connection start, connection end, on_packet | called by the pcap/TCP reassembly thread (or by main while it imports); appends to the queue; writes connection rows to the database |
| Processing loop (`packet_handler.cpp:289-306`) | the popped payload, `stopped` | wait with timeout, pop, handle | the queue, its mutex and condition variable |
| Stream decoding (`packet_handler.cpp:308-623`) | `tcp_flow_data`: message type, step, requesting side, a 4096 byte ring of unread bytes | handle_tcp: parse a message or continue a frontier / bulk pull / bulk push / account pull stream | the generated parser; `db::put`; stops the capture device when the database is full |
| Capture control (`packet_handler.cpp:161-281`, `webserver.cpp:67-114`) | `dev`, `capturing`, `importing` | import a file, start, stop, toggle, destroy, automatic stop | main, the web thread, the processing thread, all three |
| Database (`db.cpp`, `db.hpp`) | the open transaction, `next_id`, prepared statements, counts, `max_reached`, `sqlite_sequence` | open, put (one overload per message or entry), put_connection, flush, destroy, query (any SQL a user sends, writes included), counts | processing thread, capture thread, web thread; SQLite |
| Web server (`webserver.cpp`) | none of its own | the /api/v1 endpoints, static files | handler and database, from one I/O thread |
| Application (`app.cpp`) | the singleton's members, options | launch, signal handler, main, destruction in reverse order | everything |
| Console (`public/app.js`, `public/*.html`) | polling intervals, status | poll status and counts with backoff, start/stop, query | the web server |
| Account and balance formatting (`util/nanoutil.cpp`) | none | pub_to_account, number, hash_of | called by the database |

Behaviours that are hard here: three or four threads (capture, processing, web,
main) share the handler and the database; the flow state is reset by one thread
and used by another; decoding resumes at any byte boundary; rows of one message
are written by several statements inside one long transaction; ids come from one
counter taken in strides; the process may be killed at any time; the automatic
stop and the user's stop and start may cross.

What makes each part correct, in one line each:

- hand-off: every payload queued is handled once, in order, unless a stop
  intervenes; a stop is prompt, and ends unless a payload is handled for ever;
- database: no two rows of a table ever get the same id, over restarts and
  destroys; what a committed row refers to is committed as well; the counts
  shown are the counts stored; a full database stops the capture;
- decoding: the entries stored are those sent, whatever the segmentation;
- capture control: the device, the flags and the threads agree, also when
  requests, the automatic stop, an import and a signal come together;
- console: polling never stops, and its back-off is bounded (by twice the limits its comments state,
  which it passes) and ends.


## 2. Plan

The modules, most important behaviour first.

| | Module | Models | Abstract specification | State |
|---|---|---|---|---|
| A | `PacketQueue` | the hand-off between capture and processing thread, and shutdown | `PacketChannel` | modelled, checked, proved |
| B | `CaptureDb` | ids, rows, transaction, counts, destroy, crash | none; its properties are the promise | modelled, checked, proved |
| C | `StreamDecoder` | `handle_tcp` on one connection's streams | `EntryStream` | modelled, checked, proved |
| D | `CaptureControl` | start, stop, toggle, destroy, automatic stop and signal over `dev` and the flags | none | modelled, checked, proved |
| E | `StatementReuse` | what reused prepared statements keep between messages | none; the row a message stands for is its properties | modelled, checked, proved |
| F | `ConnectionTracking` | `connMgr`, reused flow keys, several connections through one queue into `handle_tcp` | `ConnectionLog` | modelled, checked, proved |
| G | `WebConsole` | the polls of `app.js` and their back-off | none | modelled, checked, proved but for liveness |
| H | `MessageParser` | the generated parser on a message that starts or follows no stream | a reference by header and size (`Expected`, `ExpectedItems`) | modelled, checked, proved |
| I | account and balance formatting | | | not modelled, see section 6 |

The three places where components meet are modelled from both sides: the queue
(`PacketQueue` in detail, `ConnectionTracking` as a queue of payloads with flow
pointers, `CaptureControl` as a number), the stream (`StreamDecoder` in units of
fields, `ConnectionTracking` in whole entries), and the database (`CaptureDb` for the
rows and the transaction, `StatementReuse` for the values in a row).

## 3. What is modelled

### PacketQueue and PacketChannel

`PacketQueue` gives each thread a program counter and makes one action of every
step between two accesses to shared state, so that the model has the races of the
code and no others.

| State | Code |
|---|---|
| `mutex`, `queue` | `packet_queue_mutex`, `packet_queue`; an element is the number of its payload, `Blank` between `emplace_back()` and the assignment of its fields |
| `capture` | the position in `tcpReassemblyMsgReadyCallback`, run by the capture thread or by main while it imports |
| `worker`, `hand` | the position in `run_packet_processing_loop` and the copy of the popped element |
| `stopped`, `main` | the atomic flag and the position of main: import, signal handler, destructors |
| `pushed`, `handled`, `stopMark` | history: what was queued, what was handled, how much of it when stop was first raised |

`wait_for` is four actions: the test of its predicate (`WaitTest`), the atomic
release and wait (`Block`), the end of the wait by notification, timeout or
spuriously (`NotifyAll`, `Expire`), and taking the mutex again (`Reacquire`),
which after a timeout returns without another test of the predicate having to hold.
`stop_packet_processing_thread` is `RaiseStop` and, as a separate step, its
notification; neither takes the mutex. `SizeLock` and `SizeUnlock` are the status
request.

Nothing says that `handle_tcp` returns, and it does not always (`stream_endless` in section 4):
`Handle` ends it, and `HandleForever` makes `worker` `"endless"`, at which it stays.

`PacketChannel` is the promise: payloads are handled one at a time in the order
in which they were queued, at most one more after a stop is requested, and all of
them if none is and no payload is handled for ever (`dead`).

Not modelled: the contents of a payload, and other connections' flow data (see
`StreamDecoder`).

### CaptureDb

| State | Code |
|---|---|
| `rows`, `disk` | the rows the connection sees and those committed. A row is its table, its id and the ids it refers to; the five block tables are one |
| `seq`, `multiplier`, `nextId` | the AUTOINCREMENT sequence of `runs`, the value read from it at start, and the atomic `next_id` |
| `worker` | the kind of the message whose packet id was drawn, outside of `db_mutex`, and the ids drawn |
| `flow` | the request of the connection whose stream is being stored |
| `counted` | `count_per_type` (one type is enough) |
| `broken` | statements that were executed and not reset |
| `destroyStep`, `destroyMark` | the position of `destroy_capture_data` in its loop over the tables, and history: the next id when it began |
| `spoilt` | history: a statement failed, or a user's SQL removed rows |

A put is the sequence of rows it executes, in the code's order (`MessageRows`,
`EntryPlans`); `Execute(plan, k)` runs the first `k` of them, all of them unless
a statement throws, which any may. It is one step, for all of it is under `db_mutex`. What happens
outside of the mutex is a step of its own: drawing the packet's id
(`DrawPacketId`), and for a bulk_pull_account request a second id
(`DrawRequestId`), between which and the put the other threads act. `PeriodicCheck`
is the test in `bind_header_fields`, with the order of the code: the id has been drawn
when it looks. Its other half, the page count that decides `max_reached`, is in
`CaptureControl`. `Query` is `db::query`, which executes any SQL a user sends in
the open transaction: a statement that removes the rows of a table stands for those that
write; one that only reads changes nothing. `destroy_capture_data` holds the mutex
and commits after every table; each table is a step so that a crash can fall
between two of them. `Crash` keeps `disk`. SQLite itself is external and modelled
by what the code relies on.

Not modelled: columns that refer to nothing, the journal mode, `get_schema`, which
only reads, and other writes of a user's SQL than a DELETE, a user's transaction control and schema changes among them.

### StreamDecoder and EntryStream

One connection. A stream is a sequence of units, one unit per field of an entry; the
ring `accumulated_data` holds positions in the stream, so that what is stored can
be compared with what was sent, and the parser sees only what a unit looks like: all zero,
or, as the type byte of a block, how long the block is. A byte in the middle of a
block may look like anything, which matters when decoding is out of step.

| State | Code |
|---|---|
| `current_msg_type`, `request_flags`, `step`, `accumulated_data` | the members of `tcp_flow_data` of the same names; message types that start no stream are `"none"` |
| `pc`, `rest` | whether `handle_tcp` is in a decoding loop, and what the parser still sees in the iteration that has erased the balance entry |
| `reply`, `sent` | the stream of the peer and how much of it was sent |
| `stored` | history: the entries put into the database for it, repeated ones up to `MaxStored` |

An action is the arrival of a payload (`Request`, `RequestPush`, `Payload`,
`MissingData`), the start of a new connection under the same flow key
(`ConnectionStart`), or one iteration of a decoding loop (`FrontierEntry`,
`BlockEntry`, `BalanceEntry`, `AccountEntry`), together `Iterate`, left early when a put throws
(`PutFails`). `Endless` is the state no iteration leaves: at a complete entry of a flags-2 `bulk_pull_account` answer,
whose bytes the code does not erase. `PushBack` overwrites the oldest units of a full ring, and `Shifted`
is the memory behind `linearize()` after `erase`, which moves the elements to the
front and leaves the stale ones behind. `RequestPush` follows the generated
parser, which reads an entry after a bulk_push header in the same payload.

Not modelled: the connection start that races with the processing thread (see
`ConnectionTracking`), the events and counters a stream's end reports, a payload that happens to begin
like a message (0x52) while no stream is expected, the option
`bootstrap_details` when it is off.

### CaptureControl

Three controllers of our own (main, the web thread, the processing thread) and the
capture thread of PcapPlusPlus, which is external: it runs from `startCapture`
to `stopCapture`, which waits for it.

| State | Code |
|---|---|
| `pc`, `request`, `again` | the next statement of main and of the web thread, the request that waits or the destroy that is served, and the local that remembers a running capture over a destroy |
| `worker` | the next statement of the processing thread: its loop, the size check in `handle_tcp`, the automatic stop, the decoding, and `"endless"` when that does not return |
| `dev`, `opened`, `running` | the raw pointer, the device's open state, its thread |
| `capturing`, `importing`, `stopped`, `full` | the flags; `full` is `max_reached` |
| `queued`, `consumed`, `over`, `ended` | payloads queued, payloads handled modulo the period, history: payloads handled with the database full, and how the process ended |
| `overlapped`, `hasty` | histories: has a request been under way while main started or shut down; was `/capture/start` served during an import |

`start_capture` and `stop_capture` have no lock and are taken apart into one
shared access per action (`StartFlag` ... `StartRun`, `StopFlag` ... `StopDrop`), for main
and the web thread alike; the automatic stop (`AutoHalt`, `AutoJoined`) stops the
device and touches neither the pointer nor the flag. A use of a null pointer ends the
behaviour in `"fault"`; a device that is missing or does not open, and a rejected
filter, are `std::exit` (`Exit`, `ImportFails`).

The web server is started before main imports or starts a capture (`app.cpp:57`), so requests
arrive at any time (`Accept`), an import sets `importing` only when it begins
(`ImportBegins`, `packet_handler.cpp:163`), and a request is served in the steps `ServeStart`,
`ServeStop`, `ServeToggle` and `ServeDestroy`, the last with `DestroyData` between its stop and its
start. The signal is `Signal`, `RaiseStop`, the stop of the capture and `Leave`; the destructors are
`JoinWeb` (waits for the request that is served, raises `stopped`) and
`JoinWorker`. `Decode` may set `full`; `DecodeForever` is the payload that is handled for ever.

Nothing in the code keeps a request apart from main's start-up and shutdown, and nothing
refuses a start during an import. The model does neither; it records that it
happened (`overlapped`, `hasty`), and the properties say what holds until then, and
what even afterwards.

### ConnectionTracking and ConnectionLog

The reassembler is external and is a peer per flow key (`peer`): it opens connections,
sends units and closes them, and may deliver after the close. A unit is a message, a request
(`req`, answered by frontiers or blocks; `account` and `brief`, bulk_pull_account with flags 2 or with
0 and 1), an entry, a terminator, or a message that comes while an answer is expected (`other`).
Both sides of a connection are one sequence of units: the code feeds both into one flow and never looks at the
side it is told (`packet_handler.cpp:87`). Connections (sessions of a key) are numbered in the order in which they are opened.

| State | Code |
|---|---|
| `connMgr`, `flows` | the map from flow key to `tcp_flow_data`, and the objects it owns, with message type, request and ring (`data`, as whole units) |
| `queue`, `hand` | the queued payloads with their flow pointers, the one `handle_tcp` works on |
| `opened`, `sent` | the number of connections so far, and history: what was sent on each |
| `stored` | history: what was put for each connection, as what and with which request (`message_id`) |
| `damaged` | history: the connections of which the capture missed something, or whose streams the code cannot follow |

`ConnectionStart`, `MsgReady`, `MsgMissing` and `ConnectionEnd` are the callbacks;
`ConnectionUnseen` is a connection whose start was before the capture. `Take`, `Accumulate`,
`Message`, `Entry`, `AccountEntry`, `EndOfAnswer` and `Consumed` are `handle_tcp` between them, one step
per put, so that the capture thread acts in the middle of a payload. A terminator is put as an event
(`put_connection` in the loops), without a request; a brief account entry is taken for one, as
a field that is not there counts as zero. `AccountEntry` puts its entry and does not erase it, so it can go on for
ever: the flow, and with it the processing thread, gets no further.

Two kinds of stream are beyond the code (`Unfollowed`): an account's blocks
(`packet_handler.cpp:458-515`), and an answer into which a message of the other side falls. A connection that has either is
`damaged` from then on (`Spoil`), and what is put for a damaged connection is
left out of the history, since it may be anything. Out of step the code reads entries at the wrong bytes;
with whole units as the smallest thing, the model reads one unit as another instead. The account branch is
modelled field by field in `StreamDecoder`.

`ConnectionLog` is the promise, without keys, flow data, queue or payloads: each connection that
is not damaged is stored by itself, every unit as its row, in the order sent, and no row is
ever changed or skipped. `Row` says which row a unit has: an entry one with the request of its own connection it
answers, which is how the reset and reuse of flow data become visible.

`Prompt`: is a flow key used again only when its payloads have been handled? `Single`:
does a payload hold one message only? Both are assumptions about the network that nothing in the code enforces; section 4 says what
TLC finds without them. `MCConnectionTracking` adds the symmetry of the keys.

### StatementReuse

| State | Code |
|---|---|
| `bound`, `ready` | of every prepared statement: the number of the message each column was last bound for (0 is NULL), and whether it was reset since it was executed |
| `rows`, `log` | the rows stored with the values of their columns; history: the kinds of the messages put |

`Bind`, `Clear`, `Exec` and `Reset` are the calls of SQLiteCpp, on a record that also knows whether something threw; a put is their
composition in the code's order, `at` the INSERT that throws. Columns
always bound together are one; statements that bind all their columns on each
use are one per role.

### MessageParser

One payload. `payload` has the header fields the parser looks at and the size; `pos` is
the position of the stream, `todo` the structures left to descend into, `items` the
list items read, `outcome` how `handle_tcp` is left. An action reads the header, a structure, a list item, or
tests for the end, as the `_read` functions do; passing the end is the
`runtime_error` that `handle_tcp` counts as a parse error, and `vector::at` beyond the
end is the exception it does not (`TestEntry`, bulk_push). The properties compare with a reference
(`Expected`, `ExpectedItems`): the message sizes of the protocol added up per type, independently of the descent.
The reference takes the comments at their word, a bulk_push being its header alone and a declared count of 0 being no
items; `Disputed` are the payloads for which the code does otherwise.

### WebConsole

`interval` and `armed` are the two poll intervals and the delays their timers were
set with; `pending` and `lost` the requests that will be answered or fail;
`offline` the indicator. A poll sets the next timer before its answer is there, so
several may be outstanding. `GoDown` loses what was outstanding, `ComeBack` is a restart.

## 4. What is checked

| Run | Question | Result |
|---|---|---|
| `queue_live` | Is the hand-off ordered, is a stop prompt, does it end unless a payload is handled for ever, and is the whole an implementation of `PacketChannel`? | holds |
| `queue_import_drops` | Is all of a file handled when nothing but an import was asked for? | no: finding |
| `db_contents` | Content-first and packet-first messages, requests that draw two ids and the entries that follow, connection events, restart, crash and destroy at every step, any statement throwing, a user's DELETE: fresh ids and a durable destroy throughout; no dangling references and right counts until something has thrown or been deleted by a user? | holds |
| `stream_pull` | Every stream of up to four frontiers or three blocks, cut at every position: is what is stored what was sent, does nothing ready wait, is the stream complete, is it an `EntryStream`? | holds |
| `stream_lossy` | The same loops fed with anything: missed bytes, a ring smaller than a payload, failing puts, all four kinds: does the ring keep its capacity, and is the loop over a flags-2 account answer the only one that goes on for ever? | holds |
| `stream_endless` | Does `handle_tcp` return from an answer to bulk_pull_account with flags 2? | no: finding |
| `control_console` | Requests at any time, hasty starts, a full database, failing devices, a signal, payloads handled for ever: is a capture reported as stopped stopped, is the reassembler used by one thread, does no capture thread outlive its device, is a null device met only by the automatic stop, is the overrun of a full database bounded, does a destroy find no capture, each as far as the histories allow? And does every signal and request end, unless a payload does not? | holds |
| `conn_tracked` | Two flow keys and two connections, on one key or on two, seen late, ended early, with bytes missed or with streams the code cannot follow: is everything of a connection that is not damaged stored once, in order, with its own request, is it a `ConnectionLog`, whatever the damaged ones do? | holds |
| `stmt_rows` | Four messages of any kind with any INSERT failing and destroys between them: does a row read by its discriminator show its own message's data only? | holds |
| `parser_payloads` | Every message and block type with every size up to 340 bytes, the disputed ones aside: does the parser accept, reject and count as the sizes say, and is a malformed vote one that was cut? | holds |
| `parser_documented` | Is a bulk_push its header alone, as the comment says? | no: finding |
| `web_polls` | Two polls with up to three outstanding answers each and two outages: does the back-off stay below twice its limits and agree with the indicator, and does it end? | holds |

### Bounds

- Queue: `MaxPackets = 4`. The race between a notification and the wait needs one
  payload, order and an element half filled behind a full one need two, a stop in
  between three.
- Database: four kinds, one of each shape: content first, packet first with children, a request with two ids, a request with one.
  `MaxDraws = 4` ids per run are a message with its children, or a request and its entries, and another message begun; `Period = 3` puts a
  period boundary within and between them; `MaxSeq = 2` runs already show an id range
  used twice. `Budget = 8` is larger than `MaxDraws`: the budget of a thousand million ids per run is
  an assumption the code does not check.
- Streams: `Capacity = 6` and `MaxPayload = 4` units
  in `stream_pull` satisfy `Fits` (below) tightly: a payload fits exactly behind the longest
  partial entry. In bytes, a partial entry is at most a state block of 217 bytes less one, and
  an Ethernet segment of 1460 bytes fits behind it in 4096; a coalesced or a
  loopback segment need not. `stream_lossy` (3 and 5) has payloads longer than the ring; `stream_endless` (12 and 4) has a
  ring that loses nothing, so that its violation owes nothing to the ring. `MaxStored` bounds the record of a repeated entry only.
- Control: `Period = 3` has payloads on both sides of a size check, `MaxQueued = 1` a queue that
  is empty, in use and full; devices fail (`MayFail`); the threads themselves are not bounded.
- Connections: two keys and two connections have one key used twice or two keys side by side, up to the symmetry of the keys;
  three units are a request, an entry and its terminator; one payload queued and one in hand are two of one
  key or one of each.
- Statements: four puts are enough for a failing one, the one that leaves a column, the one
  that does not bind it, and another that does. The theorems have no bound here.
- Parser: 340 bytes hold every message with something left over, the longest being a vote
  with a state block (328 bytes); item counts 0 to 3 are none, one and several.
- Console: three outstanding answers can hit all steps of the status back-off between two polls.

Deadlock checking is on for the streams, whose peers and connections never end, and off elsewhere: there main
ends, the ids, restarts, messages and sessions of a behaviour are bounded, or a payload has been read.

### Fairness

- `PacketQueue`: weak fairness of every thread's own steps, the expiry of
  the 500 ms timeout among them, because threads are scheduled; strong fairness where a
  thread waits for the mutex, because the status request takes and frees it for ever and
  an operating system's mutex does not let one waiter starve. Nothing obliges a packet,
  a signal or a status request to arrive. That `handle_tcp` returns is not assumed: a payload is
  finished or turns out endless, and the properties say "unless endless".
- `StreamDecoder`: weak fairness of an iteration of the loop (`Iterate`), since the processing
  thread goes on; nothing obliges a peer to send or a put to throw.
- `CaptureControl`: weak fairness of each thread, the capture thread's end included, which
  `stopCapture` waits for; strong fairness of the join in the signal's `stop_capture`, which returns
  once the thread it waits for has ended, though requests may start and stop new ones for ever. Here too
  a payload is decoded or is endless. Nothing obliges a request, a payload, a signal or a failure.
- `WebConsole`: weak fairness of timers and of answers or failures, as a browser ends a
  request one way or the other. Nothing obliges the process to go down or come back.
- The other modules have safety properties only and state none.

### Assumptions and exemptions, and what TLC finds without them

| Assumption | Without it |
|---|---|
| `Prompt = TRUE` (connections): a reused key's payloads are handled first | `AnswersBelong` and `StoredAsSent` fail: the flow is reset while its payloads are queued, and they are read as those of the new connection. Nothing in the code prevents it; no property of a passing run catches this race |
| `Single = TRUE` (connections): a payload holds one message | `StoredAsSent` fails: what follows the first message of a payload is not looked at. `AnswersBelong` needs no such assumption, neither in TLC nor in its proof |
| `Fits` (streams): the ring has room for a payload behind a partial entry | `EntriesInOrder` fails: `push_back` on a full ring overwrites unread bytes (packet_handler.cpp:329), while packet_handler.hpp:73 says it "only needs to be large enough to hold a single entry" |

The other modules exclude nothing; where the code gives no guarantee, a history says so
and the property names it. What TLC finds if the exemption is dropped:

| Exempt | What happens there |
|---|---|
| `overlapped` (control): a request has been under way while main started up or shut down | main and the web thread run through `start_capture` and `stop_capture` side by side: `StoppedIsStopped`, `CaptureOutlived`, `FaultOnlyWhenFull`, `OverrunBounded` and `DestroyFindsNoCapture` fail, the device being closed under its thread or the pointer null when it is used. `ControlEnds` holds nevertheless |
| `hasty` (control): a `/capture/start` was served during an import | `OneReassembler` fails: a capture beside an import, on a reassembler without a lock. If the import then ends in `std::exit`, `CaptureOutlived` fails as well |
| `spoilt` (database): a statement has thrown, or a user's SQL has removed rows | `ReferencesHold` and `CountsMatch` fail: the rows of a message put before the exception stay in the open transaction, and the counts know nothing of a user's DELETE |
| `damaged` (connections): bytes missed, an account's blocks asked for, a message of the other side within an answer | what is stored of that connection is anything; `AnswersBelong` and `StoredAsSent` fail for it |
| `Endless` (streams, and `"endless"` in the queue and in control) | the processing thread never comes back, and the join in the destructor waits for it: `StopCompletes` and `ControlEnds` fail |
| `Disputed` (parser) | `ParseAgrees` fails, as `parser_documented` shows |

What the violating runs show:

- `queue_import_drops`: with neither console nor live capture, main runs the
  destructors right after the file is read; `stopped` makes the loop leave the
  queue as it is.
- `stream_endless`: the comment at packet_handler.cpp:487 says "Next step is reading bulk_pull_account_entry until zero-block",
  but in step 1 the bytes of an entry are never erased (near :513), so the loop reads and stores the same entry again
  and `handle_tcp` never returns (`HandlerReturns`). An entry that is read in the iteration that has consumed the
  balance is read from memory the erase at :485 has shifted, and is stored garbled first. A relative: with
  flags 0 or 1 the answer has no source or no hash, which counts as all-zero, and the first
  entry is taken for the terminator (`IsLastAccountEntry`); `WholeStreamStored`
  does not hold of account streams, which is why `stream_pull` leaves them out.
- `parser_documented`: packet_handler.cpp:752 says "Bulk push message doesn't contain any data, but is
  followed by a stream of bulk push entries until not-a-block"; the generated parser reads an entry before it
  tests for the end (nano.cpp:432-435), so the header alone is a parse error and the stream is not expected. A second
  disagreement under the same property: a declared item count of 0 is no limit, and the list is read to the end of the
  payload, while nano.h:184 says 'Up to "count" pairs of hash (first) and root (second), where count is read from header'.

What the code does that a reader of the models should know, and that is not a
run of its own:

- The console backs off further than its comments say: app.js:179 says "we don't back off more than to 3 secs"
  of the status, which reaches 4.8 s; app.js:214 says "Back off exponentially up to 1 minute" of the counts, which
  reach 64 or 108.8 s. Both tests come before the interval is doubled. `BackOffBounded` states what does hold:
  neither limit is passed by a factor of two.
- The periodic commit is stepped over (db.hpp:92-93): the test is for an exact multiple of 10000 after the packet's id
  was drawn, and a publish draws two ids; from an even start `next_id` is odd at each test and
  there is neither a commit nor a size check, however long the capture runs.
- An exception before the reset at the end of a put (db.cpp:457-458) leaves a
  statement un-reset, and every later bind of it fails. `StatementReuse` has this (`ready`);
  its properties are about the rows that are stored nevertheless.
- A bulk_push with anything behind its first entry ends in an exception that is
  none of the parser's (nano.cpp:435, the loop's condition), so the message is not stored (packet_handler.cpp:752).
- An automatic stop leaves `capturing` set (packet_handler.cpp:320), so that a later destroy
  starts a capture again that it did not find running. What holds is that the deleting itself finds no capture
  (`DestroyFindsNoCapture`); payloads that are queued already are still stored meanwhile.
- A vote that binds no hashes is stored with those of an earlier vote in that column. A row read by
  `vbh` is right (`MeaningfulColumnsOwn`); the query in README.md:197 of the
  repository looks at the column alone.

## 5. What is proved

For every value of the constants that satisfies the modules' assumptions, and the
condition stated with the theorem. Each invariant is inductive: it holds at
first, every action keeps it, and it implies the property.

`PacketQueueProofs`: `TypeCorrect`, `OrderCorrect`, `StopCorrect` and
`ImplementsChannelSafety`. The inductive invariant `IInv` adds to the
properties: who holds the mutex is where it says (`LockInv`), the worker pops from a queue that is not
empty and has something in hand exactly while it handles it (`PositionInv`), and
once stopped it has handled nothing since, or one payload and is not at another
(`StopInv`). `HandOffInOrder` alone is not inductive: that `Fill` assigns the last element
follows only from the mutex, which keeps the worker away while the element is blank.

`CaptureDbProofs`: `TypeCorrect`, `IdsCorrect` and `DestroyCorrect`, with failing
statements, crashes, destroys and a user's DELETE; `ReferencesCorrect` and `CountsCorrect`, which hold until
`spoilt`. The argument for the ids: those of a run lie between
`Budget * multiplier` and the run's bound (`BudgetInv`); the sequence of `runs`
only grows, even when a destroy deletes its rows, so every stored id lies below the start of the
next run (`BelowNextRun`); and a busy worker holds ids drawn and not yet stored
(`WorkerInv`). A message's rows are then fresh and distinct (`MessageRowsGood`,
`EntryPlansGood`), and `ExecuteKeeps` carries this through any prefix of them. For
destroy (`DestroyInv`): the tables the loop has passed are empty and committed. For references and counts
(`WholeInv`): both the open rows and those on disk are closed under references, the
request of the stream under way is stored or older than the last destroy, and the
count equals the packets stored, since as long as nothing is `spoilt` a put runs to its end.

`StreamDecoderProofs`: `OrderCorrect`, `WholeCorrect`, `WaitingCorrect` and
`ImplementsStreamCorrect`, under `Fits`: no bytes missed, no put failing, answers
to frontier_req or bulk_pull only, and room in the ring for a payload behind two
units. The invariant: while a stream is read the ring holds exactly the positions from
the first entry not stored to the last unit sent (`RingInv`), the entries stored are the first ones
(`OrderInv`), between payloads the ring is shorter than the entry it begins
(`WaitInv`, from which the next payload fits), and no stream is left before its
terminator (`DoneInv`). `Fits` is needed: each of its conditions, dropped, is one of the
runs or assumptions above. `TypeCorrect` needs none of it: whatever is missed and whichever put throws, the ring keeps its capacity.

`CaptureControlProofs`: `TypeCorrect`, `StoppedCorrect`, `ReassemblerCorrect`,
`OutlivedCorrect`, `FaultCorrect`, `OverrunCorrect` and `DestroyCorrect`, of the specification as it
is: requests may come at any time and starts may be hasty, and only the histories in the
properties exempt anything. The key is that, until a request has overlapped, one controller at a time is inside `start_capture` or
`stop_capture` (`TurnInv`), which fixes pointer, device and thread at each of its steps
(`StepInv`); a capture beside an import needs a hasty start (`ImportInv`); and the automatic stop
is reached only with a full database (`SizeInv`, which also bounds the overrun).

`ConnectionTrackingProofs`: `TypeCorrect` and `FlowsCorrect`, whatever is lost and however keys are
reused; `AnswersCorrect` under `Prompt`; `StoredCorrect` and `ImplementsLogCorrect` under
`Prompt` and `Single`. For the first two `TypeOK /\ FlowsShared` is inductive (`IInv`): every
pointer in the queue and in hand is the one the map has for its key, because entries are never erased;
erasing one at the end of its connection breaks `StoredAsSent`, which is what its mutant does.

For the others neither property is inductive: they speak of rows, and what the next row is depends on the ring,
the payload in hand and the payloads queued. `DInv` says how they fit together.
`PartsRight`: whatever is queued or in hand was sent on the connection its key has now (this needs `Prompt`).
`DecodingRight`: for each key there is a number `t` such that the first `t` units of its connection
are decoded, or in hand, and the queue holds the rest in order (`Chain`); between payloads the flow expects an answer
exactly if unit `t` leaves one open, and has its request (`Between`); inside the loop the ring is what is left
of the first `t` units (`Within`). `RowsRight` is the part of the properties that
follows. `LeftRight` remembers what is known of a connection when its key gets another: nothing was queued,
so all of it was stored. A damaged connection is exempt throughout
(`SpoiltRight` says that one with an account request or a message within an answer is damaged, so the account branch
and an answer out of step never meet the others), and
`DataRight` is what remains of it: in the flow between payloads no byte is left over, so what it leaves behind is a message
type and a request, which `ConnectionStart` resets. The lemmas `StartKeeps` ... `ConsumedKeeps` are one per action;
those of the loop go through `HandleKeeps`, which splits off all that a step of `handle_tcp` on one key
does not touch. For the refinement every put is the next row of a complete connection (`StoresNext`) or invisible.

`StatementReuseProofs`: `ColumnsCorrect` and `PacketsCorrect`, for any
number of puts and any failures. One lemma per statement operation says what it
does to `bound`, `ready` and the rows; a put chains them, and `RowsGood` is inductive since a
row's columns were bound by its own message just before.

`MessageParserProofs`: `TypeCorrect`, `ParseCorrect` (of `ParseAgreesElsewhere`, that is, but for the `Disputed` payloads) and `MalformedCorrect`, for
payloads of any size. The invariant (`Stage`) relates position, items and what is left to
read at each depth of the descent to the header; the lemmas on lists divide what
is left of the payload by the size of an item.

`WebConsoleProofs`: `BackOffCorrect` and `IndicatorCorrect`, for any number of outstanding
requests and outages.

Only model-checked: `StopCompletes`, `LoopsEnd`, `ControlEnds`, `BackToNormal` and the fairness part of
`ImplementsChannel` (liveness is beyond the provers here, as is ENABLED). Every other property of a passing
run is a theorem. No module uses a RECURSIVE
operator, and nothing rests on an unproved lemma. The
streams for TLC are put together in `MCStreamDecoder`, with `FlattenSeq`; the theorems
do not reach it, since they know a stream by `IsReply` alone; nor `MCConnectionTracking`, which only adds a symmetry.

## 6. What is not modelled

- Vendored code: SQLite (its header alone is a third of the repository's lines), SQLiteCpp,
  BLAKE2, the HTTP server and client, kaitai's stream, the thread pool and terminal colours. What nanocap relies on in
  them is modelled where it is used; the rest is not this program's.
- Generated code beyond what decides how a payload is read: the declarations and
  accessors of `nano.h`, and `Nano.js`, of which the console uses the enumerations.
- What a user's SQL may do beyond removing rows: `query` executes anything, in the same connection and
  transaction, so an UPDATE, a COMMIT or a DROP can break any promise about the database. `Query` is a DELETE.
  `get_schema` only reads. The lock of both is that of the puts.
- Account and balance formatting (`util/nanoutil.cpp`): stateless folds over digits whose
  checksum is BLAKE2. Nothing interleaves with them, and a unit test reaches
  what can be wrong.
- Configuration, option parsing, logging, static pages, the query and schema pages
  of the console and everything else that only displays.
- Values of columns and fields that decide nothing: amounts, signatures, hosts, times.
- The text of an exception and the counters of errors, and the journal mode of the database.

The models cover the code that keeps state or decides what is stored; most of the
repository's lines are the vendored and generated files named above.
