------------------------ MODULE MessageParserProofs ------------------------
(***************************************************************************)
(* Proofs about MessageParser, for payloads of any size and any message    *)
(* types, block types and item counts.                                     *)
(*                                                                         *)
(* While a payload is read, what is left to descend into starts where its  *)
(* layout says: a structure ends where the fixed part of the message ends, *)
(* a list begins there, and after each of its items the position is that   *)
(* many items further (Stage).  From this the end of every path through    *)
(* the parser is known (Result); it is the reference's except for the      *)
(* payloads about which the parser and the comments disagree.              *)
(***************************************************************************)
EXTENDS MessageParser, SequenceTheorems, TLAPS

\* Every block type has a size.
LEMMA BlockSizes ==
    /\ DOMAIN BlockSize = {"send", "receive", "open", "change", "state"}
    /\ \A b \in DOMAIN BlockSize : BlockSize[b] \in Nat
BY DEF BlockSize

\* The fields of a payload are numbers and flags.
LEMMA PayloadFields ==
    ASSUME NEW h \in Payloads
    PROVE  /\ h.size \in Nat /\ h.items \in Nat
           /\ h.magic \in BOOLEAN /\ h.bit0 \in BOOLEAN /\ h.bit1 \in BOOLEAN
<1>1. h \in [magic : BOOLEAN, type : MessageTypes, block : BlockTypes,
             entry : BlockTypes, items : ItemCounts,
             bit0 : BOOLEAN, bit1 : BOOLEAN, size : 0..MaxSize]
    BY Zenon DEF Payloads
<1>2. h.size \in 0..MaxSize /\ h.items \in ItemCounts
    BY <1>1
<1>3. h.size \in Nat /\ h.items \in Nat
    <2>1. MaxSize \in Nat
        BY MessageParserAssumption DEF MessageParserAssumption
    <2>2. h.items \in 0..15
        BY <1>2, MessageParserAssumption DEF MessageParserAssumption
    <2>3. h.size \in Nat
        BY <1>2, <2>1
    <2>. QED BY <2>2, <2>3
<1>4. h.magic \in BOOLEAN
    BY <1>1
<1>5. h.bit0 \in BOOLEAN
    BY <1>1
<1>6. h.bit1 \in BOOLEAN
    BY <1>1
<1>. QED BY <1>3, <1>4, <1>5, <1>6, Zenon

(***************************************************************************)
(* What the parser does with every payload, the disputed ones included.    *)
(***************************************************************************)

\* Bytes that must be there: those of the first entry too, in a bulk_push.
Length(h) ==
    IF h.type = "bulk_push"
    THEN HeaderSize + 1 + (IF h.entry \in DOMAIN BlockSize THEN BlockSize[h.entry] ELSE 0)
    ELSE Fixed(h)

\* A list is full at its count, unless that is zero.
Full(h) == ItemOf(h).most # 0 /\ h.size - Length(h) >= ItemOf(h).most * ItemOf(h).size

Readable(h) ==
    /\ h.magic /\ h.size >= Length(h)
    /\ ItemOf(h).size # 0 => Full(h) \/ (h.size - Length(h)) % ItemOf(h).size = 0

ItemsRead(h) ==
    IF ItemOf(h).size = 0 THEN 0
    ELSE IF Full(h) THEN ItemOf(h).most
    ELSE (h.size - Length(h)) \div ItemOf(h).size

\* A bulk_push is lost when anything follows its first entry.
Overlong(h) ==
    h.type = "bulk_push" /\ h.entry \in DOMAIN BlockSize /\ h.size > Length(h)

Result(h) ==
    IF ~Readable(h) THEN "parse_error"
    ELSE IF Overlong(h) THEN "unknown_exception"
    ELSE IF h.type \in AllTypes \ {"bulk_pull_blocks"} THEN "stored"
    ELSE "ignored"

ReadsAs ==
    outcome # "reading" =>
        /\ outcome = Result(payload)
        /\ outcome \in {"stored", "ignored"} => items = ItemsRead(payload)

\* The fixed part of a message has at least the size of the header.
LEMMA LengthType ==
    ASSUME NEW h \in Payloads
    PROVE  Length(h) \in Nat /\ Length(h) >= 8
<1>. USE BlockSizes, PayloadFields DEF Length, Fixed, HeaderSize
<1>1. CASE h.type = "confirm_ack" BY <1>1
<1>2. CASE h.type \in {"publish", "confirm_req"} BY <1>2
<1>3. CASE h.type = "bulk_pull" BY <1>3
<1>4. CASE h.type = "node_id_handshake" BY <1>4
<1>5. CASE h.type = "bulk_push" BY <1>5
<1>6. CASE h.type \in {"bulk_pull_blocks", "bulk_pull_account", "frontier_req", "telemetry_ack"}
    BY <1>6
<1>7. CASE h.type \notin {"confirm_ack", "publish", "confirm_req", "bulk_pull",
                          "node_id_handshake", "bulk_push", "bulk_pull_blocks",
                          "bulk_pull_account", "frontier_req", "telemetry_ack"}
    BY <1>7
<1>. QED BY <1>1, <1>2, <1>3, <1>4, <1>5, <1>6, <1>7

\* Items have one of three sizes, or there are none.
LEMMA ItemType ==
    ASSUME NEW h \in Payloads
    PROVE  /\ ItemOf(h).size \in {0, 18, 32, 64} /\ ItemOf(h).most \in Nat
           /\ h.type = "bulk_push" => ItemOf(h).size = 0
<1>. USE PayloadFields DEF ItemOf
<1>1. CASE h.type = "keepalive" BY <1>1
<1>2. CASE h.type = "confirm_req" /\ h.block = NotABlock BY <1>2
<1>3. CASE h.type = "confirm_ack" /\ h.block = NotABlock BY <1>3
<1>4. CASE /\ h.type # "keepalive"
           /\ ~(h.type = "confirm_req" /\ h.block = NotABlock)
           /\ ~(h.type = "confirm_ack" /\ h.block = NotABlock)
    BY <1>4
<1>. QED BY <1>1, <1>2, <1>3, <1>4

-----------------------------------------------------------------------------
\* How far the reading of payload h is: t is what is left to descend into, at
\* the position and i the items read.  A plain message has neither a list nor
\* the entry of a bulk_push.
IsPlain(h, i) == ItemOf(h).size = 0 /\ h.type # "bulk_push" /\ i = 0
IsList(h) == ItemOf(h).size # 0 /\ h.type # "bulk_push"
IsPush(h, i) == ItemOf(h).size = 0 /\ h.type = "bulk_push" /\ i = 0
KnownEntry(h) == h.entry \in DOMAIN BlockSize

\* The message has been read as Result says.
Done(h, t, i) == t = <<>> /\ Readable(h) /\ ~Overlong(h) /\ i = ItemsRead(h)

OneStruct(h, t, at, i) ==
    \E n \in Nat : IsPlain(h, i) /\ t = <<Struct(n)>> /\ at + n = Length(h)
TwoStructs(h, t, at, i) ==
    \E n \in Nat, m \in Nat :
        IsPlain(h, i) /\ t = <<Struct(n), Struct(m)>> /\ at + n + m = Length(h)
OnlyRest(h, t, at, i) == IsPlain(h, i) /\ t = <<UntilEof>> /\ at = Length(h)
StructRest(h, t, at, i) ==
    \E n \in Nat : IsPlain(h, i) /\ t = <<Struct(n), UntilEof>> /\ at + n = Length(h)

TheList(h) == List(ItemOf(h).size, ItemOf(h).most)
TheMore(h) == More(ItemOf(h).size, ItemOf(h).most)

StructList(h, t, at, i) ==
    \E n \in Nat :
        IsList(h) /\ i = 0 /\ t = <<Struct(n), TheList(h)>> /\ at + n = Length(h)
AtList(h, t, at, i) == IsList(h) /\ i = 0 /\ t = <<TheList(h)>> /\ at = Length(h)
InList(h, t, at, i) ==
    /\ IsList(h) /\ t = <<TheMore(h)>>
    /\ at = Length(h) + i * ItemOf(h).size /\ at < h.size
    /\ ItemOf(h).most = 0 \/ i < ItemOf(h).most

AtEntry(h, t, at, i) ==
    /\ IsPush(h, i) /\ t = <<PushEntry>> /\ at + 1 <= Length(h)
    /\ KnownEntry(h) => at + 1 + BlockSize[h.entry] = Length(h)
    /\ ~KnownEntry(h) => at + 1 = Length(h)
InEntry(h, t, at, i) ==
    \E n \in Nat : /\ IsPush(h, i) /\ KnownEntry(h)
                   /\ t = <<Struct(n), EntryTest>> /\ at + n = Length(h)
InUnknown(h, t, at, i) ==
    IsPush(h, i) /\ ~KnownEntry(h) /\ t = <<UntilEof, EntryTest>> /\ at = Length(h)
AtTest(h, t, at, i) ==
    /\ IsPush(h, i) /\ t = <<EntryTest>> /\ at >= Length(h)
    /\ KnownEntry(h) => at = Length(h)
    /\ ~KnownEntry(h) => at = h.size

Stage(h, t, at, i) ==
    \/ Done(h, t, i)
    \/ OneStruct(h, t, at, i) \/ TwoStructs(h, t, at, i)
    \/ OnlyRest(h, t, at, i) \/ StructRest(h, t, at, i)
    \/ StructList(h, t, at, i) \/ AtList(h, t, at, i) \/ InList(h, t, at, i)
    \/ AtEntry(h, t, at, i) \/ InEntry(h, t, at, i) \/ InUnknown(h, t, at, i)
    \/ AtTest(h, t, at, i)

\* The header is to be read, the message is being read, or it is done with.
IInv ==
    /\ payload \in Payloads /\ pos \in 0..payload.size /\ items \in Nat
    /\ outcome \in Outcomes
    /\ outcome = "reading" =>
         IF pos = 0 THEN todo = <<>> /\ items = 0
         ELSE payload.magic /\ Stage(payload, todo, pos, items)
    /\ todo \in Seq([op : {"struct", "list", "more", "rest", "entry", "test"},
                     size : Nat, limit : Nat])
    /\ ReadsAs

-----------------------------------------------------------------------------
(***************************************************************************)
(* Result by cases                                                         *)
(***************************************************************************)

\* A message without a list is read if its fixed part is there.
LEMMA PlainAccepted ==
    ASSUME NEW h \in Payloads, ItemOf(h).size = 0
    PROVE  /\ Readable(h) <=> h.magic /\ h.size >= Length(h)
           /\ ItemsRead(h) = 0
BY DEF Readable, ItemsRead, Full

\* A payload that ends before its fixed part, or in it, is an error.
LEMMA TooShort ==
    ASSUME NEW h \in Payloads, h.size < Length(h)
    PROVE  Result(h) = "parse_error"
<1>1. ~(h.size >= Length(h))
    BY PayloadFields, LengthType
<1>2. ~Readable(h)
    BY <1>1 DEF Readable, Full
<1>. QED BY <1>2 DEF Result

\* What is left of a payload behind its fixed part, i items of k bytes and what
\* is left behind them.
LEMMA Multiples ==
    ASSUME NEW k \in {18, 32, 64}, NEW i \in Nat, NEW rest \in Nat
    PROVE  /\ rest = i * k => rest % k = 0 /\ rest \div k = i
           /\ i * k < rest /\ rest < i * k + k => rest % k # 0
<1>1. CASE k = 18 BY <1>1
<1>2. CASE k = 32 BY <1>2
<1>3. CASE k = 64 BY <1>3
<1>. QED BY <1>1, <1>2, <1>3

\* Multiples of an item's size are ordered as their factors.
LEMMA Order ==
    ASSUME NEW k \in {18, 32, 64}, NEW i \in Nat, NEW j \in Nat
    PROVE  /\ i < j => i * k + k <= j * k
           /\ i <= j => i * k <= j * k
           /\ (i + 1) * k = i * k + k
           /\ i * k \in Nat
<1>1. CASE k = 18 BY <1>1
<1>2. CASE k = 32 BY <1>2
<1>3. CASE k = 64 BY <1>3
<1>. QED BY <1>1, <1>2, <1>3

\* A list that ended after n items, at its count or at the end of the payload.
LEMMA ListEnded ==
    ASSUME NEW h \in Payloads, NEW n \in Nat, h.magic, ItemOf(h).size # 0,
           Length(h) + n * ItemOf(h).size <= h.size,
           ItemOf(h).most = 0 \/ n <= ItemOf(h).most,
           \/ n = ItemOf(h).most /\ n # 0
           \/ Length(h) + n * ItemOf(h).size = h.size
    PROVE  Readable(h) /\ ItemsRead(h) = n
<1>. DEFINE k == ItemOf(h).size
            m == ItemOf(h).most
            rest == h.size - Length(h)
<1>1. k \in {18, 32, 64} /\ m \in Nat /\ h.size \in Nat /\ Length(h) \in Nat
    BY ItemType, PayloadFields, LengthType
<1>2. rest \in Nat /\ h.size >= Length(h) /\ n * k <= rest
    BY <1>1, Order
<1>3. Readable(h) <=> (m # 0 /\ rest >= m * k) \/ rest % k = 0
    BY <1>2 DEF Readable, Full
<1>4. ItemsRead(h) = IF m # 0 /\ rest >= m * k THEN m ELSE rest \div k
    BY DEF ItemsRead, Full
<1>. HIDE DEF k, m, rest
<1>5. CASE n = m /\ n # 0
    BY <1>2, <1>3, <1>4, <1>5
<1>6. CASE ~(n = m /\ n # 0) /\ rest = n * k
    <2>1. rest % k = 0 /\ rest \div k = n
        BY <1>1, <1>2, <1>6, Multiples
    <2>2. ~(m # 0 /\ rest >= m * k)
        <3>1. SUFFICES ASSUME m # 0 PROVE n * k < m * k
            BY <1>1, <1>6, Order
        <3>2. n < m
            BY <1>1, <1>6, <3>1 DEF m
        <3>. QED BY <1>1, <3>2, Order
    <2>. QED BY <1>3, <1>4, <2>1, <2>2
<1>7. (n = m /\ n # 0) \/ rest = n * k
    BY <1>1, <1>2, Order DEF k, m, rest
<1>. QED BY <1>5, <1>6, <1>7

\* A list that the payload cuts in the middle of item n + 1.
LEMMA ListCut ==
    ASSUME NEW h \in Payloads, NEW n \in Nat, ItemOf(h).size # 0,
           Length(h) + n * ItemOf(h).size < h.size,
           h.size < Length(h) + n * ItemOf(h).size + ItemOf(h).size,
           ItemOf(h).most = 0 \/ n < ItemOf(h).most
    PROVE  Result(h) = "parse_error"
<1>. DEFINE k == ItemOf(h).size
            m == ItemOf(h).most
            rest == h.size - Length(h)
<1>1. k \in {18, 32, 64} /\ m \in Nat /\ h.size \in Nat /\ Length(h) \in Nat
    BY ItemType, PayloadFields, LengthType
<1>2. rest \in Nat /\ n * k < rest /\ rest < n * k + k
    BY <1>1, Order
<1>3. Readable(h) => (m # 0 /\ rest >= m * k) \/ rest % k = 0
    BY DEF Readable, Full
<1>4. m = 0 \/ n < m
    OBVIOUS
<1>. HIDE DEF k, m, rest
<1>5. rest % k # 0
    BY <1>1, <1>2, Multiples
<1>6. ~(m # 0 /\ rest >= m * k)
    <2>1. SUFFICES ASSUME m # 0 PROVE rest < m * k
        BY <1>1, <1>2, Order
    <2>2. n * k + k <= m * k
        BY <1>1, <1>4, <2>1, Order
    <2>. QED BY <1>1, <1>2, <2>2, Order
<1>7. ~Readable(h)
    BY <1>3, <1>5, <1>6
<1>. QED BY <1>7 DEF Result

-----------------------------------------------------------------------------
(***************************************************************************)
(* The steps.  The lemmas speak of a payload h, what is left t, the        *)
(* position at and the items read i.                                       *)
(***************************************************************************)

\* Heads, tails and concatenations of the lists at hand.
LEMMA Tuples ==
    \A x, y : /\ Head(<<x>>) = x /\ Tail(<<x>>) = <<>>
              /\ Head(<<x, y>>) = x /\ Tail(<<x, y>>) = <<y>>
              /\ <<x>> # <<>> /\ <<x, y>> # <<>>
              /\ <<>> \o <<>> = <<>> /\ <<x>> \o <<>> = <<x>> /\ <<x, y>> \o <<>> = <<x, y>>
OBVIOUS

\* Two lists of one operation joined.
LEMMA Joined ==
    ASSUME NEW x, NEW y
    PROVE  <<x>> \o <<y>> = <<x, y>>
<1>. DEFINE z == <<x>> \o <<y>>
<1>1. z \in Seq({x, y}) /\ Len(z) = 2 /\ z[1] = x /\ z[2] = y
    OBVIOUS
<1>2. <<x, y>> \in Seq({x, y}) /\ Len(<<x, y>>) = 2 /\ <<x, y>>[1] = x /\ <<x, y>>[2] = y
    OBVIOUS
<1>. HIDE DEF z
<1>3. z = <<x, y>>
    BY <1>1, <1>2, SeqEqual
<1>. QED BY <1>3 DEF z

\* The fields of the operations.
LEMMA Operations ==
    /\ \A n : Struct(n).op = "struct" /\ Struct(n).size = n
    /\ \A h : TheList(h).op = "list" /\ TheList(h).size = ItemOf(h).size
                /\ TheList(h).limit = ItemOf(h).most
    /\ \A h : TheMore(h).op = "more" /\ TheMore(h).size = ItemOf(h).size
                /\ TheMore(h).limit = ItemOf(h).most
    /\ UntilEof.op = "rest" /\ PushEntry.op = "entry" /\ EntryTest.op = "test"
BY DEF Struct, List, More, TheList, TheMore, UntilEof, PushEntry, EntryTest

\* A plain message whose fixed part has been read is read.
LEMMA PlainDone ==
    ASSUME NEW h \in Payloads, h.magic, IsPlain(h, 0), h.size >= Length(h)
    PROVE  Done(h, <<>>, 0)
BY PlainAccepted DEF Done, IsPlain, Overlong

\* A structure that fits is read, and the next stage is reached.
LEMMA AfterStruct ==
    ASSUME NEW h \in Payloads, NEW t, NEW at \in Nat, NEW i, h.magic,
           Stage(h, t, at, i), t # <<>>, Head(t).op = "struct",
           at + Head(t).size <= h.size
    PROVE  Stage(h, Tail(t), at + Head(t).size, i) /\ Head(t).size \in Nat
<1>. USE Tuples, Operations, LengthType
<1>1. CASE Done(h, t, i) BY <1>1 DEF Done
<1>2. CASE OneStruct(h, t, at, i)
    <2>1. PICK n \in Nat : IsPlain(h, i) /\ t = <<Struct(n)>> /\ at + n = Length(h)
        BY <1>2 DEF OneStruct
    <2>2. Head(t).size = n /\ Tail(t) = <<>> /\ h.size >= Length(h) /\ i = 0
        BY <2>1, PayloadFields DEF IsPlain
    <2>3. Done(h, <<>>, i)
        BY <2>1, <2>2, PlainDone
    <2>. QED BY <2>2, <2>3 DEF Stage
<1>3. CASE TwoStructs(h, t, at, i)
    <2>1. PICK n \in Nat, m \in Nat :
             IsPlain(h, i) /\ t = <<Struct(n), Struct(m)>> /\ at + n + m = Length(h)
        BY <1>3 DEF TwoStructs
    <2>2. Head(t).size = n /\ Tail(t) = <<Struct(m)>>
        BY <2>1
    <2>3. OneStruct(h, Tail(t), at + n, i)
        BY <2>1, <2>2 DEF OneStruct
    <2>. QED BY <2>2, <2>3 DEF Stage
<1>4. CASE OnlyRest(h, t, at, i) BY <1>4 DEF OnlyRest
<1>5. CASE StructRest(h, t, at, i)
    <2>1. PICK n \in Nat : IsPlain(h, i) /\ t = <<Struct(n), UntilEof>> /\ at + n = Length(h)
        BY <1>5 DEF StructRest
    <2>2. Head(t).size = n /\ Tail(t) = <<UntilEof>>
        BY <2>1
    <2>3. OnlyRest(h, Tail(t), at + n, i)
        BY <2>1, <2>2 DEF OnlyRest
    <2>. QED BY <2>2, <2>3 DEF Stage
<1>6. CASE StructList(h, t, at, i)
    <2>1. PICK n \in Nat :
             IsList(h) /\ i = 0 /\ t = <<Struct(n), TheList(h)>> /\ at + n = Length(h)
        BY <1>6 DEF StructList
    <2>2. Head(t).size = n /\ Tail(t) = <<TheList(h)>>
        BY <2>1
    <2>3. AtList(h, Tail(t), at + n, i)
        BY <2>1, <2>2 DEF AtList
    <2>. QED BY <2>2, <2>3 DEF Stage
<1>7. CASE AtList(h, t, at, i) BY <1>7 DEF AtList
<1>8. CASE InList(h, t, at, i) BY <1>8 DEF InList
<1>9. CASE AtEntry(h, t, at, i) BY <1>9 DEF AtEntry
<1>10. CASE InEntry(h, t, at, i)
    <2>1. PICK n \in Nat : /\ IsPush(h, i) /\ KnownEntry(h)
                           /\ t = <<Struct(n), EntryTest>> /\ at + n = Length(h)
        BY <1>10 DEF InEntry
    <2>2. Head(t).size = n /\ Tail(t) = <<EntryTest>>
        BY <2>1
    <2>3. AtTest(h, Tail(t), at + n, i)
        BY <2>1, <2>2 DEF AtTest
    <2>. QED BY <2>2, <2>3 DEF Stage
<1>11. CASE InUnknown(h, t, at, i) BY <1>11 DEF InUnknown
<1>12. CASE AtTest(h, t, at, i) BY <1>12 DEF AtTest
<1>. QED BY <1>1, <1>2, <1>3, <1>4, <1>5, <1>6, <1>7, <1>8, <1>9, <1>10, <1>11, <1>12 DEF Stage

\* A structure that the payload cuts.
LEMMA StructCut ==
    ASSUME NEW h \in Payloads, NEW t, NEW at \in Nat, NEW i, h.magic,
           Stage(h, t, at, i), t # <<>>, Head(t).op = "struct",
           at + Head(t).size > h.size
    PROVE  Result(h) = "parse_error"
<1>. USE Tuples, Operations, LengthType
<1>0. SUFFICES at + Head(t).size <= Length(h) /\ Head(t).size \in Nat
    BY TooShort, PayloadFields
<1>1. CASE Done(h, t, i) BY <1>1 DEF Done
<1>2. CASE OneStruct(h, t, at, i) BY <1>2 DEF OneStruct
<1>3. CASE TwoStructs(h, t, at, i) BY <1>3 DEF TwoStructs
<1>4. CASE OnlyRest(h, t, at, i) BY <1>4 DEF OnlyRest
<1>5. CASE StructRest(h, t, at, i) BY <1>5 DEF StructRest
<1>6. CASE StructList(h, t, at, i) BY <1>6 DEF StructList
<1>7. CASE AtList(h, t, at, i) BY <1>7 DEF AtList
<1>8. CASE InList(h, t, at, i) BY <1>8 DEF InList
<1>9. CASE AtEntry(h, t, at, i) BY <1>9 DEF AtEntry
<1>10. CASE InEntry(h, t, at, i) BY <1>10 DEF InEntry
<1>11. CASE InUnknown(h, t, at, i) BY <1>11 DEF InUnknown
<1>12. CASE AtTest(h, t, at, i) BY <1>12 DEF AtTest
<1>. QED BY <1>1, <1>2, <1>3, <1>4, <1>5, <1>6, <1>7, <1>8, <1>9, <1>10, <1>11, <1>12 DEF Stage

\* What is at the head says which stage it is.
LEMMA StageByHead ==
    ASSUME NEW h, NEW t, NEW at, NEW i, Stage(h, t, at, i)
    PROVE  /\ t = <<>> => Done(h, t, i)
           /\ t # <<>> /\ Head(t).op = "rest" =>
                OnlyRest(h, t, at, i) \/ InUnknown(h, t, at, i)
           /\ t # <<>> /\ Head(t).op = "list" => AtList(h, t, at, i)
           /\ t # <<>> /\ Head(t).op = "more" => InList(h, t, at, i)
           /\ t # <<>> /\ Head(t).op = "entry" => AtEntry(h, t, at, i)
           /\ t # <<>> /\ Head(t).op = "test" => AtTest(h, t, at, i)
<1>. USE Tuples, Operations
<1>1. CASE Done(h, t, i) BY <1>1 DEF Done
<1>2. CASE OneStruct(h, t, at, i) BY <1>2 DEF OneStruct
<1>3. CASE TwoStructs(h, t, at, i) BY <1>3 DEF TwoStructs
<1>4. CASE OnlyRest(h, t, at, i) BY <1>4 DEF OnlyRest
<1>5. CASE StructRest(h, t, at, i) BY <1>5 DEF StructRest
<1>6. CASE StructList(h, t, at, i) BY <1>6 DEF StructList
<1>7. CASE AtList(h, t, at, i) BY <1>7 DEF AtList
<1>8. CASE InList(h, t, at, i) BY <1>8 DEF InList
<1>9. CASE AtEntry(h, t, at, i) BY <1>9 DEF AtEntry
<1>10. CASE InEntry(h, t, at, i) BY <1>10 DEF InEntry
<1>11. CASE InUnknown(h, t, at, i) BY <1>11 DEF InUnknown
<1>12. CASE AtTest(h, t, at, i) BY <1>12 DEF AtTest
<1>. QED BY <1>1, <1>2, <1>3, <1>4, <1>5, <1>6, <1>7, <1>8, <1>9, <1>10, <1>11, <1>12 DEF Stage

\* What an unknown block or message takes is all that is left.
LEMMA AfterRest ==
    ASSUME NEW h \in Payloads, NEW t, NEW at \in 0..h.size, NEW i, h.magic,
           Stage(h, t, at, i), t # <<>>, Head(t).op = "rest"
    PROVE  Stage(h, Tail(t), h.size, i)
<1>1. CASE OnlyRest(h, t, at, i)
    <2>1. Tail(t) = <<>> /\ i = 0 /\ h.size >= Length(h) /\ IsPlain(h, 0)
        BY <1>1, Tuples, PayloadFields, LengthType DEF OnlyRest, IsPlain
    <2>2. Done(h, <<>>, 0)
        BY <2>1, PlainDone
    <2>. QED BY <2>1, <2>2 DEF Stage
<1>2. CASE InUnknown(h, t, at, i)
    <2>1. Tail(t) = <<EntryTest>> /\ h.size >= Length(h)
        BY <1>2, Tuples, PayloadFields, LengthType DEF InUnknown
    <2>2. AtTest(h, Tail(t), h.size, i)
        BY <1>2, <2>1 DEF InUnknown, AtTest
    <2>. QED BY <2>2 DEF Stage
<1>. QED BY <1>1, <1>2, StageByHead

\* A list begins, unless nothing is left for it.
LEMMA ListBegins ==
    ASSUME NEW h \in Payloads, NEW t, NEW at \in 0..h.size, NEW i, h.magic,
           Stage(h, t, at, i), t # <<>>, Head(t).op = "list"
    PROVE  /\ Tail(t) = <<>>
           /\ at = h.size => Stage(h, <<>>, at, i)
           /\ at # h.size =>
                Stage(h, <<More(Head(t).size, Head(t).limit)>>, at, i)
<1>1. /\ IsList(h) /\ i = 0 /\ t = <<TheList(h)>> /\ at = Length(h)
    BY StageByHead DEF AtList
<1>2. /\ Tail(t) = <<>>
      /\ More(Head(t).size, Head(t).limit) = TheMore(h)
    BY <1>1, Tuples, Operations DEF TheMore
<1>3. /\ h.size \in Nat /\ Length(h) \in Nat
      /\ ItemOf(h).size \in {18, 32, 64} /\ ItemOf(h).most \in Nat
    BY <1>1, PayloadFields, LengthType, ItemType DEF IsList
<1>4. ASSUME at = h.size
      PROVE  Stage(h, <<>>, at, i)
    <2>1. Length(h) + 0 * ItemOf(h).size = h.size
        BY <1>1, <1>3, <1>4
    <2>2. Readable(h) /\ ItemsRead(h) = 0
        BY <1>1, <1>3, <2>1, ListEnded DEF IsList
    <2>3. ~Overlong(h)
        BY <1>1 DEF IsList, Overlong
    <2>. QED BY <1>1, <2>2, <2>3 DEF Stage, Done
<1>5. ASSUME at # h.size
      PROVE  Stage(h, <<TheMore(h)>>, at, i)
    <2>1. at = Length(h) + i * ItemOf(h).size /\ at < h.size
        BY <1>1, <1>3, <1>5
    <2>2. ItemOf(h).most = 0 \/ i < ItemOf(h).most
        BY <1>1, <1>3
    <2>. QED BY <1>1, <2>1, <2>2 DEF Stage, InList
<1>. QED BY <1>2, <1>4, <1>5

\* An item is read: the list ends at its count or at the end of the payload, or
\* goes on.
LEMMA AfterItem ==
    ASSUME NEW h \in Payloads, NEW t, NEW at \in 0..h.size, NEW i \in Nat, h.magic,
           Stage(h, t, at, i), t # <<>>, Head(t).op = "more",
           at + Head(t).size <= h.size
    PROVE  /\ Head(t).size \in Nat
           /\ (i + 1 = Head(t).limit \/ at + Head(t).size = h.size) =>
                Stage(h, Tail(t), at + Head(t).size, i + 1)
           /\ ~(i + 1 = Head(t).limit \/ at + Head(t).size = h.size) =>
                Stage(h, t, at + Head(t).size, i + 1)
<1>. DEFINE k == ItemOf(h).size
            m == ItemOf(h).most
            e == at + Head(t).size
<1>1. /\ IsList(h) /\ t = <<TheMore(h)>>
      /\ at = Length(h) + i * k /\ at < h.size
      /\ m = 0 \/ i < m
    BY StageByHead DEF InList
<1>2. Head(t).size = k /\ Head(t).limit = m /\ Tail(t) = <<>>
    BY <1>1, Tuples, Operations
<1>3. h.size \in Nat /\ Length(h) \in Nat /\ k \in {18, 32, 64} /\ m \in Nat
    BY <1>1, PayloadFields, LengthType, ItemType DEF IsList
<1>4. (i + 1) * k = i * k + k /\ i * k \in Nat
    BY <1>3, Order
<1>5. e = Length(h) + (i + 1) * k /\ e <= h.size
    BY <1>1, <1>2, <1>3, <1>4
<1>6. m = 0 \/ i + 1 <= m
    BY <1>1, <1>3
<1>7. ASSUME i + 1 = m \/ e = h.size
      PROVE  Stage(h, Tail(t), e, i + 1)
    <2>1. \/ i + 1 = m /\ i + 1 # 0
          \/ Length(h) + (i + 1) * k = h.size
        BY <1>5, <1>7
    <2>2. Length(h) + (i + 1) * k <= h.size
        BY <1>5
    <2>3. Readable(h) /\ ItemsRead(h) = i + 1
        BY <1>1, <1>6, <2>1, <2>2, ListEnded DEF IsList
    <2>4. ~Overlong(h)
        BY <1>1 DEF IsList, Overlong
    <2>. QED BY <1>2, <2>3, <2>4 DEF Stage, Done
<1>8. ASSUME ~(i + 1 = m \/ e = h.size)
      PROVE  Stage(h, t, e, i + 1)
    <2>1. e < h.size
        BY <1>1, <1>2, <1>3, <1>5, <1>8
    <2>2. m = 0 \/ i + 1 < m
        BY <1>3, <1>6, <1>8
    <2>. QED BY <1>1, <1>5, <2>1, <2>2 DEF Stage, InList
<1>. QED BY <1>2, <1>3, <1>7, <1>8

\* An item that does not fit is a parse error by Result, too.
LEMMA ItemCut ==
    ASSUME NEW h \in Payloads, NEW t, NEW at \in 0..h.size, NEW i \in Nat, h.magic,
           Stage(h, t, at, i), t # <<>>, Head(t).op = "more",
           at + Head(t).size > h.size
    PROVE  Result(h) = "parse_error"
<1>1. /\ IsList(h) /\ t = <<TheMore(h)>>
      /\ at = Length(h) + i * ItemOf(h).size /\ at < h.size
      /\ ItemOf(h).most = 0 \/ i < ItemOf(h).most
    BY StageByHead DEF InList
<1>2. Head(t).size = ItemOf(h).size
    BY <1>1, Tuples, Operations
<1>3. ItemOf(h).size \in {18, 32, 64} /\ h.size \in Nat
    BY <1>1, ItemType, PayloadFields DEF IsList
<1>4. h.size < Length(h) + i * ItemOf(h).size + ItemOf(h).size
    BY <1>1, <1>2, <1>3
<1>. QED BY <1>1, <1>4, ListCut DEF IsList

\* The type of a bulk_push entry is read.
LEMMA AfterType ==
    ASSUME NEW h \in Payloads, NEW t, NEW at \in 0..h.size, NEW i,
           Stage(h, t, at, i), t # <<>>, Head(t).op = "entry"
    PROVE  /\ at + 1 <= h.size =>
                Stage(h, <<BlockSelector(h.entry), EntryTest>> \o Tail(t), at + 1, i)
           /\ at + 1 > h.size => Result(h) = "parse_error"
<1>1. AtEntry(h, t, at, i)
    BY StageByHead
<1>2. /\ <<BlockSelector(h.entry), EntryTest>> \o Tail(t)
           = <<BlockSelector(h.entry), EntryTest>>
    BY <1>1, Tuples DEF AtEntry
<1>3. CASE KnownEntry(h)
    <2>1. BlockSelector(h.entry) = Struct(BlockSize[h.entry]) /\ BlockSize[h.entry] \in Nat
        BY <1>3, BlockSizes DEF KnownEntry, BlockSelector
    <2>2. InEntry(h, <<BlockSelector(h.entry), EntryTest>>, at + 1, i)
        BY <1>1, <1>3, <2>1 DEF AtEntry, InEntry
    <2>. QED BY <1>1, <1>2, <2>2, TooShort, PayloadFields, LengthType DEF Stage, AtEntry
<1>4. CASE ~KnownEntry(h)
    <2>1. BlockSelector(h.entry) = UntilEof
        BY <1>4 DEF KnownEntry, BlockSelector
    <2>2. InUnknown(h, <<BlockSelector(h.entry), EntryTest>>, at + 1, i)
        BY <1>1, <1>4, <2>1 DEF AtEntry, InUnknown
    <2>. QED BY <1>1, <1>2, <2>2, TooShort, PayloadFields, LengthType DEF Stage, AtEntry
<1>. QED BY <1>3, <1>4

\* After its entry a bulk_push is done with or lost.
LEMMA AfterTest ==
    ASSUME NEW h \in Payloads, NEW t, NEW at \in 0..h.size, NEW i, h.magic,
           Stage(h, t, at, i), t # <<>>, Head(t).op = "test"
    PROVE  /\ at = h.size => Stage(h, Tail(t), at, i)
           /\ at # h.size => Result(h) = "unknown_exception"
<1>1. AtTest(h, t, at, i)
    BY StageByHead
<1>2. /\ Tail(t) = <<>> /\ h.size >= Length(h) /\ i = 0 /\ h.type = "bulk_push"
      /\ h.size \in Nat /\ Length(h) \in Nat
    BY <1>1, Tuples, PayloadFields, LengthType DEF AtTest, IsPush
<1>3. Readable(h) /\ ItemsRead(h) = 0
    BY <1>1, <1>2, PlainAccepted DEF AtTest, IsPush
<1>4. ASSUME at = h.size
      PROVE  ~Overlong(h)
    BY <1>1, <1>2, <1>4 DEF AtTest, Overlong, KnownEntry
<1>5. ASSUME at # h.size
      PROVE  Overlong(h)
    <2>1. KnownEntry(h) /\ at = Length(h)
        BY <1>1, <1>5 DEF AtTest
    <2>2. h.size > Length(h)
        BY <1>2, <1>5, <2>1
    <2>. QED BY <1>2, <2>1, <2>2 DEF Overlong, KnownEntry
<1>6. Overlong(h) => Result(h) = "unknown_exception"
    BY <1>2, <1>3 DEF Result, AllTypes
<1>. QED BY <1>2, <1>3, <1>4, <1>5, <1>6 DEF Stage, Done

\* What the body begins with, right behind the header.
LEMMA BodyStage ==
    ASSUME NEW h \in Payloads
    PROVE  \/ Body(h) = <<>> /\ IsPlain(h, 0) /\ Length(h) = 8
           \/ OneStruct(h, Body(h), 8, 0) \/ TwoStructs(h, Body(h), 8, 0)
           \/ OnlyRest(h, Body(h), 8, 0) \/ StructRest(h, Body(h), 8, 0)
           \/ StructList(h, Body(h), 8, 0) \/ AtList(h, Body(h), 8, 0)
           \/ AtEntry(h, Body(h), 8, 0)
<1>1. HeaderSize = 8
    BY DEF HeaderSize
<1>2. CASE h.type = "keepalive"
    <2>1. Body(h) = <<TheList(h)>> /\ Length(h) = 8 /\ ItemOf(h).size # 0
        BY <1>1, <1>2 DEF Body, Length, Fixed, ItemOf, TheList, PeerSize, MaxPeers
    <2>. QED BY <1>2, <2>1 DEF AtList, IsList
<1>3. CASE h.type \in {"publish", "confirm_req"} /\ ~(h.type = "confirm_req" /\ h.block = NotABlock)
    <2>1. Body(h) = <<BlockSelector(h.block)>> /\ IsPlain(h, 0)
        BY <1>3 DEF Body, ItemOf, IsPlain
    <2>2. CASE h.block \in DOMAIN BlockSize
        <3>1. Length(h) = 8 + BlockSize[h.block]
            BY <1>1, <1>3, <2>2, BlockSizes DEF Length, Fixed
        <3>2. BlockSelector(h.block) = Struct(BlockSize[h.block])
            BY <2>2 DEF BlockSelector
        <3>3. OneStruct(h, Body(h), 8, 0)
            BY <2>1, <2>2, <3>1, <3>2, BlockSizes DEF OneStruct
        <3>. QED BY <3>3
    <2>3. CASE h.block \notin DOMAIN BlockSize
        <3>1. Length(h) = 8
            BY <1>1, <1>3, <2>3 DEF Length, Fixed
        <3>2. BlockSelector(h.block) = UntilEof
            BY <2>3 DEF BlockSelector
        <3>. QED BY <2>1, <3>1, <3>2 DEF OnlyRest
    <2>. QED BY <2>2, <2>3
<1>4. CASE h.type = "confirm_req" /\ h.block = NotABlock
    <2>1. NotABlock \notin DOMAIN BlockSize
        BY BlockSizes DEF NotABlock
    <2>2. Body(h) = <<TheList(h)>> /\ Length(h) = 8 /\ ItemOf(h).size # 0
        BY <1>1, <1>4, <2>1 DEF Body, Length, Fixed, ItemOf, TheList, HashPairSize
    <2>. QED BY <1>4, <2>2 DEF AtList, IsList
<1>5. CASE h.type = "confirm_ack" /\ h.block = NotABlock
    <2>1. NotABlock \notin DOMAIN BlockSize
        BY BlockSizes DEF NotABlock
    <2>2. /\ Body(h) = <<Struct(104), TheList(h)>> /\ Length(h) = 112
          /\ ItemOf(h).size # 0
        BY <1>1, <1>5, <2>1 DEF Body, BodySize, Length, Fixed, ItemOf, TheList, HashSize
    <2>3. 8 + 104 = Length(h) /\ 104 \in Nat
        BY <2>2
    <2>. QED BY <1>5, <2>2, <2>3 DEF StructList, IsList
<1>6. CASE h.type = "confirm_ack" /\ h.block # NotABlock
    <2>1. Body(h) = <<Struct(104), BlockSelector(h.block)>> /\ IsPlain(h, 0)
        BY <1>6 DEF Body, BodySize, ItemOf, IsPlain
    <2>2. CASE h.block \in DOMAIN BlockSize
        <3>1. 8 + 104 + BlockSize[h.block] = Length(h) /\ 104 \in Nat
            BY <1>1, <1>6, <2>2, BlockSizes DEF Length, Fixed
        <3>2. BlockSelector(h.block) = Struct(BlockSize[h.block])
            BY <2>2 DEF BlockSelector
        <3>3. TwoStructs(h, Body(h), 8, 0)
            BY <2>1, <2>2, <3>1, <3>2, BlockSizes DEF TwoStructs
        <3>. QED BY <3>3
    <2>3. CASE h.block \notin DOMAIN BlockSize
        <3>1. 8 + 104 = Length(h) /\ 104 \in Nat
            BY <1>1, <1>6, <2>3 DEF Length, Fixed
        <3>2. BlockSelector(h.block) = UntilEof
            BY <2>3 DEF BlockSelector
        <3>3. StructRest(h, Body(h), 8, 0)
            BY <2>1, <3>1, <3>2 DEF StructRest
        <3>. QED BY <3>3
    <2>. QED BY <2>2, <2>3
<1>7. CASE h.type = "bulk_pull"
    <2>1. IsPlain(h, 0)
        BY <1>7 DEF ItemOf, IsPlain
    <2>2. CASE h.bit0
        <3>1. Body(h) = <<Struct(64), Struct(8)>> /\ 8 + 64 + 8 = Length(h)
            BY <1>1, <1>7, <2>2, Joined DEF Body, BodySize, Length, Fixed
        <3>2. TwoStructs(h, Body(h), 8, 0)
            BY <2>1, <3>1 DEF TwoStructs
        <3>. QED BY <3>2
    <2>3. CASE ~h.bit0
        <3>1. Body(h) = <<Struct(64)>> /\ 8 + 64 = Length(h)
            BY <1>1, <1>7, <2>3, Tuples DEF Body, BodySize, Length, Fixed
        <3>2. OneStruct(h, Body(h), 8, 0)
            BY <2>1, <3>1 DEF OneStruct
        <3>. QED BY <3>2
    <2>. QED BY <2>2, <2>3
<1>8. CASE h.type = "bulk_push"
    <2>1. IsPush(h, 0) /\ Body(h) = <<PushEntry>>
        BY <1>8 DEF ItemOf, IsPush, Body
    <2>2. CASE KnownEntry(h)
        <3>1. 8 + 1 + BlockSize[h.entry] = Length(h) /\ BlockSize[h.entry] \in Nat
            BY <1>1, <1>8, <2>2, BlockSizes DEF Length, Fixed, KnownEntry
        <3>. QED BY <2>1, <2>2, <3>1 DEF AtEntry
    <2>3. CASE ~KnownEntry(h)
        <3>1. 8 + 1 = Length(h)
            BY <1>1, <1>8, <2>3 DEF Length, Fixed, KnownEntry
        <3>. QED BY <2>1, <2>3, <3>1 DEF AtEntry
    <2>. QED BY <2>2, <2>3
<1>9. CASE h.type = "node_id_handshake"
    <2>1. IsPlain(h, 0)
        BY <1>9 DEF ItemOf, IsPlain
    <2>2. CASE h.bit0 /\ h.bit1
        <3>1. Body(h) = <<Struct(32), Struct(96)>> /\ 8 + 32 + 96 = Length(h)
            BY <1>1, <1>9, <2>2, Joined DEF Body, BodySize, Length, Fixed
        <3>2. TwoStructs(h, Body(h), 8, 0)
            BY <2>1, <3>1 DEF TwoStructs
        <3>. QED BY <3>2
    <2>3. CASE h.bit0 /\ ~h.bit1
        <3>1. Body(h) = <<Struct(32)>> /\ 8 + 32 = Length(h)
            BY <1>1, <1>9, <2>3, Tuples DEF Body, BodySize, Length, Fixed
        <3>2. OneStruct(h, Body(h), 8, 0)
            BY <2>1, <3>1 DEF OneStruct
        <3>. QED BY <3>2
    <2>4. CASE ~h.bit0 /\ h.bit1
        <3>1. Body(h) = <<Struct(96)>> /\ 8 + 96 = Length(h)
            BY <1>1, <1>9, <2>4 DEF Body, BodySize, Length, Fixed
        <3>2. OneStruct(h, Body(h), 8, 0)
            BY <2>1, <3>1 DEF OneStruct
        <3>. QED BY <3>2
    <2>5. CASE ~h.bit0 /\ ~h.bit1
        <3>1. Body(h) = <<>> /\ Length(h) = 8
            BY <1>1, <1>9, <2>5, Tuples DEF Body, Length, Fixed
        <3>. QED BY <2>1, <3>1
    <2>. QED BY <2>2, <2>3, <2>4, <2>5
<1>10. CASE h.type = "telemetry_req"
    <2>1. IsPlain(h, 0) /\ Body(h) = <<>> /\ Length(h) = 8
        BY <1>1, <1>10 DEF ItemOf, IsPlain, Body, Length, Fixed
    <2>. QED BY <2>1
<1>11. CASE h.type \in {"bulk_pull_blocks", "bulk_pull_account", "frontier_req", "telemetry_ack"}
    <2>1. IsPlain(h, 0) /\ Body(h) = <<Struct(BodySize[h.type])>>
        BY <1>11 DEF ItemOf, IsPlain, Body
    <2>2. BodySize[h.type] \in Nat /\ 8 + BodySize[h.type] = Length(h)
        BY <1>1, <1>11 DEF BodySize, Length, Fixed
    <2>3. OneStruct(h, Body(h), 8, 0)
        BY <2>1, <2>2 DEF OneStruct
    <2>. QED BY <2>3
<1>12. CASE h.type \notin {"keepalive", "publish", "confirm_req", "confirm_ack", "bulk_pull",
                           "bulk_push", "node_id_handshake", "telemetry_req",
                           "bulk_pull_blocks", "bulk_pull_account", "frontier_req",
                           "telemetry_ack"}
    <2>1. IsPlain(h, 0) /\ Body(h) = <<UntilEof>> /\ Length(h) = 8
        BY <1>1, <1>12 DEF ItemOf, IsPlain, Body, Length, Fixed
    <2>. QED BY <2>1 DEF OnlyRest
<1>. QED BY <1>2, <1>3, <1>4, <1>5, <1>6, <1>7, <1>8, <1>9, <1>10, <1>11, <1>12

\* What is left is a sequence of operations.
Ops == [op : {"struct", "list", "more", "rest", "entry", "test"}, size : Nat, limit : Nat]

\* The operations are operations.
LEMMA OpsMade ==
    /\ \A n \in Nat : Struct(n) \in Ops
    /\ \A n, m \in Nat : List(n, m) \in Ops /\ More(n, m) \in Ops
    /\ UntilEof \in Ops /\ PushEntry \in Ops /\ EntryTest \in Ops
BY DEF Ops, Struct, List, More, UntilEof, PushEntry, EntryTest

\* The next operation has a size.
LEMMA HeadTyped ==
    ASSUME NEW t \in Seq(Ops), t # <<>>
    PROVE  Head(t).size \in Nat
<1>1. Head(t) \in Ops
    OBVIOUS
<1>. QED BY <1>1 DEF Ops

\* At every stage a list of operations is left.
LEMMA StageTyped ==
    ASSUME NEW h \in Payloads, NEW t, NEW at, NEW i, Stage(h, t, at, i)
    PROVE  t \in Seq(Ops)
<1>1. TheList(h) \in Ops /\ TheMore(h) \in Ops
    BY OpsMade, ItemType DEF TheList, TheMore
<1>2. /\ \A x \in Ops : <<x>> \in Seq(Ops)
      /\ \A x, y \in Ops : <<x, y>> \in Seq(Ops)
      /\ <<>> \in Seq(Ops)
    OBVIOUS
<1>. USE OpsMade, <1>1, <1>2
<1>3. CASE Done(h, t, i) BY <1>3 DEF Done
<1>4. CASE OneStruct(h, t, at, i) BY <1>4 DEF OneStruct
<1>5. CASE TwoStructs(h, t, at, i) BY <1>5 DEF TwoStructs
<1>6. CASE OnlyRest(h, t, at, i) BY <1>6 DEF OnlyRest
<1>7. CASE StructRest(h, t, at, i) BY <1>7 DEF StructRest
<1>8. CASE StructList(h, t, at, i) BY <1>8 DEF StructList
<1>9. CASE AtList(h, t, at, i) BY <1>9 DEF AtList
<1>10. CASE InList(h, t, at, i) BY <1>10 DEF InList
<1>11. CASE AtEntry(h, t, at, i) BY <1>11 DEF AtEntry
<1>12. CASE InEntry(h, t, at, i) BY <1>12 DEF InEntry
<1>13. CASE InUnknown(h, t, at, i) BY <1>13 DEF InUnknown
<1>14. CASE AtTest(h, t, at, i) BY <1>14 DEF AtTest
<1>. QED BY <1>3, <1>4, <1>5, <1>6, <1>7, <1>8, <1>9, <1>10, <1>11, <1>12, <1>13, <1>14
         DEF Stage

\* After the header, each type of message is at its first stage.
LEMMA HeaderRead ==
    ASSUME NEW h \in Payloads, h.magic
    PROVE  /\ Body(h) \in Seq(Ops)
           /\ h.size >= 8 => Stage(h, Body(h), 8, 0)
<1>1. CASE Body(h) = <<>> /\ IsPlain(h, 0) /\ Length(h) = 8
    <2>1. h.size >= 8 => Done(h, Body(h), 0)
        BY <1>1, PlainDone
    <2>. QED BY <1>1, <2>1 DEF Stage
<1>2. CASE Stage(h, Body(h), 8, 0)
    BY <1>2, StageTyped
<1>. QED BY <1>1, <1>2, BodyStage DEF Stage

-----------------------------------------------------------------------------
\* What every state of an unfinished reading has.
LEMMA ReadingFacts ==
    ASSUME IInv, outcome = "reading", todo # <<>>
    PROVE  /\ payload \in Payloads /\ payload.magic /\ payload.size \in Nat
           /\ pos \in 0..payload.size /\ pos \in Nat /\ pos > 0 /\ items \in Nat
           /\ Stage(payload, todo, pos, items)
           /\ todo \in Seq(Ops) /\ Tail(todo) \in Seq(Ops)
<1>1. payload \in Payloads /\ pos \in 0..payload.size /\ items \in Nat
    BY DEF IInv
<1>2. payload.size \in Nat
    BY <1>1, PayloadFields
<1>3. pos # 0 /\ payload.magic /\ Stage(payload, todo, pos, items)
    BY DEF IInv
<1>4. todo \in Seq(Ops) /\ Tail(todo) \in Seq(Ops)
    BY DEF IInv, Ops
<1>. QED BY <1>1, <1>2, <1>3, <1>4

\* A step that goes on reading keeps the invariant if it ends in a stage.
LEMMA GoesOn ==
    ASSUME payload' = payload, payload \in Payloads, payload.magic,
           pos' \in 1..payload.size, items' \in Nat, outcome' = "reading",
           Stage(payload, todo', pos', items')
    PROVE  IInv'
<1>1. todo' \in Seq(Ops)
    BY StageTyped
<1>2. pos' # 0 /\ pos' \in 0..payload.size
    BY PayloadFields
<1>. QED BY <1>1, <1>2 DEF IInv, Ops, Outcomes, ReadsAs

\* A step that ends the reading keeps it if Result is the outcome.
LEMMA Ends ==
    ASSUME payload' = payload, payload \in Payloads, pos' \in 0..payload.size,
           items' \in Nat, todo' \in Seq(Ops),
           outcome' \in Outcomes, outcome' # "reading", outcome' = Result(payload),
           outcome' \in {"stored", "ignored"} => items' = ItemsRead(payload)
    PROVE  IInv'
BY DEF IInv, Ops, ReadsAs

\* The header is read, or the payload is too short or not a message.
LEMMA HeaderStep == IInv /\ ReadHeader => IInv'
<1>. SUFFICES ASSUME IInv, ReadHeader PROVE IInv'
    OBVIOUS
<1>1. /\ payload' = payload /\ payload \in Payloads /\ items' = 0
      /\ pos = 0 /\ todo = <<>> /\ outcome = "reading"
    BY DEF ReadHeader, IInv
<1>2. payload.size \in Nat /\ HeaderSize = 8 /\ "parse_error" \in Outcomes
    BY <1>1, PayloadFields DEF HeaderSize, Outcomes
<1>3. CASE payload.magic /\ payload.size >= 8
    <2>1. pos' = 8 /\ outcome' = "reading" /\ todo' = Body(payload)
        BY <1>1, <1>2, <1>3 DEF ReadHeader, Read
    <2>2. Stage(payload, todo', pos', items')
        BY <1>1, <1>3, <2>1, HeaderRead
    <2>. QED BY <1>1, <1>2, <1>3, <2>1, <2>2, GoesOn
<1>4. CASE payload.magic /\ payload.size < 8
    <2>1. pos' = 0 /\ outcome' = "parse_error" /\ todo' = Body(payload)
        BY <1>1, <1>2, <1>4 DEF ReadHeader, Read
    <2>2. payload.size < Length(payload)
        BY <1>1, <1>2, <1>4, LengthType
    <2>3. Result(payload) = "parse_error"
        BY <1>1, <2>2, TooShort
    <2>4. todo' \in Seq(Ops)
        BY <1>1, <1>4, <2>1, HeaderRead
    <2>. QED BY <1>1, <1>2, <2>1, <2>3, <2>4, Ends
<1>5. CASE ~payload.magic
    <2>1. pos' = 0 /\ outcome' = "parse_error" /\ todo' = <<>>
        BY <1>1, <1>5 DEF ReadHeader
    <2>2. Result(payload) = "parse_error"
        BY <1>5 DEF Result, Readable, Full
    <2>3. todo' \in Seq(Ops)
        BY <2>1
    <2>. QED BY <1>1, <1>2, <2>1, <2>2, <2>3, Ends
<1>. QED BY <1>2, <1>3, <1>4, <1>5

\* A structure is read, or the payload ends in it.
LEMMA StructStep == IInv /\ ReadStruct => IInv'
<1>. SUFFICES ASSUME IInv, ReadStruct PROVE IInv'
    OBVIOUS
<1>. DEFINE n == Head(todo).size
<1>1. /\ outcome = "reading" /\ todo # <<>> /\ Head(todo).op = "struct"
      /\ payload' = payload /\ items' = items /\ todo' = Tail(todo)
    BY DEF ReadStruct, Doing
<1>2. /\ payload \in Payloads /\ payload.magic /\ payload.size \in Nat
      /\ pos \in 0..payload.size /\ pos \in Nat /\ pos > 0 /\ items \in Nat
      /\ Stage(payload, todo, pos, items) /\ Tail(todo) \in Seq(Ops)
    BY <1>1, ReadingFacts
<1>3. CASE pos + n <= payload.size
    <2>1. pos' = pos + n /\ outcome' = "reading"
        BY <1>1, <1>3 DEF ReadStruct, Read
    <2>2. Stage(payload, todo', pos', items') /\ n \in Nat
        BY <1>1, <1>2, <1>3, <2>1, AfterStruct
    <2>3. pos' \in 1..payload.size
        BY <1>2, <1>3, <2>1, <2>2
    <2>. QED BY <1>1, <1>2, <2>1, <2>2, <2>3, GoesOn
<1>4. CASE ~(pos + n <= payload.size)
    <2>1. pos' = pos /\ outcome' = "parse_error"
        BY <1>4 DEF ReadStruct, Read
    <2>2. n \in Nat
        BY <1>1, HeadTyped, ReadingFacts
    <2>3. pos + n > payload.size
        BY <1>2, <1>4, <2>2
    <2>4. Result(payload) = "parse_error"
        BY <1>1, <1>2, <2>3, StructCut
    <2>. QED BY <1>1, <1>2, <2>1, <2>4, Ends DEF Outcomes
<1>. QED BY <1>3, <1>4

\* The rest of the payload is read.
LEMMA RestStep == IInv /\ ReadRest => IInv'
<1>. SUFFICES ASSUME IInv, ReadRest PROVE IInv'
    OBVIOUS
<1>1. /\ outcome = "reading" /\ todo # <<>> /\ Head(todo).op = "rest"
      /\ payload' = payload /\ items' = items /\ todo' = Tail(todo)
      /\ pos' = payload.size /\ outcome' = "reading"
    BY DEF ReadRest, Doing
<1>2. /\ payload \in Payloads /\ payload.magic /\ payload.size \in Nat
      /\ pos \in 0..payload.size /\ pos \in Nat /\ pos > 0 /\ items \in Nat
      /\ Stage(payload, todo, pos, items)
    BY <1>1, ReadingFacts
<1>3. Stage(payload, todo', pos', items')
    BY <1>1, <1>2, AfterRest
<1>4. pos' \in 1..payload.size
    BY <1>1, <1>2
<1>. QED BY <1>1, <1>2, <1>3, <1>4, GoesOn

\* A list begins: it has a first item, or the payload is over.
LEMMA ListStep == IInv /\ ReadList => IInv'
<1>. SUFFICES ASSUME IInv, ReadList PROVE IInv'
    OBVIOUS
<1>. DEFINE more == More(Head(todo).size, Head(todo).limit)
<1>1. /\ outcome = "reading" /\ todo # <<>> /\ Head(todo).op = "list"
      /\ payload' = payload /\ items' = items /\ pos' = pos /\ outcome' = "reading"
      /\ todo' = (IF pos = payload.size THEN <<>> ELSE <<more>>) \o Tail(todo)
    BY DEF ReadList, Doing, IsEof
<1>2. /\ payload \in Payloads /\ payload.magic /\ payload.size \in Nat
      /\ pos \in 0..payload.size /\ pos \in Nat /\ pos > 0 /\ items \in Nat
      /\ Stage(payload, todo, pos, items)
    BY <1>1, ReadingFacts
<1>3. /\ Tail(todo) = <<>>
      /\ pos = payload.size => Stage(payload, <<>>, pos, items)
      /\ pos # payload.size => Stage(payload, <<more>>, pos, items)
    BY <1>1, <1>2, ListBegins
<1>. HIDE DEF more
<1>4. todo' = IF pos = payload.size THEN <<>> ELSE <<more>>
    BY <1>1, <1>3, Tuples
<1>5. Stage(payload, todo', pos', items')
    BY <1>1, <1>3, <1>4
<1>6. pos' \in 1..payload.size
    BY <1>1, <1>2
<1>. QED BY <1>1, <1>2, <1>5, <1>6, GoesOn

\* An item is read, and then the next one, or the list ends.
LEMMA ItemStep == IInv /\ ReadItem => IInv'
<1>. SUFFICES ASSUME IInv, ReadItem PROVE IInv'
    OBVIOUS
<1>. DEFINE n == Head(todo).size
            ended == items + 1 = Head(todo).limit \/ pos + n = payload.size
<1>1. /\ outcome = "reading" /\ todo # <<>> /\ Head(todo).op = "more"
      /\ payload' = payload /\ items' = items + 1
      /\ todo' = IF ended THEN Tail(todo) ELSE todo
    BY DEF ReadItem, Doing, ListEnds, IsEof
<1>2. /\ payload \in Payloads /\ payload.magic /\ payload.size \in Nat
      /\ pos \in 0..payload.size /\ pos \in Nat /\ pos > 0 /\ items \in Nat
      /\ Stage(payload, todo, pos, items)
      /\ todo \in Seq(Ops) /\ Tail(todo) \in Seq(Ops)
    BY <1>1, ReadingFacts
<1>3. n \in Nat
    BY <1>1, <1>2, HeadTyped
<1>4. CASE pos + n <= payload.size
    <2>1. pos' = pos + n /\ outcome' = "reading"
        BY <1>1, <1>4 DEF ReadItem, Read
    <2>2. /\ ended => Stage(payload, Tail(todo), pos + n, items + 1)
          /\ ~ended => Stage(payload, todo, pos + n, items + 1)
        BY <1>1, <1>2, <1>4, AfterItem
    <2>3. pos' \in 1..payload.size /\ items' \in Nat
        BY <1>1, <1>2, <1>3, <1>4, <2>1
    <2>. HIDE DEF ended, n
    <2>4. Stage(payload, todo', pos', items')
        BY <1>1, <2>1, <2>2
    <2>. QED BY <1>1, <1>2, <2>1, <2>3, <2>4, GoesOn
<1>5. CASE ~(pos + n <= payload.size)
    <2>1. pos' = pos /\ outcome' = "parse_error"
        BY <1>5 DEF ReadItem, Read
    <2>2. pos + n > payload.size
        BY <1>2, <1>3, <1>5
    <2>3. Result(payload) = "parse_error"
        BY <1>1, <1>2, <2>2, ItemCut
    <2>4. todo' \in Seq(Ops) /\ items' \in Nat
        BY <1>1, <1>2
    <2>. QED BY <1>1, <1>2, <2>1, <2>3, <2>4, Ends DEF Outcomes
<1>. QED BY <1>4, <1>5

\* The type of the entry in a bulk_push is read; its block is next.
LEMMA EntryStep == IInv /\ ReadEntry => IInv'
<1>. SUFFICES ASSUME IInv, ReadEntry PROVE IInv'
    OBVIOUS
<1>. DEFINE next == <<BlockSelector(payload.entry), EntryTest>> \o Tail(todo)
<1>1. /\ outcome = "reading" /\ todo # <<>> /\ Head(todo).op = "entry"
      /\ payload' = payload /\ items' = items /\ todo' = next
    BY DEF ReadEntry, Doing
<1>2. /\ payload \in Payloads /\ payload.magic /\ payload.size \in Nat
      /\ pos \in 0..payload.size /\ pos \in Nat /\ pos > 0 /\ items \in Nat
      /\ Stage(payload, todo, pos, items) /\ Tail(todo) \in Seq(Ops)
    BY <1>1, ReadingFacts
<1>3. /\ pos + 1 <= payload.size => Stage(payload, next, pos + 1, items)
      /\ pos + 1 > payload.size => Result(payload) = "parse_error"
    BY <1>1, <1>2, AfterType
<1>4. BlockSelector(payload.entry) \in Ops
    BY BlockSizes, OpsMade DEF BlockSelector
<1>5. next \in Seq(Ops)
    <2>1. <<BlockSelector(payload.entry), EntryTest>> \in Seq(Ops)
        BY <1>4, OpsMade
    <2>. HIDE DEF Ops
    <2>. QED BY <1>2, <2>1
<1>. HIDE DEF next
<1>6. CASE pos + 1 <= payload.size
    <2>1. pos' = pos + 1 /\ outcome' = "reading"
        BY <1>1, <1>6 DEF ReadEntry, Read
    <2>2. pos' \in 1..payload.size
        BY <1>2, <1>6, <2>1
    <2>. QED BY <1>1, <1>2, <1>3, <1>6, <2>1, <2>2, GoesOn
<1>7. CASE ~(pos + 1 <= payload.size)
    <2>1. pos' = pos /\ outcome' = "parse_error"
        BY <1>7 DEF ReadEntry, Read
    <2>2. Result(payload) = "parse_error"
        BY <1>2, <1>3, <1>7
    <2>. QED BY <1>1, <1>2, <1>5, <2>1, <2>2, Ends DEF Outcomes
<1>. QED BY <1>6, <1>7

\* The test behind the entry ends the list, or throws.
LEMMA TestStep == IInv /\ TestEntry => IInv'
<1>. SUFFICES ASSUME IInv, TestEntry PROVE IInv'
    OBVIOUS
<1>1. /\ outcome = "reading" /\ todo # <<>> /\ Head(todo).op = "test"
      /\ payload' = payload /\ items' = items /\ pos' = pos
    BY DEF TestEntry, Doing
<1>2. /\ payload \in Payloads /\ payload.magic /\ payload.size \in Nat
      /\ pos \in 0..payload.size /\ pos \in Nat /\ pos > 0 /\ items \in Nat
      /\ Stage(payload, todo, pos, items)
      /\ todo \in Seq(Ops) /\ Tail(todo) \in Seq(Ops)
    BY <1>1, ReadingFacts
<1>3. /\ pos = payload.size => Stage(payload, Tail(todo), pos, items)
      /\ pos # payload.size => Result(payload) = "unknown_exception"
    BY <1>1, <1>2, AfterTest
<1>4. CASE pos = payload.size
    <2>1. todo' = Tail(todo) /\ outcome' = "reading"
        BY <1>1, <1>4 DEF TestEntry, IsEof
    <2>2. pos' \in 1..payload.size
        BY <1>1, <1>2
    <2>. QED BY <1>1, <1>2, <1>3, <1>4, <2>1, <2>2, GoesOn
<1>5. CASE pos # payload.size
    <2>1. todo' = todo /\ outcome' = "unknown_exception"
        BY <1>5 DEF TestEntry, IsEof
    <2>. QED BY <1>1, <1>2, <1>3, <1>5, <2>1, Ends DEF Outcomes
<1>. QED BY <1>4, <1>5

\* A message read to its end is dispatched.
LEMMA DispatchStep == IInv /\ Dispatch => IInv'
<1>. SUFFICES ASSUME IInv, Dispatch PROVE IInv'
    OBVIOUS
<1>1. /\ outcome = "reading" /\ todo = <<>> /\ pos # 0
      /\ payload' = payload /\ items' = items /\ pos' = pos /\ todo' = todo
      /\ outcome' = IF payload.type \in AllTypes \ {"bulk_pull_blocks"}
                    THEN "stored" ELSE "ignored"
    BY DEF Dispatch, IInv
<1>2. /\ payload \in Payloads /\ pos \in 0..payload.size /\ items \in Nat
      /\ Stage(payload, todo, pos, items) /\ todo \in Seq(Ops)
    BY <1>1, StageTyped DEF IInv
<1>3. Readable(payload) /\ ~Overlong(payload) /\ items = ItemsRead(payload)
    BY <1>1, <1>2, StageByHead DEF Done
<1>4. outcome' = Result(payload)
    BY <1>1, <1>3 DEF Result, AllTypes
<1>5. outcome' \in {"stored", "ignored"}
    BY <1>1
<1>. QED BY <1>1, <1>2, <1>3, <1>4, <1>5, Ends DEF Outcomes

\* At first the header is to be read.
LEMMA InitInv == Init => IInv
<1>. SUFFICES ASSUME Init PROVE IInv
    OBVIOUS
<1>1. /\ payload \in Payloads /\ pos = 0 /\ todo = <<>> /\ items = 0
      /\ outcome = "reading"
    BY DEF Init
<1>2. payload.size \in Nat
    BY <1>1, PayloadFields
<1>. QED BY <1>1, <1>2 DEF IInv, Outcomes, ReadsAs

\* Every step reaches a stage.
LEMMA Invariance == Spec => []IInv
<1>1. Init => IInv
    BY InitInv
<1>2. IInv /\ [Next]_vars => IInv'
    <2>1. IInv /\ UNCHANGED vars => IInv'
        BY DEF IInv, ReadsAs, vars
    <2>. QED BY <2>1, HeaderStep, StructStep, RestStep, ListStep, ItemStep, EntryStep,
                TestStep, DispatchStep DEF Next, Parse
<1>. QED BY <1>1, <1>2, PTL DEF Spec

\* The parser never reads past the end of a payload, of whatever size.
THEOREM TypeCorrect == Spec => []TypeOK
<1>1. IInv => TypeOK
    BY DEF IInv, TypeOK
<1>. QED BY <1>1, Invariance, PTL

\* Apart from the disputed payloads the reference says what the parser does.
LEMMA ReferenceIsRead ==
    ASSUME NEW h \in Payloads, ~Disputed(h)
    PROVE  Result(h) = Expected(h) /\ ItemsRead(h) = ExpectedItems(h)
<1>1. Length(h) = Fixed(h) /\ ~Overlong(h)
    BY DEF Disputed, Length, Overlong
<1>2. ItemOf(h).size # 0 =>
        (Full(h) <=> h.size - Fixed(h) >= ItemOf(h).most * ItemOf(h).size)
    BY <1>1 DEF Disputed, Full
<1>3. Readable(h) <=> Accepted(h)
    BY <1>1, <1>2 DEF Readable, Accepted
<1>4. ItemsRead(h) = ExpectedItems(h)
    BY <1>1, <1>2 DEF ItemsRead, ExpectedItems
<1>5. Result(h) = Expected(h)
    BY <1>1, <1>3 DEF Result, Expected, AllTypes
<1>. QED BY <1>4, <1>5

\* For every payload size, type, flags and count the descent of the generated
\* parser ends as the reference says, which looks at the sizes alone, except
\* for bulk_push messages and lists that declare no items.
THEOREM ParseCorrect == Spec => []ParseAgreesElsewhere
<1>1. IInv => ParseAgreesElsewhere
    BY ReferenceIsRead DEF IInv, ReadsAs, ParseAgreesElsewhere, ParseAgrees
<1>. QED BY <1>1, Invariance, PTL

\* A vote is stored as malformed exactly if its payload ends where its hashes
\* should begin, whatever its size and the count it declares (db.cpp, put of a
\* confirm_ack).
THEOREM MalformedCorrect == Spec => []MalformedVotesAreCut
<1>1. IInv => MalformedVotesAreCut
    <2>. SUFFICES ASSUME IInv, outcome = "stored", payload.type = "confirm_ack"
                  PROVE  VoteForm = "malformed"
                           <=> payload.block = NotABlock /\ payload.size = HeaderSize + 104
        BY DEF MalformedVotesAreCut
    <2>. DEFINE rest == payload.size - Length(payload)
    <2>1. payload \in Payloads /\ payload.size \in Nat
        BY PayloadFields DEF IInv
    <2>2. Result(payload) = "stored" /\ items = ItemsRead(payload)
        BY DEF IInv, ReadsAs
    <2>3. Readable(payload)
        BY <2>2 DEF Result
    <2>4. CASE payload.block # NotABlock
        BY <2>4 DEF VoteForm
    <2>5. CASE payload.block = NotABlock
        <3>1. NotABlock \notin DOMAIN BlockSize
            BY BlockSizes DEF NotABlock
        <3>2. Length(payload) = 112 /\ HeaderSize = 8
            BY <2>5, <3>1 DEF Length, Fixed, HeaderSize
        <3>3. /\ ItemOf(payload).size = 32 /\ ItemOf(payload).most \in Nat
              /\ payload.size >= 112 /\ rest \in Nat
            BY <2>1, <2>3, <2>5, <3>2, ItemType DEF ItemOf, Readable, Full
        <3>4. CASE ItemOf(payload).most # 0 /\ rest >= ItemOf(payload).most * 32
            <4>1. items = ItemOf(payload).most
                BY <2>2, <3>3, <3>4 DEF ItemsRead, Full
            <4>2. items > 0 /\ payload.size # 112
                BY <3>2, <3>3, <3>4, <4>1
            <4>. QED BY <2>5, <3>2, <4>2 DEF VoteForm
        <3>5. CASE ~(ItemOf(payload).most # 0 /\ rest >= ItemOf(payload).most * 32)
            <4>1. items = rest \div 32 /\ rest % 32 = 0
                BY <2>2, <2>3, <3>3, <3>5 DEF ItemsRead, Readable, Full
            <4>2. rest \div 32 > 0 <=> rest # 0
                BY <3>3, <4>1
            <4>3. rest # 0 <=> payload.size # 112
                BY <2>1, <3>2
            <4>. HIDE DEF rest
            <4>4. items > 0 <=> payload.size # 112
                BY <4>1, <4>2, <4>3
            <4>. QED BY <2>5, <3>2, <4>4 DEF VoteForm
        <3>. QED BY <3>4, <3>5
    <2>. QED BY <2>4, <2>5
<1>. QED BY <1>1, Invariance, PTL
=============================================================================
