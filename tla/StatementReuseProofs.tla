------------------------ MODULE StatementReuseProofs ------------------------
(***************************************************************************)
(* Proofs about StatementReuse, for any number of messages of any kinds    *)
(* and whichever INSERTs throw.  A put is a composition of operations on a *)
(* statement, so each operation has a lemma that says what it changes, and *)
(* the lemma of a put chains them.                                         *)
(***************************************************************************)
EXTENDS StatementReuse, TLAPS

\* The statements by name, and their columns.
LEMMA StatementNames ==
    /\ Statements = {"packet", "block", "child", "vote", "entry"}
    /\ Columns["packet"] = {"header", "content"}
    /\ Columns["vote"] = {"key", "kind", "content", "hashes", "common"}
    /\ Columns["entry"] = {"key", "hash_amount", "source"}
BY DEF Statements, Columns

\* Bindings of one statement to numbers of the first n messages.
Bindings(n) == UNION {[Columns[s] -> 0..n] : s \in Statements}

BoundTo(n) == {b \in [Statements -> Bindings(n)] :
                  \A s \in Statements : b[s] \in [Columns[s] -> 0..n]}

RowsOf(n) == {r \in [table : Statements, put : 1..n, values : Bindings(n)] :
                  r.values \in [Columns[r.table] -> 0..n]}

\* What the operations of a put work on, when the first n messages were put.
Outcome(n) == [bound : BoundTo(n), ready : [Statements -> BOOLEAN],
               rows : SUBSET RowsOf(n), ok : BOOLEAN]

\* Of a statement, the columns cols show message p.
Shows(d, s, cols, p) == \A c \in cols : d.bound[s][c] = p

\* Nothing but statement s has other bindings than before.
OnlyBinds(d, e, s) == \A t \in Statements \ {s} : e.bound[t] = d.bound[t]

\* bind changes columns of one statement, or throws.
LEMMA BindEffect ==
    ASSUME NEW n \in Nat, NEW d \in Outcome(n), NEW s \in Statements,
           NEW cols, NEW p \in 0..n
    PROVE  /\ Bind(d, s, cols, p) \in Outcome(n)
           /\ Bind(d, s, cols, p).rows = d.rows
           /\ Bind(d, s, cols, p).ok => d.ok
           /\ OnlyBinds(d, Bind(d, s, cols, p), s)
           /\ Bind(d, s, cols, p).ok =>
                \A c \in Columns[s] : Bind(d, s, cols, p).bound[s][c] =
                                        IF c \in cols THEN p ELSE d.bound[s][c]
<1>. DEFINE e == Bind(d, s, cols, p)
            f == [c \in Columns[s] |-> IF c \in cols THEN p ELSE d.bound[s][c]]
<1>1. d.bound[s] \in [Columns[s] -> 0..n]
    BY DEF Outcome, BoundTo
<1>2. f \in [Columns[s] -> 0..n]
    BY <1>1
<1>3. f \in Bindings(n)
    BY <1>2 DEF Bindings
<1>4. CASE d.ok /\ d.ready[s]
    <2>1. e = [d EXCEPT !.bound = [d.bound EXCEPT ![s] = f]]
        BY <1>4 DEF Bind, Outcome
    <2>. HIDE DEF e, f
    <2>2. [d.bound EXCEPT ![s] = f] \in BoundTo(n)
        BY <1>2, <1>3 DEF Outcome, BoundTo
    <2>3. /\ e \in Outcome(n) /\ e.rows = d.rows /\ e.ok = d.ok
          /\ e.bound = [d.bound EXCEPT ![s] = f]
        BY <2>1, <2>2 DEF Outcome
    <2>4. e.bound[s] = f /\ \A t \in Statements \ {s} : e.bound[t] = d.bound[t]
        BY <2>3 DEF Outcome, BoundTo
    <2>. QED BY <2>3, <2>4 DEF e, f, OnlyBinds
<1>5. CASE ~(d.ok /\ d.ready[s])
    <2>1. e = [d EXCEPT !.ok = FALSE]
        BY <1>5 DEF Bind
    <2>2. e \in Outcome(n) /\ e.rows = d.rows /\ e.ok = FALSE /\ e.bound = d.bound
        BY <2>1 DEF Outcome
    <2>. QED BY <2>2 DEF OnlyBinds
<1>. QED BY <1>4, <1>5

\* clearBindings makes the columns of one statement NULL.
LEMMA ClearEffect ==
    ASSUME NEW n \in Nat, NEW d \in Outcome(n), NEW s \in Statements
    PROVE  /\ Clear(d, s) \in Outcome(n)
           /\ Clear(d, s).rows = d.rows /\ Clear(d, s).ok = d.ok
           /\ OnlyBinds(d, Clear(d, s), s)
           /\ Shows(Clear(d, s), s, Columns[s], 0)
<1>. DEFINE e == Clear(d, s)
            f == [c \in Columns[s] |-> 0]
<1>1. f \in [Columns[s] -> 0..n]
    OBVIOUS
<1>2. f \in Bindings(n)
    BY <1>1 DEF Bindings
<1>3. e = [d EXCEPT !.bound = [d.bound EXCEPT ![s] = f]]
    BY DEF Clear, Outcome
<1>. HIDE DEF e, f
<1>4. [d.bound EXCEPT ![s] = f] \in BoundTo(n)
    BY <1>1, <1>2 DEF Outcome, BoundTo
<1>5. /\ e \in Outcome(n) /\ e.rows = d.rows /\ e.ok = d.ok
      /\ e.bound = [d.bound EXCEPT ![s] = f]
    BY <1>3, <1>4 DEF Outcome
<1>6. e.bound[s] = f /\ \A t \in Statements \ {s} : e.bound[t] = d.bound[t]
    BY <1>5 DEF Outcome, BoundTo
<1>. QED BY <1>5, <1>6 DEF e, f, OnlyBinds, Shows

\* The row an exec of statement s stores.
NewRow(d, s, p) == [table |-> s, put |-> p, values |-> d.bound[s]]

\* exec stores at most one row, which shows the bindings.
LEMMA ExecEffect ==
    ASSUME NEW n \in Nat, NEW d \in Outcome(n), NEW s \in Statements,
           NEW p \in 1..n, NEW fails \in BOOLEAN
    PROVE  /\ Exec(d, s, p, fails) \in Outcome(n)
           /\ Exec(d, s, p, fails).bound = d.bound
           /\ Exec(d, s, p, fails).ok => d.ok
           /\ Exec(d, s, p, fails).ok =>
                Exec(d, s, p, fails).rows = d.rows \cup {NewRow(d, s, p)}
           /\ ~ Exec(d, s, p, fails).ok => Exec(d, s, p, fails).rows = d.rows
<1>. DEFINE e == Exec(d, s, p, fails)
            more == IF fails THEN {} ELSE {NewRow(d, s, p)}
<1>1. d.bound[s] \in [Columns[s] -> 0..n] /\ d.bound[s] \in Bindings(n)
    BY DEF Outcome, BoundTo, Bindings
<1>2. NewRow(d, s, p) \in RowsOf(n)
    BY <1>1 DEF NewRow, RowsOf
<1>3. CASE d.ok
    <2>1. e = [d EXCEPT !.ok = ~fails, !.ready = [d.ready EXCEPT ![s] = FALSE],
                        !.rows = d.rows \cup more]
        BY <1>3 DEF Exec, NewRow, Outcome
    <2>2. more \subseteq RowsOf(n)
        BY <1>2
    <2>3. d.rows \cup more \in SUBSET RowsOf(n)
        BY <2>2 DEF Outcome
    <2>4. [d.ready EXCEPT ![s] = FALSE] \in [Statements -> BOOLEAN]
        BY DEF Outcome
    <2>. HIDE DEF e, more
    <2>5. /\ e \in Outcome(n) /\ e.bound = d.bound
          /\ e.ok = ~fails /\ e.rows = d.rows \cup more
        BY <2>1, <2>3, <2>4 DEF Outcome
    <2>. QED BY <1>3, <2>5 DEF e, more
<1>4. CASE ~d.ok
    BY <1>4 DEF Exec
<1>. QED BY <1>3, <1>4

\* reset changes no binding and no row.
LEMMA ResetEffect ==
    ASSUME NEW n \in Nat, NEW d \in Outcome(n), NEW s \in Statements
    PROVE  /\ Reset(d, s) \in Outcome(n) /\ Reset(d, s).bound = d.bound
           /\ Reset(d, s).ok = d.ok /\ Reset(d, s).rows = d.rows
<1>1. [d.ready EXCEPT ![s] = TRUE] \in [Statements -> BOOLEAN]
    BY DEF Outcome
<1>2. CASE d.ok
    <2>1. Reset(d, s) = [d EXCEPT !.ready = [d.ready EXCEPT ![s] = TRUE]]
        BY <1>2 DEF Reset, Outcome
    <2>. QED BY <1>1, <2>1 DEF Outcome
<1>3. CASE ~d.ok
    BY <1>3 DEF Reset
<1>. QED BY <1>2, <1>3

\* exec and reset together store at most one row.
LEMMA InsertEffect ==
    ASSUME NEW n \in Nat, NEW d \in Outcome(n), NEW s \in Statements,
           NEW p \in 1..n, NEW fails \in BOOLEAN
    PROVE  /\ Insert(d, s, p, fails) \in Outcome(n)
           /\ Insert(d, s, p, fails).bound = d.bound
           /\ Insert(d, s, p, fails).ok => d.ok
           /\ Insert(d, s, p, fails).ok =>
                Insert(d, s, p, fails).rows = d.rows \cup {NewRow(d, s, p)}
           /\ ~ Insert(d, s, p, fails).ok => Insert(d, s, p, fails).rows = d.rows
<1>. DEFINE e == Exec(d, s, p, fails)
<1>1. /\ e \in Outcome(n) /\ e.bound = d.bound
      /\ e.ok => d.ok
      /\ e.ok => e.rows = d.rows \cup {NewRow(d, s, p)}
      /\ ~ e.ok => e.rows = d.rows
    BY ExecEffect
<1>. HIDE DEF e
<1>2. /\ Reset(e, s) \in Outcome(n) /\ Reset(e, s).bound = e.bound
      /\ Reset(e, s).ok = e.ok /\ Reset(e, s).rows = e.rows
    BY <1>1, ResetEffect
<1>3. Insert(d, s, p, fails) = Reset(e, s)
    BY DEF Insert, e
<1>. QED BY <1>1, <1>2, <1>3

\* The header's columns are bound in the packet statement.
LEMMA BindHeaderEffect ==
    ASSUME NEW n \in Nat, NEW d \in Outcome(n), NEW p \in 0..n
    PROVE  /\ BindHeader(d, p) \in Outcome(n)
           /\ BindHeader(d, p).rows = d.rows
           /\ BindHeader(d, p).ok => BindHeader(d, p).bound["packet"]["content"] = 0
<1>. DEFINE e == Clear(d, "packet")
<1>1. "packet" \in Statements /\ {"header", "content"} = Columns["packet"]
    BY StatementNames
<1>2. /\ e \in Outcome(n) /\ e.rows = d.rows
      /\ \A c \in Columns["packet"] : e.bound["packet"][c] = 0
    BY <1>1, ClearEffect DEF Shows
<1>. HIDE DEF e
<1>3. /\ Bind(e, "packet", {"header"}, p) \in Outcome(n)
      /\ Bind(e, "packet", {"header"}, p).rows = e.rows
      /\ Bind(e, "packet", {"header"}, p).ok =>
           \A c \in Columns["packet"] : Bind(e, "packet", {"header"}, p).bound["packet"][c] =
                               IF c \in {"header"} THEN p ELSE e.bound["packet"][c]
    BY <1>1, <1>2, BindEffect
<1>4. BindHeader(d, p) = Bind(e, "packet", {"header"}, p)
    BY DEF BindHeader, e
<1>5. Bind(e, "packet", {"header"}, p).ok =>
        Bind(e, "packet", {"header"}, p).bound["packet"]["content"] = 0
    BY <1>1, <1>2, <1>3
<1>. QED BY <1>2, <1>3, <1>4, <1>5

\* What a bind of the columns cols followed by an insert does: at most one row
\* is added, only if nothing has thrown, and it shows the message in cols.
BoundRow(d, r, s, cols, p) ==
    /\ r.table = s /\ r.put = p
    /\ \A c \in Columns[s] : r.values[c] = IF c \in cols THEN p ELSE d.bound[s][c]

\* Columns bound to a message show it in the row stored.
LEMMA BindInsert ==
    ASSUME NEW n \in Nat, NEW d \in Outcome(n), NEW s \in Statements,
           NEW cols, NEW p \in 1..n, NEW fails \in BOOLEAN
    PROVE  LET e == Insert(Bind(d, s, cols, p), s, p, fails)
           IN  /\ e \in Outcome(n)
               /\ OnlyBinds(d, e, s)
               /\ e.ok => d.ok
               /\ e.ok => \E r \in e.rows : BoundRow(d, r, s, cols, p)
               /\ d.rows \subseteq e.rows
               /\ \A r \in e.rows \ d.rows : e.ok /\ BoundRow(d, r, s, cols, p)
<1>. DEFINE b == Bind(d, s, cols, p)
            e == Insert(b, s, p, fails)
            r == NewRow(b, s, p)
<1>1. /\ b \in Outcome(n) /\ b.rows = d.rows
      /\ b.ok => d.ok
      /\ OnlyBinds(d, b, s)
      /\ b.ok => \A c \in Columns[s] : b.bound[s][c] = IF c \in cols THEN p ELSE d.bound[s][c]
    BY BindEffect
<1>. HIDE DEF b
<1>2. /\ e \in Outcome(n) /\ e.bound = b.bound
      /\ e.ok => b.ok
      /\ e.ok => e.rows = b.rows \cup {r}
      /\ ~ e.ok => e.rows = b.rows
    BY <1>1, InsertEffect
<1>. HIDE DEF e
<1>3. e.ok => BoundRow(d, r, s, cols, p)
    BY <1>1, <1>2 DEF BoundRow, NewRow
<1>4. OnlyBinds(d, e, s)
    BY <1>1, <1>2 DEF OnlyBinds
<1>. HIDE DEF r
<1>5. /\ e.ok => d.ok
      /\ e.ok => \E x \in e.rows : BoundRow(d, x, s, cols, p)
      /\ d.rows \subseteq e.rows
      /\ \A x \in e.rows \ d.rows : e.ok /\ BoundRow(d, x, s, cols, p)
    BY <1>1, <1>2, <1>3
<1>. QED BY <1>2, <1>4, <1>5 DEF b, e

\* put_block stores at most a row of a block and binds nothing else.
LEMMA PutBlockEffect ==
    ASSUME NEW n \in Nat, NEW d \in Outcome(n), NEW p \in 1..n,
           NEW stored \in BOOLEAN, NEW at
    PROVE  LET e == PutBlock(d, p, stored, at)
           IN  /\ e \in Outcome(n) /\ OnlyBinds(d, e, "block")
               /\ e.ok => d.ok
               /\ d.rows \subseteq e.rows
               /\ \A r \in e.rows \ d.rows : r.table = "block" /\ r.put = p
<1>1. CASE stored
    <2>. DEFINE fails == at = "block"
                e == Insert(Bind(d, "block", {"key", "fields"}, p), "block", p, fails)
    <2>1. "block" \in Statements /\ fails \in BOOLEAN
        BY StatementNames
    <2>2. PutBlock(d, p, stored, at) = e
        BY <1>1 DEF PutBlock
    <2>. HIDE DEF fails
    <2>3. /\ e \in Outcome(n) /\ OnlyBinds(d, e, "block")
          /\ e.ok => d.ok
          /\ d.rows \subseteq e.rows
          /\ \A r \in e.rows \ d.rows : r.table = "block" /\ r.put = p
        BY <2>1, BindInsert DEF BoundRow
    <2>. QED BY <2>2, <2>3
<1>2. CASE ~stored
    BY <1>2 DEF PutBlock, OnlyBinds
<1>. QED BY <1>1, <1>2

\* A row that message p of this kind may store beside the rows in all: what the
\* two properties ask of it.
GoodRow(r, kind, p, all) ==
    /\ r.put = p
    /\ r.table = "vote" =>
         \A c \in {"key", "kind", "common"} \cup ReadOfVote[kind] : r.values[c] = p
    /\ r.table = "entry" =>
         \A c \in {"key"} \cup ReadOfEntry[kind] : r.values[c] = p
    /\ r.table = "packet" =>
         /\ r.values["content"] \in {0, p}
         /\ r.values["content"] # 0 <=> kind # "plain"
         /\ kind \in VoteKinds => \E v \in all : v.table = "vote" /\ v.values["key"] = p

GoodPut(n, d, e, kind, p) ==
    /\ e \in Outcome(n)
    /\ d.rows \subseteq e.rows
    /\ \A r \in e.rows \ d.rows : GoodRow(r, kind, p, e.rows)

\* A message of one packet row is stored as its own.
LEMMA PutPlainGood ==
    ASSUME NEW n \in Nat, NEW d \in Outcome(n), NEW p \in 1..n,
           NEW child \in BOOLEAN, NEW at
    PROVE  GoodPut(n, d, PutPlain(d, p, child, at), "plain", p)
<1>. DEFINE h == BindHeader(d, p)
            inPacket == at = "packet"
            inChild == at = "child"
            e == Exec(h, "packet", p, inPacket)
            i == Insert(Bind(e, "child", {"key", "fields"}, p), "child", p, inChild)
            c == IF child THEN i ELSE e
<1>1. /\ "packet" \in Statements /\ "child" \in Statements
      /\ p \in 0..n
      /\ inPacket \in BOOLEAN /\ inChild \in BOOLEAN
    BY StatementNames
<1>. HIDE DEF inPacket, inChild
<1>2. /\ h \in Outcome(n) /\ h.rows = d.rows
      /\ h.ok => h.bound["packet"]["content"] = 0
    BY <1>1, BindHeaderEffect
<1>. HIDE DEF h
<1>3. /\ e \in Outcome(n)
      /\ e.ok => h.ok /\ e.rows = h.rows \cup {NewRow(h, "packet", p)}
      /\ ~e.ok => e.rows = h.rows
    BY <1>1, <1>2, ExecEffect
<1>. HIDE DEF e
<1>4. /\ i \in Outcome(n) /\ e.rows \subseteq i.rows
      /\ \A r \in i.rows \ e.rows : r.table = "child" /\ r.put = p
    BY <1>1, <1>3, BindInsert DEF BoundRow
<1>. HIDE DEF i
<1>5. /\ c \in Outcome(n) /\ e.rows \subseteq c.rows
      /\ \A r \in c.rows \ e.rows : r.table = "child" /\ r.put = p
    BY <1>3, <1>4
<1>. HIDE DEF c
<1>6. Reset(c, "packet") \in Outcome(n) /\ Reset(c, "packet").rows = c.rows
    BY <1>1, <1>5, ResetEffect
<1>7. \A r \in e.rows \ d.rows :
         r.table = "packet" /\ r.put = p /\ r.values["content"] = 0
    BY <1>2, <1>3 DEF NewRow
<1>8. PutPlain(d, p, child, at) = Reset(c, "packet")
    BY DEF PutPlain, h, e, i, c, inPacket, inChild
<1>9. "plain" \notin VoteKinds
    BY DEF VoteKinds
<1>10. \A r \in c.rows \ d.rows : GoodRow(r, "plain", p, c.rows)
    BY <1>5, <1>7, <1>9 DEF GoodRow
<1>. QED BY <1>2, <1>3, <1>5, <1>6, <1>8, <1>10 DEF GoodPut

\* A block and its packet are stored as the message's own.
LEMMA PutPublishGood ==
    ASSUME NEW n \in Nat, NEW d \in Outcome(n), NEW p \in 1..n,
           NEW stored \in BOOLEAN, NEW at
    PROVE  GoodPut(n, d, PutPublish(d, p, stored, at), "publish", p)
<1>. DEFINE h == BindHeader(d, p)
            inPacket == at = "packet"
            b == PutBlock(h, p, stored, at)
            k == Insert(Bind(b, "packet", {"content"}, p), "packet", p, inPacket)
<1>1. /\ "packet" \in Statements /\ "content" \in Columns["packet"]
      /\ p \in 0..n /\ p # 0 /\ inPacket \in BOOLEAN
    BY StatementNames
<1>. HIDE DEF inPacket
<1>2. h \in Outcome(n) /\ h.rows = d.rows
    BY <1>1, BindHeaderEffect
<1>. HIDE DEF h
<1>3. /\ b \in Outcome(n) /\ h.rows \subseteq b.rows
      /\ \A r \in b.rows \ h.rows : r.table = "block" /\ r.put = p
    BY <1>2, PutBlockEffect
<1>. HIDE DEF b
<1>4. /\ k \in Outcome(n) /\ b.rows \subseteq k.rows
      /\ \A r \in k.rows \ b.rows : BoundRow(b, r, "packet", {"content"}, p)
    BY <1>1, <1>3, BindInsert
<1>. HIDE DEF k
<1>5. \A r \in k.rows \ b.rows :
         r.table = "packet" /\ r.put = p /\ r.values["content"] = p
    BY <1>1, <1>4 DEF BoundRow
<1>6. PutPublish(d, p, stored, at) = k
    BY DEF PutPublish, h, b, k, inPacket
<1>7. "publish" \notin VoteKinds
    BY DEF VoteKinds
<1>8. \A r \in k.rows \ d.rows : GoodRow(r, "publish", p, k.rows)
    BY <1>1, <1>2, <1>3, <1>5, <1>7 DEF GoodRow
<1>. QED BY <1>2, <1>3, <1>4, <1>6, <1>8 DEF GoodPut

\* The columns by which a vote is read are among those its kind binds, and so
\* are those of an entry.
LEMMA ReadColumnsBound ==
    /\ \A kind \in VoteKinds :
         {"key", "kind", "common"} \cup ReadOfVote[kind]
            \subseteq VoteColumns(kind) \cap Columns["vote"]
    /\ \A flags \in EntryKinds :
         {"key"} \cup ReadOfEntry[flags] \subseteq EntryColumns(flags) \cap Columns["entry"]
BY StatementNames
   DEF VoteKinds, EntryKinds, ReadOfVote, ReadOfEntry, VoteColumns, EntryColumns

\* A vote of either form shows what its kind binds.
LEMMA PutVoteGood ==
    ASSUME NEW n \in Nat, NEW d \in Outcome(n), NEW p \in 1..n,
           NEW kind \in VoteKinds, NEW stored \in BOOLEAN, NEW at
    PROVE  GoodPut(n, d, PutVote(d, p, kind, stored, at), kind, p)
<1>. DEFINE h == BindHeader(d, p)
            inPacket == at = "packet"
            inVote == at = "vote"
            b == IF kind = "regular" THEN PutBlock(h, p, stored, at) ELSE h
            v == Insert(Bind(b, "vote", VoteColumns(kind), p), "vote", p, inVote)
            k == Insert(Bind(v, "packet", {"content"}, p), "packet", p, inPacket)
<1>1. /\ "packet" \in Statements /\ "content" \in Columns["packet"]
      /\ "vote" \in Statements /\ "key" \in Columns["vote"]
      /\ p \in 0..n /\ p # 0 /\ inPacket \in BOOLEAN /\ inVote \in BOOLEAN
    BY StatementNames
<1>. HIDE DEF inPacket, inVote
<1>2. h \in Outcome(n) /\ h.rows = d.rows
    BY <1>1, BindHeaderEffect
<1>. HIDE DEF h
<1>3. /\ b \in Outcome(n) /\ h.rows \subseteq b.rows
      /\ \A r \in b.rows \ h.rows : r.table = "block" /\ r.put = p
    BY <1>2, PutBlockEffect
<1>. HIDE DEF b
<1>4. /\ v \in Outcome(n) /\ b.rows \subseteq v.rows
      /\ v.ok => \E r \in v.rows : BoundRow(b, r, "vote", VoteColumns(kind), p)
      /\ \A r \in v.rows \ b.rows : BoundRow(b, r, "vote", VoteColumns(kind), p)
    BY <1>1, <1>3, BindInsert
<1>. HIDE DEF v
<1>5. /\ k \in Outcome(n) /\ v.rows \subseteq k.rows
      /\ k.ok => v.ok
      /\ \A r \in k.rows \ v.rows : k.ok /\ BoundRow(v, r, "packet", {"content"}, p)
    BY <1>1, <1>4, BindInsert
<1>. HIDE DEF k
<1>6. \A r : BoundRow(b, r, "vote", VoteColumns(kind), p) =>
         /\ r.table = "vote" /\ r.put = p /\ r.values["key"] = p
         /\ \A c \in {"key", "kind", "common"} \cup ReadOfVote[kind] : r.values[c] = p
    BY ReadColumnsBound DEF BoundRow
<1>7. \A r \in k.rows \ v.rows :
         r.table = "packet" /\ r.put = p /\ r.values["content"] = p
    BY <1>1, <1>5 DEF BoundRow
<1>8. k.ok => \E r \in k.rows : r.table = "vote" /\ r.values["key"] = p
    BY <1>4, <1>5, <1>6
<1>9. kind # "plain"
    BY DEF VoteKinds
<1>10. \A r \in k.rows \ v.rows : GoodRow(r, kind, p, k.rows)
    BY <1>1, <1>5, <1>7, <1>8, <1>9 DEF GoodRow
<1>11. \A r \in v.rows \ b.rows : GoodRow(r, kind, p, k.rows)
    BY <1>4, <1>6 DEF GoodRow
<1>12. \A r \in b.rows \ h.rows : GoodRow(r, kind, p, k.rows)
    BY <1>3 DEF GoodRow
<1>13. PutVote(d, p, kind, stored, at) = k
    BY DEF PutVote, h, b, v, k, inPacket, inVote
<1>. QED BY <1>2, <1>3, <1>4, <1>5, <1>10, <1>11, <1>12, <1>13 DEF GoodPut

\* An entry of a stream shows what its flags bind.
LEMMA PutEntryGood ==
    ASSUME NEW n \in Nat, NEW d \in Outcome(n), NEW p \in 1..n,
           NEW flags \in EntryKinds, NEW at
    PROVE  GoodPut(n, d, PutEntry(d, p, flags, at), flags, p)
<1>. DEFINE fails == at = "entry"
            e == Insert(Bind(d, "entry", EntryColumns(flags), p), "entry", p, fails)
<1>1. "entry" \in Statements /\ fails \in BOOLEAN
    BY StatementNames
<1>. HIDE DEF fails
<1>2. /\ e \in Outcome(n) /\ d.rows \subseteq e.rows
      /\ \A r \in e.rows \ d.rows : BoundRow(d, r, "entry", EntryColumns(flags), p)
    BY <1>1, BindInsert
<1>. HIDE DEF e
<1>3. \A r : BoundRow(d, r, "entry", EntryColumns(flags), p) => GoodRow(r, flags, p, e.rows)
    BY ReadColumnsBound DEF BoundRow, GoodRow
<1>4. PutEntry(d, p, flags, at) = e
    BY DEF PutEntry, e, fails
<1>. QED BY <1>2, <1>3, <1>4 DEF GoodPut

-----------------------------------------------------------------------------
\* The inductive invariant: the types, with the shape of the bindings, and the
\* two properties of the rows as one.
Shape == /\ log \in Seq(Kinds) /\ Len(log) <= MaxPuts
         /\ bound \in BoundTo(Len(log)) /\ ready \in [Statements -> BOOLEAN]
         /\ rows \in SUBSET RowsOf(Len(log))

RowsGood == \A r \in rows : GoodRow(r, log[r.put], r.put, rows)

IInv == Shape /\ RowsGood

\* Nothing is bound and nothing stored.
LEMMA InitInv == Init => IInv
<1>. SUFFICES ASSUME Init PROVE IInv
    OBVIOUS
<1>1. rows = {} /\ log = <<>> /\ Len(log) = 0
    BY DEF Init
<1>2. \A s \in Statements : [c \in Columns[s] |-> 0] \in [Columns[s] -> 0..0]
    OBVIOUS
<1>3. \A s \in Statements : [c \in Columns[s] |-> 0] \in Bindings(0)
    BY <1>2 DEF Bindings
<1>4. bound \in BoundTo(0)
    BY <1>2, <1>3 DEF Init, BoundTo
<1>5. ready \in [Statements -> BOOLEAN]
    BY DEF Init
<1>6. log \in Seq(Kinds) /\ 0 <= MaxPuts
    BY <1>1, StatementReuseAssumption DEF StatementReuseAssumption
<1>. QED BY <1>1, <1>4, <1>5, <1>6 DEF IInv, Shape, RowsGood

\* What was possible before a message is possible after it.
LEMMA Widen ==
    ASSUME NEW n \in Nat
    PROVE  /\ BoundTo(n) \subseteq BoundTo(n + 1)
           /\ RowsOf(n) \subseteq RowsOf(n + 1)
<1>1. 0..n \subseteq 0..(n + 1) /\ 1..n \subseteq 1..(n + 1)
    OBVIOUS
<1>2. \A s \in Statements : [Columns[s] -> 0..n] \subseteq [Columns[s] -> 0..(n + 1)]
    BY <1>1
<1>3. Bindings(n) \subseteq Bindings(n + 1)
    BY <1>2 DEF Bindings
<1>4. BoundTo(n) \subseteq BoundTo(n + 1)
    BY <1>2, <1>3 DEF BoundTo
<1>5. ASSUME NEW r \in RowsOf(n)
      PROVE  r \in RowsOf(n + 1)
    <2>1. /\ r \in [table : Statements, put : 1..n, values : Bindings(n)]
          /\ r.values \in [Columns[r.table] -> 0..n]
        BY DEF RowsOf
    <2>2. r \in [table : Statements, put : 1..(n + 1), values : Bindings(n + 1)]
        BY <1>1, <1>3, <2>1
    <2>3. r.values \in [Columns[r.table] -> 0..(n + 1)]
        BY <1>2, <2>1
    <2>. QED BY <2>2, <2>3 DEF RowsOf
<1>. QED BY <1>4, <1>5

\* Between messages the state is one a put may begin with.
LEMMA HereOutcome ==
    ASSUME IInv
    PROVE  Here \in Outcome(NextPut) /\ NextPut \in 1..NextPut /\ NextPut \in Nat
<1>1. Len(log) \in Nat /\ NextPut = Len(log) + 1
    BY DEF IInv, Shape, NextPut
<1>2. bound \in BoundTo(NextPut) /\ rows \in SUBSET RowsOf(NextPut)
    BY <1>1, Widen DEF IInv, Shape
<1>3. ready \in [Statements -> BOOLEAN]
    BY DEF IInv, Shape
<1>4. Here \in Outcome(NextPut)
    BY <1>2, <1>3 DEF Here, Outcome
<1>. QED BY <1>1, <1>4

\* The kinds of the messages before are kept.
LEMMA LogGrows ==
    ASSUME NEW kind, kind \in Kinds, log \in Seq(Kinds), log' = Append(log, kind)
    PROVE  /\ log' \in Seq(Kinds) /\ Len(log') = Len(log) + 1
           /\ \A i \in 1..Len(log) : log'[i] = log[i]
           /\ log'[Len(log) + 1] = kind
OBVIOUS

\* A put whose outcome is good keeps the invariant.
LEMMA PutKeeps ==
    ASSUME IInv, NEW kind, NEW d, GoodPut(NextPut, Here, d, kind, NextPut), Put(kind, d)
    PROVE  IInv'
<1>. DEFINE p == NextPut
<1>1. /\ log' \in Seq(Kinds) /\ Len(log') = p
      /\ \A i \in 1..Len(log) : log'[i] = log[i]
      /\ log'[p] = kind
    BY LogGrows DEF IInv, Shape, Put, NextPut
<1>2. Len(log') <= MaxPuts
    BY <1>1, StatementReuseAssumption
    DEF StatementReuseAssumption, IInv, Shape, Put, NextPut
<1>3. bound' \in BoundTo(p) /\ ready' \in [Statements -> BOOLEAN] /\ rows' \in SUBSET RowsOf(p)
    BY DEF GoodPut, Put, Outcome
<1>4. Shape'
    <2>1. bound' \in BoundTo(Len(log')) /\ rows' \in SUBSET RowsOf(Len(log'))
        BY <1>1, <1>3
    <2>. QED BY <1>1, <1>2, <1>3, <2>1 DEF Shape
<1>5. rows \subseteq rows' /\ \A r \in rows' \ rows : GoodRow(r, kind, p, rows')
    BY DEF GoodPut, Put, Here
<1>6. ASSUME NEW r \in rows
      PROVE  GoodRow(r, log'[r.put], r.put, rows')
    <2>1. r.put \in 1..Len(log)
        BY DEF IInv, Shape, RowsOf
    <2>2. log'[r.put] = log[r.put]
        BY <1>1, <2>1
    <2>3. GoodRow(r, log[r.put], r.put, rows)
        BY DEF IInv, RowsGood
    <2>. QED BY <1>5, <2>2, <2>3 DEF GoodRow
<1>7. ASSUME NEW r \in rows' \ rows
      PROVE  GoodRow(r, log'[r.put], r.put, rows')
    <2>1. r.put = p
        BY <1>5, <1>7 DEF GoodRow
    <2>. QED BY <1>1, <1>5, <1>7, <2>1
<1>8. RowsGood'
    BY <1>6, <1>7 DEF RowsGood
<1>. QED BY <1>4, <1>8 DEF IInv

\* Every put, of every kind, keeps the invariant.
LEMMA NextKeeps ==
    ASSUME IInv, [Next]_vars
    PROVE  IInv'
<1>. USE HereOutcome
<1>1. CASE Plain
    BY <1>1, PutPlainGood, PutKeeps DEF Plain
<1>2. CASE Publish
    BY <1>2, PutPublishGood, PutKeeps DEF Publish
<1>3. CASE ConfirmAck
    BY <1>3, PutVoteGood, PutKeeps DEF ConfirmAck
<1>4. CASE AccountEntry
    BY <1>4, PutEntryGood, PutKeeps DEF AccountEntry
<1>5. CASE Destroy
    BY <1>5 DEF Destroy, IInv, Shape, RowsGood
<1>6. CASE UNCHANGED vars
    BY <1>6 DEF vars, IInv, Shape, RowsGood
<1>. QED BY <1>1, <1>2, <1>3, <1>4, <1>5, <1>6 DEF Next

\* The invariant holds after any number of messages.
LEMMA Invariance == Spec => []IInv
<1>1. Init => IInv
    BY InitInv
<1>2. IInv /\ [Next]_vars => IInv'
    BY NextKeeps
<1>. QED BY <1>1, <1>2, PTL DEF Spec

\* Every column of every statement and of every row holds NULL or the number of
\* a message that was put, whichever INSERTs throw (db.cpp, the puts).
THEOREM TypeCorrect == Spec => []TypeOK
<1>1. IInv => TypeOK
    <2>. SUFFICES ASSUME IInv PROVE TypeOK
        OBVIOUS
    <2>1. \A s \in Statements : bound[s] \in [Columns[s] -> 0..Len(log)]
        BY DEF IInv, Shape, BoundTo
    <2>3. \A s \in Statements : ready[s] \in BOOLEAN
        BY Zenon DEF IInv, Shape
    <2>2. \A r \in rows : /\ r.table \in Statements /\ r.put \in 1..Len(log)
                          /\ r.values \in [Columns[r.table] -> 0..Len(log)]
        BY DEF IInv, Shape, RowsOf
    <2>. QED BY <2>1, <2>2, <2>3 DEF TypeOK, IInv, Shape
<1>. QED BY <1>1, Invariance, PTL

\* A vote or an entry read by its own discriminator shows no data of another
\* message, after any number of messages of any kinds and whatever threw.
THEOREM ColumnsCorrect == Spec => []MeaningfulColumnsOwn
<1>1. IInv => MeaningfulColumnsOwn
    BY DEF IInv, RowsGood, GoodRow, MeaningfulColumnsOwn
<1>. QED BY <1>1, Invariance, PTL

\* A packet's content is NULL or its own, and the packet of a vote is stored
\* only when its vote is, after any number of messages and whatever threw.
THEOREM PacketsCorrect == Spec => []PacketsOwnTheirContent
<1>1. IInv => PacketsOwnTheirContent
    BY DEF IInv, RowsGood, GoodRow, PacketsOwnTheirContent
<1>. QED BY <1>1, Invariance, PTL
=============================================================================
