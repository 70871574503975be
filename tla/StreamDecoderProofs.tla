------------------------ MODULE StreamDecoderProofs ------------------------
(***************************************************************************)
(* Proofs about StreamDecoder for answers to frontier_req and bulk_pull,   *)
(* for any number of entries, any capacity of the ring and any size of     *)
(* payload that fits behind a partial entry.  The ring then holds exactly  *)
(* the units from the first entry not yet stored to the last one sent.     *)
(* The types, and with them the bound of the ring, hold of every kind of   *)
(* stream, whatever is missed and whichever put throws.                    *)
(***************************************************************************)
EXTENDS StreamDecoder, SequenceTheorems, TLAPS

\* The conditions of the theorems: no bytes are missed, no put fails, and a
\* payload always fits into the ring behind what is left of an entry.
Fits ==
  /\ ~MayLose
  /\ ~MayFail
  /\ \A r \in Replies : r.kind \in {"frontier_req", "bulk_pull"}
  /\ Capacity >= MaxPayload + 2

FirstOf(r, i) == r.units[r.cuts[i]]

SizeOf(r, i) ==
  IF r.kind = "frontier_req" THEN 2
  ELSE IF FirstOf(r, i) = "end" THEN 1
  ELSE IF FirstOf(r, i) = "short" THEN 2 ELSE 3

-----------------------------------------------------------------------------
(* Positions and replies. *)

\* An interval of positions in order.
LEMMA PositionsType ==
  ASSUME NEW a \in Nat, NEW b \in Nat, a <= b + 1
  PROVE  /\ Positions(a, b) \in Seq(Nat)
         /\ Len(Positions(a, b)) = b - a + 1
         /\ DOMAIN Positions(a, b) = 1 .. b - a + 1
         /\ \A j \in 1 .. b - a + 1 : Positions(a, b)[j] = a + j - 1
  BY DEF Positions

\* Two adjacent intervals make one.
LEMMA PositionsConcat ==
  ASSUME NEW a \in Nat, NEW b \in Nat, NEW c \in Nat, a <= b + 1, b <= c
  PROVE  Positions(a, b) \o Positions(b + 1, c) = Positions(a, c)
  BY PositionsType DEF Positions

\* The first n of them and the others.
SplitAt(a, b, n) ==
  /\ SubSeq(Positions(a, b), 1, n) = Positions(a, a + n - 1)
  /\ Erase(Positions(a, b), n) = Positions(a + n, b)

\* An interval without its first positions is one.
LEMMA PositionsSplit ==
  ASSUME NEW a \in Nat, NEW b \in Nat, NEW n \in Nat, a + n <= b + 1
  PROVE  SplitAt(a, b, n)
  BY PositionsType DEF Positions, Erase, SplitAt

\* A reply is cut into entries that begin at increasing positions, the last
\* one at the terminator.
LEMMA ReplyFacts ==
  ASSUME Fits, NEW r \in Replies
  PROVE  /\ r.kind \in {"frontier_req", "bulk_pull"}
         /\ r.units \in Seq(Values)
         /\ Len(r.units) \in Nat
         /\ r.cuts \in Seq(1 .. Len(r.units))
         /\ Len(r.cuts) \in Nat \ {0}
         /\ r.cuts[1] = 1
         /\ \A i \in 1 .. Len(r.cuts) : /\ r.cuts[i] \in 1 .. Len(r.units)
                                        /\ FirstOf(r, i) \in Values
                                        /\ SizeOf(r, i) \in 1 .. 3
                                        /\ r.cuts[i] + SizeOf(r, i) - 1 <= Len(r.units)
         /\ \A i \in 1 .. Len(r.cuts) - 1 :
              /\ FirstOf(r, i) # "end"
              /\ r.kind = "bulk_pull" => FirstOf(r, i) # "other"
              /\ r.cuts[i + 1] = r.cuts[i] + SizeOf(r, i)
         /\ FirstOf(r, Len(r.cuts)) = "end"
  <1>1. IsReply(r) /\ r.kind \in {"frontier_req", "bulk_pull"}
    BY StreamDecoderAssumption DEF Fits
  <1> DEFINE n == Len(r.cuts)
  <1>2. /\ r.units \in Seq(Values)
        /\ r.cuts \in Seq(1 .. Len(r.units))
        /\ n > 0 /\ r.cuts[1] = 1
        /\ FirstOf(r, n) = "end"
        /\ \A i \in 1 .. n - 1 : /\ FirstOf(r, i) # "end"
                                 /\ r.kind = "bulk_pull" => FirstOf(r, i) # "other"
    BY <1>1 DEF IsReply, FirstOf
  <1>3. Len(r.units) \in Nat /\ n \in Nat \ {0}
    BY <1>2
  <1>4. \A i \in 1 .. n : r.cuts[i] \in 1 .. Len(r.units) /\ FirstOf(r, i) \in Values
    BY <1>2, <1>3 DEF FirstOf
  <1>5. ASSUME NEW i \in 1 .. n
        PROVE  EntrySize(r.kind, r.flags, i, r.units[r.cuts[i]]) = SizeOf(r, i)
    <2>1. CASE r.kind = "frontier_req"
      BY <2>1 DEF EntrySize, SizeOf
    <2>2. CASE r.kind = "bulk_pull" /\ i < n
      <3>1. FirstOf(r, i) \in {"short", "long"}
        BY <1>2, <1>3, <1>4, <2>2 DEF Values
      <3> QED
        BY <2>2, <3>1 DEF EntrySize, SizeOf, FirstOf, BlockSize
    <2>3. CASE r.kind = "bulk_pull" /\ i = n
      BY <1>2, <2>3 DEF EntrySize, SizeOf, FirstOf
    <2> QED
      BY <1>1, <1>3, <2>1, <2>2, <2>3
  <1>6. /\ \A i \in 1 .. n - 1 : r.cuts[i + 1] = r.cuts[i] + SizeOf(r, i)
        /\ Len(r.units) = r.cuts[n] + SizeOf(r, n) - 1
    <2>1. /\ \A i \in 1 .. n - 1 :
               r.cuts[i + 1] = r.cuts[i] + EntrySize(r.kind, r.flags, i, r.units[r.cuts[i]])
          /\ Len(r.units) = r.cuts[n] + EntrySize(r.kind, r.flags, n, r.units[r.cuts[n]]) - 1
      BY <1>1 DEF IsReply
    <2>2. n \in 1 .. n /\ \A i \in 1 .. n - 1 : i \in 1 .. n
      BY <1>3
    <2> QED
      BY <1>5, <2>1, <2>2
  <1>7. \A i \in 1 .. n : SizeOf(r, i) \in 1 .. 3
    BY DEF SizeOf
  <1>8. \A i \in 1 .. n : r.cuts[i] + SizeOf(r, i) - 1 <= Len(r.units)
    <2> TAKE i \in 1 .. n
    <2>1. CASE i = n
      BY <1>3, <1>4, <1>6, <1>7, <2>1
    <2>2. CASE i < n
      <3>1. r.cuts[i + 1] \in 1 .. Len(r.units)
        BY <1>3, <1>4, <2>2
      <3> QED
        BY <1>3, <1>4, <1>6, <1>7, <2>2, <3>1
    <2> QED
      BY <1>3, <2>1, <2>2
  <1> QED
    BY <1>1, <1>2, <1>3, <1>4, <1>6, <1>7, <1>8

-----------------------------------------------------------------------------
(* The inductive invariant. *)

TypeInv ==
  /\ current_msg_type \in {"none", "frontier_req", "bulk_pull"}
  /\ pc \in {"idle", "loop"}
  /\ reply \in Replies \cup {NoReply}
  /\ sent \in 0 .. Len(reply.units)
  /\ Len(stored) \in Nat

\* What is stored so far, as sequences of positions.
OrderInv ==
  /\ stored \in Seq(Seq(Nat))
  /\ Len(stored) <= Len(reply.cuts) - 1
  /\ \A i \in 1 .. Len(stored) :
       stored[i] = Positions(reply.cuts[i], reply.cuts[i + 1] - 1)

\* The position at which the next entry begins.
NextCut == reply.cuts[Len(stored) + 1]

\* While a stream is read, the ring holds what follows the stored entries.
RingInv ==
  current_msg_type # "none" =>
    /\ reply \in Replies
    /\ current_msg_type = reply.kind
    /\ NextCut <= sent + 1
    /\ accumulated_data = Positions(NextCut, sent)

\* Between payloads the ring is shorter than the entry it begins.
WaitInv ==
  current_msg_type # "none" /\ pc = "idle" =>
    Len(accumulated_data) < SizeOf(reply, Len(stored) + 1)

\* No stream is given up before its terminator.
DoneInv ==
  current_msg_type = "none" => pc = "idle" /\ Len(stored) = Len(reply.cuts) - 1

Inv == TypeInv /\ OrderInv /\ RingInv /\ WaitInv /\ DoneInv

\* Without a request there is nothing to read.
LEMMA NoReplyFacts ==
  /\ Len(NoReply.cuts) = 1 /\ NoReply.cuts[1] = 1
  /\ NoReply.units = <<>> /\ Len(NoReply.units) = 0
  /\ NoReply.cuts \in Seq(Nat)
  BY DEF NoReply

\* Nothing was requested, sent or stored.
LEMMA InitInv == Init => Inv
  <1> SUFFICES ASSUME Init PROVE Inv
    OBVIOUS
  <1> QED
    BY NoReplyFacts DEF Init, Inv, TypeInv, OrderInv, RingInv, WaitInv, DoneInv

\* Where a stream is, while it is read.
LEMMA Reading ==
  ASSUME Fits, Inv, current_msg_type # "none"
  PROVE  /\ Len(stored) + 1 \in 1 .. Len(reply.cuts)
         /\ NextCut \in 1 .. Len(reply.units)
         /\ NextCut <= sent + 1
         /\ sent \in Nat /\ sent <= Len(reply.units)
         /\ accumulated_data = Positions(NextCut, sent)
         /\ Len(accumulated_data) = sent - NextCut + 1
         /\ accumulated_data \in Seq(Nat)
         /\ accumulated_data # <<>> =>
              /\ accumulated_data[1] = NextCut
              /\ Value(accumulated_data[1]) = FirstOf(reply, Len(stored) + 1)
  <1>1. reply \in Replies /\ NextCut <= sent + 1 /\ accumulated_data = Positions(NextCut, sent)
    BY DEF Inv, RingInv
  <1>2. Len(stored) + 1 \in 1 .. Len(reply.cuts)
    BY <1>1, ReplyFacts DEF Inv, TypeInv, OrderInv
  <1>3. NextCut \in 1 .. Len(reply.units) /\ Len(reply.units) \in Nat
    BY <1>1, <1>2, ReplyFacts DEF NextCut
  <1>4. sent \in Nat /\ sent <= Len(reply.units)
    BY <1>3 DEF Inv, TypeInv
  <1>5. /\ accumulated_data \in Seq(Nat)
        /\ Len(accumulated_data) = sent - NextCut + 1
        /\ \A j \in 1 .. sent - NextCut + 1 : accumulated_data[j] = NextCut + j - 1
    <2>1. NextCut \in Nat /\ NextCut <= sent + 1
      BY <1>1, <1>3
    <2>2. /\ Positions(NextCut, sent) \in Seq(Nat)
          /\ Len(Positions(NextCut, sent)) = sent - NextCut + 1
          /\ \A j \in 1 .. sent - NextCut + 1 : Positions(NextCut, sent)[j] = NextCut + j - 1
      BY <1>4, <2>1, PositionsType
    <2> QED
      BY <1>1, <2>2
  <1>6. ASSUME accumulated_data # <<>>
        PROVE  accumulated_data[1] = NextCut
    <2>1. Len(accumulated_data) > 0
      BY <1>5, <1>6
    <2> QED
      BY <1>3, <1>4, <1>5, <2>1
  <1>7. accumulated_data # <<>> => Value(accumulated_data[1]) = FirstOf(reply, Len(stored) + 1)
    BY <1>6 DEF Value, FirstOf, NextCut
  <1> QED
    BY <1>1, <1>2, <1>3, <1>4, <1>5, <1>6, <1>7

-----------------------------------------------------------------------------
(* The actions. *)

\* A request begins a stream with an empty ring.
LEMMA RequestInv ==
  ASSUME Fits, Inv, NEW r \in Replies, Request(r)
  PROVE  Inv'
  <1>1. /\ r.kind \in {"frontier_req", "bulk_pull"}
        /\ Len(r.units) \in Nat /\ Len(r.cuts) \in Nat \ {0}
        /\ r.cuts[1] = 1 /\ SizeOf(r, 1) \in 1 .. 3
    BY ReplyFacts
  <1>2. /\ reply' = r /\ sent' = 0 /\ stored' = <<>> /\ pc' = "idle"
        /\ current_msg_type' = r.kind /\ accumulated_data' = <<>>
    BY DEF Request, Reset
  <1>3. NextCut' = 1
    BY <1>1, <1>2 DEF NextCut
  <1>4. Positions(1, 0) = <<>>
    BY DEF Positions
  <1>5. TypeInv'
    BY <1>1, <1>2 DEF TypeInv
  <1>6. OrderInv'
    BY <1>1, <1>2 DEF OrderInv
  <1>7. RingInv'
    BY <1>1, <1>2, <1>3, <1>4 DEF RingInv
  <1>8. WaitInv'
    BY <1>1, <1>2 DEF WaitInv
  <1>9. DoneInv'
    BY <1>1, <1>2 DEF DoneInv
  <1> QED
    BY <1>5, <1>6, <1>7, <1>8, <1>9 DEF Inv

\* A payload fits into the ring behind what is there.
LEMMA PayloadInv ==
  ASSUME Fits, Inv, NEW n \in 1 .. MaxPayload, Payload(n)
  PROVE  Inv'
  <1>1. /\ reply' = reply /\ stored' = stored /\ sent' = sent + n
        /\ current_msg_type' = current_msg_type
        /\ pc = "idle" /\ sent + n <= Len(reply.units)
    BY DEF Payload
  <1>2. Len(reply.units) \in Nat /\ sent \in Nat /\ n \in Nat
    BY ReplyFacts, NoReplyFacts, StreamDecoderAssumption DEF Inv, TypeInv
  <1>3. NextCut' = NextCut
    BY <1>1 DEF NextCut
  <1>4. OrderInv'
    BY <1>1 DEF Inv, OrderInv
  <1>5. CASE current_msg_type = "none"
    <2>1. pc' = pc /\ accumulated_data' = accumulated_data
      BY <1>5 DEF Payload
    <2> QED
      BY <1>1, <1>2, <1>4, <1>5, <2>1 DEF Inv, TypeInv, RingInv, WaitInv, DoneInv
  <1>6. CASE current_msg_type # "none"
    <2>1. /\ pc' = "loop"
          /\ accumulated_data' = PushBack(accumulated_data, Positions(sent + 1, sent + n))
      BY <1>6 DEF Payload
    <2>2. /\ NextCut \in Nat /\ NextCut <= sent + 1
          /\ accumulated_data = Positions(NextCut, sent)
          /\ Len(accumulated_data) = sent - NextCut + 1
          /\ Len(stored) + 1 \in 1 .. Len(reply.cuts)
      BY <1>6, Reading
    <2>3. Len(accumulated_data) <= 2
      <3>1. Len(accumulated_data) < SizeOf(reply, Len(stored) + 1)
        BY <1>1, <1>6 DEF Inv, WaitInv
      <3>2. SizeOf(reply, Len(stored) + 1) \in 1 .. 3
        BY <1>6, <2>2, ReplyFacts DEF Inv, RingInv
      <3> QED
        BY <1>2, <2>2, <3>1, <3>2
    <2>4. accumulated_data \o Positions(sent + 1, sent + n) = Positions(NextCut, sent + n)
      <3>1. sent + n \in Nat /\ sent <= sent + n
        BY <1>2
      <3>2. Positions(NextCut, sent) \o Positions(sent + 1, sent + n) = Positions(NextCut, sent + n)
        BY <1>2, <2>2, <3>1, PositionsConcat
      <3> QED
        BY <2>2, <3>2
    <2>5. Len(Positions(NextCut, sent + n)) = sent + n - NextCut + 1
      BY <1>2, <2>2, PositionsType
    <2>6. sent + n - NextCut + 1 <= Capacity
      BY <1>2, <2>2, <2>3, StreamDecoderAssumption DEF Fits
    <2>7. accumulated_data' = Positions(NextCut, sent + n)
      BY <2>1, <2>4, <2>5, <2>6 DEF PushBack
    <2>8. TypeInv'
      BY <1>1, <1>2, <2>1 DEF Inv, TypeInv
    <2>9. RingInv'
      BY <1>1, <1>2, <1>3, <1>6, <2>2, <2>7 DEF Inv, RingInv
    <2>10. WaitInv' /\ DoneInv'
      BY <1>1, <1>6, <2>1 DEF WaitInv, DoneInv
    <2> QED
      BY <1>4, <2>8, <2>9, <2>10 DEF Inv
  <1> QED
    BY <1>5, <1>6

\* The start of a connection forgets the stream and the ring.
LEMMA ConnectionStartInv ==
  ASSUME Inv, ConnectionStart
  PROVE  Inv'
  BY NoReplyFacts DEF ConnectionStart, Reset, Inv, TypeInv, OrderInv, RingInv, WaitInv, DoneInv

\* An iteration that stores the entry at the front of the ring.
LEMMA PutInv ==
  ASSUME Fits, Inv, pc = "loop", current_msg_type # "none",
         NEW n, n = SizeOf(reply, Len(stored) + 1),
         Len(accumulated_data) >= n,
         FirstOf(reply, Len(stored) + 1) # "end",
         PutAndErase(n),
         UNCHANGED <<current_msg_type, pc, reply, sent>>
  PROVE  /\ Inv'
         /\ Len(stored) < Len(reply.cuts) - 1
         /\ stored' = Append(stored, Positions(NextCut, reply.cuts[Len(stored) + 2] - 1))
  <1> DEFINE i == Len(stored) + 1
  <1>1. /\ i \in 1 .. Len(reply.cuts)
        /\ NextCut \in Nat /\ sent \in Nat
        /\ accumulated_data = Positions(NextCut, sent)
        /\ Len(accumulated_data) = sent - NextCut + 1
    BY Reading
  <1>2. reply \in Replies /\ current_msg_type = reply.kind
    BY DEF Inv, RingInv
  <1>3. Len(reply.cuts) \in Nat /\ n \in 1 .. 3
    BY <1>1, <1>2, ReplyFacts
  <1>4. i < Len(reply.cuts)
    BY <1>1, <1>2, <1>3, ReplyFacts
  <1>5. reply.cuts[i + 1] = NextCut + n
    <2>1. i \in 1 .. Len(reply.cuts) - 1
      BY <1>1, <1>3, <1>4
    <2>2. reply.cuts[i + 1] = reply.cuts[i] + SizeOf(reply, i)
      BY <1>2, <2>1, ReplyFacts
    <2> QED
      BY <2>2 DEF NextCut
  <1>6. /\ SubSeq(accumulated_data, 1, n) = Positions(NextCut, NextCut + n - 1)
        /\ Erase(accumulated_data, n) = Positions(NextCut + n, sent)
    <2>1. NextCut + n <= sent + 1 /\ n \in Nat
      BY <1>1, <1>3
    <2>2. SplitAt(NextCut, sent, n)
      BY <1>1, <2>1, PositionsSplit
    <2> QED
      BY <1>1, <2>2 DEF SplitAt
  <1>7. /\ stored' = Append(stored, Positions(NextCut, NextCut + n - 1))
        /\ accumulated_data' = Positions(NextCut + n, sent)
    BY <1>6 DEF PutAndErase
  <1>8. /\ stored \in Seq(Seq(Nat)) /\ Len(stored) \in Nat
        /\ \A k \in 1 .. Len(stored) : stored[k] = Positions(reply.cuts[k], reply.cuts[k + 1] - 1)
    BY DEF Inv, TypeInv, OrderInv
  <1>9. Positions(NextCut, NextCut + n - 1) \in Seq(Nat)
    <2>1. NextCut + n - 1 \in Nat /\ NextCut <= NextCut + n - 1 + 1
      BY <1>1, <1>3
    <2> QED
      BY <1>1, <2>1, PositionsType
  <1>10. /\ stored' \in Seq(Seq(Nat))
         /\ Len(stored') = Len(stored) + 1
         /\ \A k \in 1 .. Len(stored) : stored'[k] = stored[k]
         /\ stored'[Len(stored) + 1] = Positions(NextCut, NextCut + n - 1)
    BY <1>7, <1>8, <1>9, AppendProperties
  <1>11. reply' = reply /\ sent' = sent /\ pc' = pc /\ current_msg_type' = current_msg_type
    OBVIOUS
  <1>12. NextCut' = NextCut + n
    BY <1>5, <1>8, <1>10, <1>11 DEF NextCut
  <1>13. TypeInv'
    BY <1>8, <1>10, <1>11 DEF Inv, TypeInv
  <1>14. OrderInv'
    <2>1. stored'[i] = Positions(reply.cuts[i], reply.cuts[i + 1] - 1)
      <3>1. reply.cuts[i + 1] - 1 = NextCut + n - 1
        BY <1>1, <1>3, <1>5
      <3>2. reply.cuts[i] = NextCut
        BY DEF NextCut
      <3>3. stored'[i] = Positions(NextCut, NextCut + n - 1)
        BY <1>10
      <3> QED
        BY <3>1, <3>2, <3>3
    <2>2. ASSUME NEW k \in 1 .. Len(stored')
          PROVE  stored'[k] = Positions(reply.cuts[k], reply.cuts[k + 1] - 1)
      <3>1. CASE k = i
        BY <2>1, <3>1
      <3>2. CASE k # i
        <4>1. k \in 1 .. Len(stored)
          BY <1>8, <1>10, <3>2
        <4> QED
          BY <1>8, <1>10, <4>1
      <3> QED
        BY <3>1, <3>2
    <2>3. Len(stored') <= Len(reply.cuts) - 1
      BY <1>3, <1>4, <1>8, <1>10
    <2> QED
      BY <1>10, <1>11, <2>2, <2>3 DEF OrderInv
  <1>15. RingInv'
    <2>1. NextCut + n <= sent + 1
      BY <1>1, <1>3
    <2> QED
      BY <1>2, <1>7, <1>11, <1>12, <2>1 DEF RingInv
  <1>16. WaitInv' /\ DoneInv'
    BY <1>11 DEF WaitInv, DoneInv
  <1>17. NextCut + n - 1 = reply.cuts[Len(stored) + 2] - 1
    <2>1. i + 1 = Len(stored) + 2
      BY <1>8
    <2>2. reply.cuts[i + 1] = reply.cuts[Len(stored) + 2]
      BY <2>1
    <2>3. reply.cuts[i + 1] - 1 = NextCut + n - 1
      BY <1>1, <1>3, <1>5
    <2> QED
      BY <2>2, <2>3
  <1> QED
    BY <1>3, <1>4, <1>7, <1>8, <1>13, <1>14, <1>15, <1>16, <1>17 DEF Inv

\* An iteration that ends at the terminator.
LEMMA EndInv ==
  ASSUME Fits, Inv, current_msg_type # "none",
         FirstOf(reply, Len(stored) + 1) = "end",
         EndOfStream, UNCHANGED <<reply, sent>>
  PROVE  Inv' /\ Len(stored) = Len(reply.cuts) - 1
  <1>1. Len(stored) + 1 \in 1 .. Len(reply.cuts) /\ reply \in Replies
    BY Reading DEF Inv, RingInv
  <1>2. Len(reply.cuts) \in Nat /\ Len(stored) \in Nat
    BY <1>1, ReplyFacts DEF Inv, TypeInv
  <1>3. Len(stored) = Len(reply.cuts) - 1
    <2>1. SUFFICES ASSUME Len(stored) + 1 \in 1 .. Len(reply.cuts) - 1 PROVE FALSE
      BY <1>1, <1>2
    <2> QED
      BY <1>1, <2>1, ReplyFacts
  <1>4. /\ current_msg_type' = "none" /\ pc' = "idle" /\ stored' = stored
        /\ reply' = reply /\ sent' = sent
    BY DEF EndOfStream, Reset
  <1> QED
    BY <1>3, <1>4 DEF Inv, TypeInv, OrderInv, RingInv, WaitInv, DoneInv

\* An iteration that finds no whole entry.
LEMMA LeaveInv ==
  ASSUME Inv, current_msg_type # "none",
         Len(accumulated_data) < SizeOf(reply, Len(stored) + 1),
         Leave, UNCHANGED <<reply, sent>>
  PROVE  Inv'
  <1>1. /\ current_msg_type' = current_msg_type /\ pc' = "idle" /\ stored' = stored
        /\ accumulated_data' = accumulated_data /\ reply' = reply /\ sent' = sent
    BY DEF Leave, flow
  <1> QED
    BY <1>1 DEF Inv, TypeInv, OrderInv, RingInv, WaitInv, DoneInv, NextCut

-----------------------------------------------------------------------------
(* What an iteration is for EntryStream. *)

\* A step of the abstract reader, or none.
StreamStep == [Stream!StreamNext]_(Stream!streamVars)

\* There are as many entries as cuts but for the terminator.
LEMMA EntriesFacts ==
  ASSUME Fits, Inv
  PROVE  /\ Len(reply.cuts) \in Nat \ {0}
         /\ Len(Entries) = Len(reply.cuts) - 1
         /\ DOMAIN Entries = 1 .. Len(reply.cuts) - 1
         /\ \A i \in 1 .. Len(reply.cuts) - 1 :
              Entries[i] = Positions(reply.cuts[i], reply.cuts[i + 1] - 1)
  <1>1. Len(reply.cuts) \in Nat \ {0}
    BY ReplyFacts, NoReplyFacts DEF Inv, TypeInv
  <1> QED
    BY <1>1 DEF Entries, EntriesOf

\* Whatever is stored before the terminator is the whole answer.
LEMMA AllStored ==
  ASSUME Fits, Inv, Len(stored) = Len(reply.cuts) - 1
  PROVE  stored = Entries
  <1>1. stored \in Seq(Seq(Nat)) /\ DOMAIN stored = 1 .. Len(stored)
    BY DEF Inv, OrderInv
  <1>2. \A i \in 1 .. Len(stored) : stored[i] = Entries[i]
    BY EntriesFacts DEF Inv, OrderInv
  <1>3. DOMAIN stored = DOMAIN Entries
    BY <1>1, EntriesFacts
  <1>4. Entries = [i \in DOMAIN Entries |-> Entries[i]]
    BY DEF Entries, EntriesOf
  <1>5. stored = [i \in DOMAIN stored |-> stored[i]]
    BY <1>1
  <1> QED
    BY <1>1, <1>2, <1>3, <1>4, <1>5

\* An iteration that leaves the loop changes nothing that counts.
LEMMA LeaveStep ==
  ASSUME Leave, UNCHANGED <<reply, sent>>
  PROVE  StreamStep
  BY DEF Leave, flow, StreamStep, Stream!streamVars, Entries

\* Storing the entry at the front of the ring is Store.
LEMMA PutStep ==
  ASSUME Fits, Inv, pc = "loop", current_msg_type # "none",
         Len(accumulated_data) >= SizeOf(reply, Len(stored) + 1),
         FirstOf(reply, Len(stored) + 1) # "end",
         PutAndErase(SizeOf(reply, Len(stored) + 1)),
         UNCHANGED <<current_msg_type, pc, reply, sent>>
  PROVE  Inv' /\ StreamStep
  <1>1. /\ Inv'
        /\ Len(stored) < Len(reply.cuts) - 1
        /\ stored' = Append(stored, Positions(NextCut, reply.cuts[Len(stored) + 2] - 1))
    BY PutInv
  <1>2. Len(stored) \in Nat
    BY DEF Inv, TypeInv
  <1>3. Entries[Len(stored) + 1] = Positions(NextCut, reply.cuts[Len(stored) + 2] - 1)
    <2>1. Len(stored) + 1 \in 1 .. Len(reply.cuts) - 1 /\ Len(stored) + 1 + 1 = Len(stored) + 2
      BY <1>1, <1>2, EntriesFacts
    <2> QED
      BY <2>1, EntriesFacts DEF NextCut
  <1>4. Entries' = Entries /\ (current_msg_type # "none")' = (current_msg_type # "none")
    BY DEF Entries
  <1>5. Len(stored) < Len(Entries)
    BY <1>1, EntriesFacts
  <1>6. stored' = Append(stored, Entries[Len(stored) + 1])
    BY <1>1, <1>3
  <1>7. Stream!Store
    BY <1>4, <1>5, <1>6 DEF Stream!Store
  <1> QED
    BY <1>1, <1>7 DEF StreamStep, Stream!StreamNext

\* Reading the terminator is Finish.
LEMMA EndStep ==
  ASSUME Fits, Inv, current_msg_type # "none",
         FirstOf(reply, Len(stored) + 1) = "end",
         EndOfStream, UNCHANGED <<reply, sent>>
  PROVE  Inv' /\ StreamStep
  <1>1. Inv' /\ Len(stored) = Len(reply.cuts) - 1
    BY EndInv
  <1>2. stored = Entries
    BY <1>1, AllStored
  <1>3. Entries' = Entries /\ stored' = stored /\ current_msg_type' = "none"
    BY DEF Entries, EndOfStream, Reset
  <1>4. Stream!Finish
    BY <1>2, <1>3 DEF Stream!Finish
  <1> QED
    BY <1>1, <1>4 DEF StreamStep, Stream!StreamNext

\* A frontier is read when both of its units are there.
LEMMA FrontierEntryStep ==
  ASSUME Fits, Inv, FrontierEntry
  PROVE  Inv' /\ StreamStep
  <1>1. /\ current_msg_type = "frontier_req" /\ pc = "loop"
        /\ UNCHANGED <<reply, sent>>
    BY DEF FrontierEntry
  <1>2. SizeOf(reply, Len(stored) + 1) = 2
    BY <1>1 DEF Inv, RingInv, SizeOf
  <1>3. Len(accumulated_data) \in Nat /\ accumulated_data \in Seq(Nat)
    BY <1>1, Reading
  <1>4. CASE Len(accumulated_data) < 2
    BY <1>1, <1>2, <1>4, LeaveInv, LeaveStep DEF FrontierEntry
  <1>5. CASE Len(accumulated_data) >= 2
    <2>1. Value(accumulated_data[1]) = FirstOf(reply, Len(stored) + 1)
      <3>1. accumulated_data # <<>>
        BY <1>3, <1>5
      <3> QED
        BY <1>1, <3>1, Reading
    <2>2. CASE Value(accumulated_data[1]) = "end"
      <3>1. EndOfStream
        BY <1>3, <1>5, <2>2 DEF FrontierEntry
      <3> QED
        BY <1>1, <2>1, <2>2, <3>1, EndStep
    <2>3. CASE Value(accumulated_data[1]) # "end"
      <3>1. PutAndErase(2) /\ UNCHANGED <<current_msg_type, pc>>
        BY <1>3, <1>5, <2>3 DEF FrontierEntry
      <3> QED
        BY <1>1, <1>2, <1>5, <2>1, <2>3, <3>1, PutStep
    <2> QED
      BY <2>2, <2>3
  <1> QED
    BY <1>3, <1>4, <1>5

\* A block is read when all of its units are there.
LEMMA BlockEntryStep ==
  ASSUME Fits, Inv, BlockEntry
  PROVE  Inv' /\ StreamStep
  <1> DEFINE value == Value(accumulated_data[1])
  <1>1. /\ current_msg_type = "bulk_pull" /\ pc = "loop"
        /\ UNCHANGED <<reply, sent>>
    BY DEF BlockEntry, Inv, TypeInv
  <1>2. reply \in Replies /\ reply.kind = "bulk_pull"
    BY <1>1 DEF Inv, RingInv
  <1>3. /\ Len(accumulated_data) \in Nat /\ accumulated_data \in Seq(Nat)
        /\ Len(stored) + 1 \in 1 .. Len(reply.cuts)
    BY <1>1, Reading
  <1>4. SizeOf(reply, Len(stored) + 1) \in 1 .. 3
    BY <1>2, <1>3, ReplyFacts
  <1>5. CASE accumulated_data = <<>>
    <2>1. Len(accumulated_data) = 0 /\ Leave
      BY <1>5 DEF BlockEntry
    <2> QED
      BY <1>1, <1>4, <2>1, LeaveInv, LeaveStep
  <1>6. CASE accumulated_data # <<>>
    <2>1. value = FirstOf(reply, Len(stored) + 1)
      BY <1>1, <1>6, Reading
    <2>2. CASE value = "end"
      <3>1. EndOfStream
        BY <1>6, <2>2 DEF BlockEntry
      <3> QED
        BY <1>1, <2>1, <2>2, <3>1, EndStep
    <2>3. CASE value # "end"
      <3>1. Len(stored) + 1 \in 1 .. Len(reply.cuts) - 1
        <4>1. Len(stored) + 1 # Len(reply.cuts)
          BY <1>2, <2>1, <2>3, ReplyFacts
        <4> QED
          BY <1>2, <1>3, <4>1, ReplyFacts
      <3>2. value \in {"short", "long"}
        <4>1. value \in Values /\ value # "other"
          BY <1>2, <1>3, <2>1, <3>1, ReplyFacts
        <4> QED
          BY <2>3, <4>1 DEF Values
      <3>3. BlockSize[value] = SizeOf(reply, Len(stored) + 1)
        BY <1>2, <2>1, <3>2 DEF BlockSize, SizeOf
      <3>4. CASE Len(accumulated_data) < BlockSize[value]
        <4>1. Leave
          BY <1>6, <3>2, <3>4 DEF BlockEntry
        <4> QED
          BY <1>1, <3>3, <3>4, <4>1, LeaveInv, LeaveStep
      <3>5. CASE ~(Len(accumulated_data) < BlockSize[value])
        <4>1. PutAndErase(BlockSize[value]) /\ UNCHANGED <<current_msg_type, pc>>
          BY <1>6, <3>2, <3>5 DEF BlockEntry
        <4>2. Len(accumulated_data) >= SizeOf(reply, Len(stored) + 1)
          BY <1>3, <1>4, <3>3, <3>5
        <4>3. PutAndErase(SizeOf(reply, Len(stored) + 1))
          BY <3>3, <4>1
        <4> QED
          BY <1>1, <2>1, <2>3, <4>1, <4>2, <4>3, PutStep
      <3> QED
        BY <3>4, <3>5
    <2> QED
      BY <2>2, <2>3
  <1> QED
    BY <1>5, <1>6

\* A request is Begin.
LEMMA RequestStep ==
  ASSUME NEW r \in Replies, Fits, Request(r)
  PROVE  StreamStep
  <1>1. Entries' = EntriesOf(r) /\ stored' = <<>> /\ current_msg_type' # "none"
    BY DEF Request, Reset, Entries, Fits
  <1>2. current_msg_type = "none"
    BY DEF Request
  <1>3. Entries' \in {EntriesOf(x) : x \in Replies}
    BY <1>1
  <1>4. Stream!Begin
    BY <1>1, <1>2, <1>3 DEF Stream!Begin
  <1> QED
    BY <1>4 DEF StreamStep, Stream!StreamNext

\* A new connection is Abandon.
LEMMA ConnectionStartStep ==
  ASSUME ConnectionStart
  PROVE  StreamStep
  <1>1. /\ Entries' = EntriesOf(NoReply) /\ stored' = <<>> /\ current_msg_type' = "none"
    BY DEF ConnectionStart, Reset, Entries
  <1>2. EntriesOf(NoReply) = <<>>
    BY DEF EntriesOf, NoReply
  <1>3. Stream!Abandon
    BY <1>1, <1>2 DEF Stream!Abandon
  <1> QED
    BY <1>3 DEF StreamStep, Stream!StreamNext

\* Every step keeps the invariant and is one of the reader, or none.
LEMMA NextStep ==
  ASSUME Fits, Inv, [Next]_vars
  PROVE  Inv' /\ StreamStep
  <1>1. CASE UNCHANGED vars
    BY <1>1 DEF vars, flow, Inv, TypeInv, OrderInv, RingInv, WaitInv, DoneInv, NextCut,
                StreamStep, Stream!streamVars, Entries
  <1>2. ASSUME NEW r \in Replies, Request(r)
        PROVE  Inv' /\ StreamStep
    BY <1>2, RequestInv, RequestStep
  <1>3. ASSUME NEW r \in Replies, NEW n \in 0 .. MaxPayload, RequestPush(r, n)
        PROVE  FALSE
    BY <1>3 DEF RequestPush, Fits
  <1>4. ASSUME NEW n \in 1 .. MaxPayload, Payload(n)
        PROVE  Inv' /\ StreamStep
    <2>1. Inv'
      BY <1>4, PayloadInv
    <2>2. StreamStep
      BY <1>4 DEF Payload, StreamStep, Stream!streamVars, Entries
    <2> QED
      BY <2>1, <2>2
  <1>5. ASSUME NEW n \in 1 .. MaxPayload, MissingData(n)
        PROVE  FALSE
    BY <1>5 DEF MissingData, Fits
  <1>6. CASE ConnectionStart
    BY <1>6, ConnectionStartInv, ConnectionStartStep
  <1>7. CASE Decode
    <2>1. CASE FrontierEntry
      BY <2>1, FrontierEntryStep
    <2>2. CASE BlockEntry
      BY <2>2, BlockEntryStep
    <2>3. CASE BalanceEntry \/ AccountEntry
      BY <2>3 DEF BalanceEntry, AccountEntry, Inv, TypeInv
    <2>4. CASE PutFails
      BY <2>4 DEF PutFails, Fits
    <2> QED
      BY <1>7, <2>1, <2>2, <2>3, <2>4 DEF Decode, Iterate
  <1> QED
    BY <1>1, <1>2, <1>3, <1>4, <1>5, <1>6, <1>7 DEF Next

-----------------------------------------------------------------------------
(* The theorems. *)

\* Together they hold of every behaviour under Fits.
LEMMA Invariance ==
  ASSUME Fits
  PROVE  Spec => []Inv
  <1>1. Init => Inv
    BY InitInv
  <1>2. Inv /\ [Next]_vars => Inv'
    BY NextStep
  <1> QED
    BY <1>1, <1>2, PTL DEF Spec

\* What is stored is a prefix of the entries sent.
LEMMA OrderedWhenInv ==
  ASSUME Fits, Inv
  PROVE  EntriesInOrder
  <1>1. ASSUME NEW i \in 1 .. Len(stored)
        PROVE  stored[i] = Entries[i]
    <2>1. i \in 1 .. Len(reply.cuts) - 1
      BY EntriesFacts DEF Inv, TypeInv, OrderInv
    <2> QED
      BY <2>1, EntriesFacts DEF Inv, OrderInv
  <1>2. Len(stored) <= Len(Entries)
    BY EntriesFacts DEF Inv, OrderInv
  <1> QED
    BY <1>1, <1>2 DEF EntriesInOrder

\* When all is sent and handled, the terminator has been read.
LEMMA WholeWhenInv ==
  ASSUME Fits, Inv
  PROVE  WholeStreamStored
  <1>1. SUFFICES ASSUME pc = "idle", sent = Len(reply.units)
                 PROVE  current_msg_type = "none" /\ stored = Entries
    BY DEF WholeStreamStored
  <1>2. current_msg_type = "none"
    <2>1. SUFFICES ASSUME current_msg_type # "none" PROVE FALSE
      OBVIOUS
    <2> DEFINE i == Len(stored) + 1
               size == SizeOf(reply, i)
    <2>2. reply \in Replies
      BY <2>1 DEF Inv, RingInv
    <2>3. /\ i \in 1 .. Len(reply.cuts) /\ sent \in Nat /\ NextCut \in Nat
          /\ Len(accumulated_data) = sent - NextCut + 1
      BY <2>1, Reading
    <2>4. NextCut + size - 1 <= sent /\ size \in 1 .. 3
      BY <1>1, <2>2, <2>3, ReplyFacts DEF NextCut
    <2>5. Len(accumulated_data) < size
      BY <1>1, <2>1 DEF Inv, WaitInv
    <2> QED
      BY <2>3, <2>4, <2>5
  <1>3. Len(stored) = Len(reply.cuts) - 1
    BY <1>2 DEF Inv, DoneInv
  <1> QED
    BY <1>2, <1>3, AllStored

\* Between payloads the ring is too short for what it begins.
LEMMA WaitsWhenInv ==
  ASSUME Fits, Inv
  PROVE  NothingReadyWaits
  <1>1. SUFFICES ASSUME pc = "idle", current_msg_type # "none"
                 PROVE  ~EntryReady
    BY DEF NothingReadyWaits
  <1> DEFINE i == Len(stored) + 1
             value == Value(accumulated_data[1])
  <1>2. /\ reply \in Replies /\ current_msg_type = reply.kind
        /\ Len(accumulated_data) < SizeOf(reply, i)
    BY <1>1 DEF Inv, RingInv, WaitInv
  <1>3. /\ i \in 1 .. Len(reply.cuts)
        /\ accumulated_data \in Seq(Nat) /\ Len(accumulated_data) \in Nat
        /\ accumulated_data # <<>> => value = FirstOf(reply, i)
    BY <1>1, Reading
  <1>4. CASE current_msg_type = "frontier_req"
    <2>1. ~(Len(accumulated_data) >= 2)
      BY <1>2, <1>3, <1>4 DEF SizeOf
    <2> QED
      BY <1>4, <2>1 DEF EntryReady
  <1>5. CASE current_msg_type = "bulk_pull"
    <2>1. SUFFICES ASSUME accumulated_data # <<>>
                   PROVE  /\ value \in DOMAIN BlockSize
                          /\ ~(Len(accumulated_data) >= BlockSize[value])
      BY <1>5 DEF EntryReady
    <2>2. value = FirstOf(reply, i) /\ Len(accumulated_data) >= 1
      BY <1>3, <2>1
    <2>3. FirstOf(reply, i) # "end"
      BY <1>2, <1>3, <1>5, <2>2 DEF SizeOf
    <2>4. FirstOf(reply, i) \in {"short", "long"}
      <3>1. /\ FirstOf(reply, i) \in Values
            /\ FirstOf(reply, Len(reply.cuts)) = "end" /\ Len(reply.cuts) \in Nat
            /\ \A j \in 1 .. Len(reply.cuts) - 1 : FirstOf(reply, j) # "other"
        BY <1>2, <1>3, <1>5, ReplyFacts
      <3>2. i \in 1 .. Len(reply.cuts) - 1
        BY <1>3, <2>3, <3>1
      <3> QED
        BY <2>3, <3>1, <3>2 DEF Values
    <2>5. CASE FirstOf(reply, i) = "short"
      BY <1>2, <1>3, <1>5, <2>2, <2>5 DEF SizeOf, BlockSize
    <2>6. CASE FirstOf(reply, i) = "long"
      BY <1>2, <1>3, <1>5, <2>2, <2>6 DEF SizeOf, BlockSize
    <2> QED
      BY <2>4, <2>5, <2>6
  <1>6. current_msg_type \in {"frontier_req", "bulk_pull"}
    BY <1>1 DEF Inv, TypeInv
  <1> QED
    BY <1>4, <1>5, <1>6

\* For every capacity, payload size and answer to frontier_req or bulk_pull:
\* handle_tcp stores the entries sent, in order, each once and whole, wherever
\* the stream is cut into payloads, if the ring has room for a payload behind
\* a partial entry.
THEOREM OrderCorrect ==
  ASSUME Fits
  PROVE  Spec => []EntriesInOrder
  <1>1. Inv => EntriesInOrder
    BY OrderedWhenInv
  <1> QED
    BY <1>1, Invariance, PTL

\* Whatever can be stored is: between payloads handle_tcp leaves no complete
\* entry in the ring, however the stream is cut.
THEOREM WaitingCorrect ==
  ASSUME Fits
  PROVE  Spec => []NothingReadyWaits
  <1>1. Inv => NothingReadyWaits
    BY WaitsWhenInv
  <1> QED
    BY <1>1, Invariance, PTL

\* Under the same conditions no answer is left half read: when the peer has
\* sent its terminator and handle_tcp has returned, every entry is stored and
\* the flow takes messages again.
THEOREM WholeCorrect ==
  ASSUME Fits
  PROVE  Spec => []WholeStreamStored
  <1>1. Inv => WholeStreamStored
    BY WholeWhenInv
  <1> QED
    BY <1>1, Invariance, PTL

\* handle_tcp with its ring, its payloads and its parsers implements reading
\* the stream entry by entry.
THEOREM ImplementsStreamCorrect ==
  ASSUME Fits
  PROVE  Spec => ImplementsStream
  <1>1. Init => Stream!StreamInit
    BY DEF Init, NoReply, Stream!StreamInit, Entries, EntriesOf
  <1>2. Inv /\ [Next]_vars => StreamStep
    BY NextStep
  <1> QED
    BY <1>1, <1>2, Invariance, PTL DEF Spec, ImplementsStream, Stream!StreamSpec, StreamStep

-----------------------------------------------------------------------------
(* Types, without any of the conditions of Fits. *)

\* Every position sent is one of the stream.
LEMMA SeqWidens ==
  ASSUME NEW S, NEW T, S \subseteq T, NEW s \in Seq(S)
  PROVE  s \in Seq(T)
  OBVIOUS

\* A part of a ring holds what the ring holds.
LEMMA SubSeqType ==
  ASSUME NEW S, NEW s \in Seq(S), NEW a \in 1 .. Len(s) + 1, NEW b \in 0 .. Len(s)
  PROVE  /\ SubSeq(s, a, b) \in Seq(S)
         /\ Len(SubSeq(s, a, b)) = IF a <= b THEN b - a + 1 ELSE 0
  <1>1. \A i \in a .. b : s[i] \in S
    OBVIOUS
  <1> QED
    BY <1>1, SubSeqProperties

\* Erasing the first n elements leaves the others.
LEMMA EraseType ==
  ASSUME NEW S, NEW s \in Seq(S), NEW n \in 0 .. Len(s)
  PROVE  Erase(s, n) \in Seq(S) /\ Len(Erase(s, n)) = Len(s) - n
  <1>1. n + 1 \in 1 .. Len(s) + 1 /\ Len(s) \in 0 .. Len(s)
    OBVIOUS
  <1> QED
    BY <1>1, SubSeqType DEF Erase

\* The memory behind them has as many cells as before.
LEMMA ShiftedType ==
  ASSUME NEW S, NEW s \in Seq(S), NEW n \in 0 .. Len(s)
  PROVE  Shifted(s, n) \in Seq(S) /\ Len(Shifted(s, n)) = Len(s)
  <1>1. \A j \in 1 .. Len(s) : (IF j + n <= Len(s) THEN s[j + n] ELSE s[j]) \in S
    OBVIOUS
  <1> QED
    BY <1>1 DEF Shifted

\* push_back never exceeds the capacity of the ring.
LEMMA PushBackType ==
  ASSUME NEW S, NEW data \in Seq(S), NEW new \in Seq(S)
  PROVE  PushBack(data, new) \in Seq(S) /\ Len(PushBack(data, new)) <= Capacity
  <1> DEFINE all == data \o new
  <1>1. all \in Seq(S) /\ Len(all) \in Nat
    OBVIOUS
  <1>2. Capacity \in Nat /\ Capacity > 0
    BY StreamDecoderAssumption
  <1> HIDE DEF all
  <1>3. CASE Len(all) <= Capacity
    BY <1>1, <1>3 DEF PushBack, all
  <1>4. CASE Len(all) > Capacity
    <2>1. Len(all) - Capacity + 1 \in 1 .. Len(all) + 1 /\ Len(all) \in 0 .. Len(all)
      BY <1>1, <1>2, <1>4
    <2>2. /\ SubSeq(all, Len(all) - Capacity + 1, Len(all)) \in Seq(S)
          /\ Len(SubSeq(all, Len(all) - Capacity + 1, Len(all))) = Capacity
      BY <1>1, <1>2, <1>4, <2>1, SubSeqType
    <2> QED
      BY <1>1, <1>2, <1>4, <2>2 DEF PushBack, all
  <1> QED
    BY <1>1, <1>2, <1>3, <1>4

\* The streams are numbered units of known values, one of the four kinds.
LEMMA UnitsType ==
  ASSUME NEW r \in Replies \cup {NoReply}
  PROVE  /\ r.units \in Seq(Values) /\ Len(r.units) \in Nat
         /\ r.kind \in Streams /\ r.flags \in {0, 1, 2}
  <1>1. CASE r \in Replies
    BY <1>1, StreamDecoderAssumption DEF IsReply
  <1>2. CASE r = NoReply
    BY <1>2 DEF NoReply, Streams
  <1> QED
    BY <1>1, <1>2

\* What the flow and the history may be, the stream being as it is; the parser
\* sees something else than the ring only behind a balance entry, and the ring
\* is empty when no stream is expected.
FlowType ==
  /\ current_msg_type \in Streams \cup {"none"}
  /\ request_flags \in {0, 1, 2}
  /\ step \in {0, 1}
  /\ accumulated_data \in Seq(1 .. sent)
  /\ Len(accumulated_data) <= Capacity
  /\ pc \in {"idle", "loop", "rest"}
  /\ rest \in Seq(1 .. sent)
  /\ pc # "rest" => rest = <<>>
  /\ current_msg_type = "none" => accumulated_data = <<>>
  /\ stored \in Seq(Seq(1 .. Len(reply.units)))

SentType == reply \in Replies \cup {NoReply} /\ sent \in 0 .. Len(reply.units)

Typed == FlowType /\ SentType

\* After a reset the ring is empty.
LEMMA ResetType ==
  ASSUME NEW type \in Streams \cup {"none"}, NEW flags \in {0, 1, 2}, Reset(type, flags),
         pc' = "idle", rest' = <<>>, stored' \in Seq(Seq(1 .. Len(reply'.units)))
  PROVE  FlowType'
  <1>1. Len(<<>>) <= Capacity /\ <<>> \in Seq(1 .. sent')
    BY StreamDecoderAssumption
  <1> QED
    BY <1>1 DEF Reset, FlowType

\* An entry that is put holds positions of the stream.
LEMMA StoreType ==
  ASSUME Typed, NEW s \in Seq(1 .. sent), NEW n \in 1 .. Len(s),
         stored' = Append(stored, SubSeq(s, 1, n))
  PROVE  stored' \in Seq(Seq(1 .. Len(reply.units)))
  <1>1. sent \in Nat /\ sent <= Len(reply.units) /\ Len(reply.units) \in Nat
    BY UnitsType DEF Typed, FlowType, SentType
  <1>2. SubSeq(s, 1, n) \in Seq(1 .. sent)
    <2>1. 1 \in 1 .. Len(s) + 1 /\ n \in 0 .. Len(s)
      OBVIOUS
    <2> QED
      BY <2>1, SubSeqType
  <1>3. 1 .. sent \subseteq 1 .. Len(reply.units)
    BY <1>1
  <1>4. SubSeq(s, 1, n) \in Seq(1 .. Len(reply.units))
    BY <1>2, <1>3, SeqWidens
  <1>5. stored \in Seq(Seq(1 .. Len(reply.units)))
    BY DEF Typed, FlowType, SentType
  <1> DEFINE T == Seq(1 .. Len(reply.units))
             e == SubSeq(s, 1, n)
  <1>6. e \in T /\ stored \in Seq(T)
    BY <1>4, <1>5
  <1> HIDE DEF T, e
  <1>7. Append(stored, e) \in Seq(T)
    BY <1>6, AppendProperties
  <1> QED
    BY <1>7 DEF T, e

\* An entry is put and erased.
LEMMA PutType ==
  ASSUME Typed, NEW n \in 1 .. Len(accumulated_data), PutAndErase(n)
  PROVE  /\ stored' \in Seq(Seq(1 .. Len(reply.units)))
         /\ accumulated_data' \in Seq(1 .. sent)
         /\ Len(accumulated_data') <= Capacity
  <1>1. accumulated_data \in Seq(1 .. sent) /\ Len(accumulated_data) <= Capacity
    BY DEF Typed, FlowType, SentType
  <1>2. stored' \in Seq(Seq(1 .. Len(reply.units)))
    BY <1>1, StoreType DEF PutAndErase
  <1>3. n \in 0 .. Len(accumulated_data) /\ Len(accumulated_data) \in Nat
    BY <1>1
  <1>4. /\ Erase(accumulated_data, n) \in Seq(1 .. sent)
        /\ Len(Erase(accumulated_data, n)) = Len(accumulated_data) - n
    BY <1>1, <1>3, EraseType
  <1>5. Capacity \in Nat
    BY StreamDecoderAssumption
  <1> QED
    BY <1>1, <1>2, <1>3, <1>4, <1>5 DEF PutAndErase

\* A loop that is left changes neither ring nor history.
LEMMA LeaveType ==
  ASSUME Typed, Leave, UNCHANGED <<reply, sent>>
  PROVE  Typed'
  <1>1. <<>> \in Seq(1 .. sent)
    OBVIOUS
  <1> QED
    BY <1>1 DEF Typed, FlowType, SentType, Leave, flow

\* The end of a stream empties the ring.
LEMMA EndType ==
  ASSUME Typed, EndOfStream, UNCHANGED <<reply, sent>>
  PROVE  Typed'
  <1>1. /\ Reset("none", 0) /\ pc' = "idle" /\ rest' = <<>>
        /\ stored' \in Seq(Seq(1 .. Len(reply'.units)))
    BY DEF Typed, FlowType, EndOfStream
  <1>2. FlowType'
    BY <1>1, ResetType
  <1> QED
    BY <1>2 DEF Typed, SentType

\* A put of a frontier or of a block goes on with the loop.
LEMMA PutStays ==
  ASSUME Typed, current_msg_type # "none", NEW n \in 1 .. Len(accumulated_data), PutAndErase(n),
         UNCHANGED <<current_msg_type, request_flags, step, pc, rest, reply, sent>>
  PROVE  Typed'
  BY PutType DEF Typed, FlowType, SentType

\* A request resets the flow and begins a new stream.
LEMMA RequestType ==
  ASSUME Typed, NEW r \in Replies, Request(r)
  PROVE  Typed'
  <1>1. r.kind \in Streams /\ r.flags \in {0, 1, 2} /\ Len(r.units) \in Nat
    BY UnitsType
  <1>2. /\ Reset(r.kind, r.flags) /\ reply' = r /\ sent' = 0 /\ stored' = <<>>
        /\ pc' = "idle" /\ rest' = <<>>
    BY DEF Request, Typed, FlowType
  <1>3. FlowType'
    BY <1>1, <1>2, ResetType
  <1> QED
    BY <1>1, <1>2, <1>3 DEF Typed, SentType

\* So does a bulk_push, unless it is not understood.
LEMMA RequestPushType ==
  ASSUME Typed, NEW r \in Replies, NEW n \in 0 .. MaxPayload, RequestPush(r, n)
  PROVE  Typed'
  <1>1. r.kind \in Streams /\ Len(r.units) \in Nat /\ n \in Nat
    BY UnitsType, StreamDecoderAssumption
  <1>2. /\ reply' = r /\ sent' = n /\ stored' = <<>> /\ n <= Len(r.units)
        /\ pc' = "idle" /\ rest' = <<>> /\ current_msg_type = "none"
        /\ sent = Len(reply.units)
        /\ Reset(r.kind, 0) \/ UNCHANGED flow
    BY DEF RequestPush, Typed, FlowType
  <1>3. CASE Reset(r.kind, 0)
    <2>1. FlowType'
      BY <1>1, <1>2, <1>3, ResetType
    <2> QED
      BY <1>1, <1>2, <2>1 DEF Typed, SentType
  <1>4. CASE UNCHANGED flow
    <2>1. accumulated_data' = <<>> /\ <<>> \in Seq(1 .. sent')
          /\ <<>> \in Seq(Seq(1 .. Len(reply'.units)))
      BY <1>2, <1>4 DEF Typed, FlowType, flow
    <2> QED
      BY <1>1, <1>2, <1>4, <2>1 DEF Typed, FlowType, SentType, flow
  <1> QED
    BY <1>2, <1>3, <1>4

\* A payload goes into the ring, whose oldest units it may overwrite.
LEMMA PayloadType ==
  ASSUME Typed, NEW n \in 1 .. MaxPayload, Payload(n)
  PROVE  Typed'
  <1>1. /\ reply' = reply /\ stored' = stored /\ sent' = sent + n
        /\ UNCHANGED <<current_msg_type, request_flags, step, rest>>
        /\ pc = "idle" /\ sent + n <= Len(reply.units)
    BY DEF Payload
  <1>2. Len(reply.units) \in Nat /\ sent \in Nat /\ n \in Nat
    BY UnitsType, StreamDecoderAssumption DEF Typed, SentType
  <1>3. SentType'
    BY <1>1, <1>2 DEF Typed, SentType
  <1>4. rest' = <<>> /\ <<>> \in Seq(1 .. sent')
    BY <1>1 DEF Typed, FlowType
  <1>5. CASE current_msg_type = "none"
    <2>1. pc' = pc /\ accumulated_data' = <<>>
      BY <1>5 DEF Payload, Typed, FlowType
    <2>2. Len(<<>>) <= Capacity
      BY StreamDecoderAssumption
    <2>3. /\ <<>> \in Seq(1 .. sent') /\ pc' = "idle"
          /\ UNCHANGED <<reply, stored, current_msg_type, request_flags, step>>
      BY <1>1, <2>1
    <2> QED
      BY <1>3, <1>4, <2>1, <2>2, <2>3 DEF Typed, FlowType
  <1>6. CASE current_msg_type # "none"
    <2>1. /\ pc' = "loop"
          /\ accumulated_data' = PushBack(accumulated_data, Positions(sent + 1, sent + n))
      BY <1>6 DEF Payload
    <2>2. accumulated_data \in Seq(1 .. sent')
      <3>1. 1 .. sent \subseteq 1 .. sent'
        BY <1>1, <1>2
      <3>2. accumulated_data \in Seq(1 .. sent)
        BY DEF Typed, FlowType
      <3> QED
        BY <3>1, <3>2, SeqWidens
    <2>3. Positions(sent + 1, sent + n) \in Seq(1 .. sent')
      BY <1>1, <1>2 DEF Positions
    <2>4. accumulated_data' \in Seq(1 .. sent') /\ Len(accumulated_data') <= Capacity
      BY <2>1, <2>2, <2>3, PushBackType
    <2> QED
      BY <1>1, <1>3, <1>4, <1>6, <2>1, <2>4 DEF Typed, FlowType
  <1> QED
    BY <1>5, <1>6

\* A payload that is dropped leaves the ring as it is.
LEMMA MissingDataType ==
  ASSUME Typed, NEW n \in 1 .. MaxPayload, MissingData(n)
  PROVE  Typed'
  <1>1. /\ UNCHANGED <<flow, pc, rest, reply, stored>> /\ sent' = sent + n
        /\ sent + n <= Len(reply.units)
    BY DEF MissingData
  <1>2. Len(reply.units) \in Nat /\ sent \in Nat /\ n \in Nat
    BY UnitsType, StreamDecoderAssumption DEF Typed, SentType
  <1>3. 1 .. sent \subseteq 1 .. sent'
    BY <1>1, <1>2
  <1>4. accumulated_data \in Seq(1 .. sent) /\ rest \in Seq(1 .. sent)
    BY DEF Typed, FlowType
  <1>5. accumulated_data' \in Seq(1 .. sent') /\ rest' \in Seq(1 .. sent')
    BY <1>1, <1>3, <1>4, SeqWidens DEF flow
  <1>6. SentType'
    BY <1>1, <1>2 DEF Typed, SentType
  <1> QED
    BY <1>1, <1>5, <1>6 DEF Typed, FlowType, flow

\* The start of a connection forgets the stream.
LEMMA ConnectionStartType ==
  ASSUME Typed, ConnectionStart
  PROVE  Typed'
  <1>1. /\ Reset("none", 0) /\ pc' = "idle" /\ rest' = <<>>
        /\ reply' = NoReply /\ sent' = 0 /\ stored' = <<>>
    BY DEF ConnectionStart, Typed, FlowType
  <1>2. FlowType'
    BY <1>1, ResetType
  <1> QED
    BY <1>1, <1>2, UnitsType DEF Typed, SentType

\* One iteration over frontiers.
LEMMA FrontierEntryType ==
  ASSUME Typed, FrontierEntry
  PROVE  Typed'
  <1>1. current_msg_type = "frontier_req" /\ UNCHANGED <<reply, sent>>
        /\ Len(accumulated_data) \in Nat
    BY DEF FrontierEntry, Typed, FlowType
  <1>2. CASE Leave
    BY <1>1, <1>2, LeaveType
  <1>3. CASE EndOfStream
    BY <1>1, <1>3, EndType
  <1>4. CASE /\ Len(accumulated_data) >= 2 /\ PutAndErase(2)
             /\ UNCHANGED <<current_msg_type, request_flags, step, pc, rest>>
    BY <1>1, <1>4, PutStays
  <1> QED
    BY <1>1, <1>2, <1>3, <1>4 DEF FrontierEntry

\* One iteration over blocks.
LEMMA BlockEntryType ==
  ASSUME Typed, BlockEntry
  PROVE  Typed'
  <1> DEFINE value == Value(accumulated_data[1])
  <1>1. /\ current_msg_type \in {"bulk_pull", "bulk_push"} /\ UNCHANGED <<reply, sent>>
        /\ accumulated_data \in Seq(1 .. sent) /\ Len(accumulated_data) \in Nat
    BY DEF BlockEntry, Typed, FlowType
  <1>2. CASE accumulated_data = <<>>
    <2>1. Leave
      BY <1>2 DEF BlockEntry
    <2> QED
      BY <1>1, <2>1, LeaveType
  <1>3. CASE accumulated_data # <<>>
    <2>1. value \in Values
      <3>1. accumulated_data[1] \in 1 .. Len(reply.units)
        BY <1>1, <1>3, UnitsType DEF Typed, SentType
      <3>2. reply.units \in Seq(Values)
        BY UnitsType DEF Typed, SentType
      <3> QED
        BY <3>1, <3>2 DEF Value
    <2> HIDE DEF value
    <2>2. CASE value = "end"
      <3>1. EndOfStream
        BY <1>3, <2>2 DEF BlockEntry, value
      <3> QED
        BY <1>1, <3>1, EndType
    <2>3. CASE value = "other"
      <3>1. /\ accumulated_data' = <<>>
            /\ UNCHANGED <<current_msg_type, request_flags, step, pc, rest, stored>>
        BY <1>3, <2>3 DEF BlockEntry, value
      <3>2. Len(<<>>) <= Capacity /\ <<>> \in Seq(1 .. sent')
        BY StreamDecoderAssumption
      <3> QED
        BY <1>1, <3>1, <3>2 DEF Typed, FlowType, SentType
    <2>4. CASE value \in {"short", "long"}
      <3> DEFINE n == BlockSize[value]
      <3>1. n \in {2, 3}
        BY <2>4 DEF BlockSize
      <3>2. IF Len(accumulated_data) < n
              THEN Leave
              ELSE /\ PutAndErase(n)
                   /\ UNCHANGED <<current_msg_type, request_flags, step, pc, rest>>
        BY <1>3, <2>4 DEF BlockEntry, value
      <3> HIDE DEF n
      <3>3. CASE Leave
        BY <1>1, <3>3, LeaveType
      <3>4. CASE /\ ~(Len(accumulated_data) < n) /\ PutAndErase(n)
                 /\ UNCHANGED <<current_msg_type, request_flags, step, pc, rest>>
        <4>1. n \in 1 .. Len(accumulated_data)
          BY <1>1, <3>1, <3>4
        <4> QED
          BY <1>1, <3>4, <4>1, PutStays
      <3> QED
        BY <3>2, <3>3, <3>4
    <2> QED
      BY <2>1, <2>2, <2>3, <2>4 DEF Values
  <1> QED
    BY <1>2, <1>3

\* The balance entry leaves the parser over memory the erase has moved.
LEMMA BalanceEntryType ==
  ASSUME Typed, BalanceEntry
  PROVE  Typed'
  <1>1. /\ current_msg_type = "bulk_pull_account" /\ UNCHANGED <<reply, sent>>
        /\ accumulated_data \in Seq(1 .. sent) /\ Len(accumulated_data) \in Nat
    BY DEF BalanceEntry, Typed, FlowType
  <1>2. CASE Leave
    BY <1>1, <1>2, LeaveType
  <1>3. CASE /\ Len(accumulated_data) >= 2 /\ PutAndErase(2)
             /\ step' = 1 /\ pc' = "rest"
             /\ rest' = Erase(Shifted(accumulated_data, 2), 2)
             /\ UNCHANGED <<current_msg_type, request_flags>>
    <2>1. 2 \in 0 .. Len(accumulated_data) /\ 2 \in 1 .. Len(accumulated_data)
      BY <1>1, <1>3
    <2>2. /\ Shifted(accumulated_data, 2) \in Seq(1 .. sent)
          /\ Len(Shifted(accumulated_data, 2)) = Len(accumulated_data)
      BY <1>1, <2>1, ShiftedType
    <2>3. rest' \in Seq(1 .. sent)
      BY <1>3, <2>1, <2>2, EraseType
    <2> QED
      BY <1>1, <1>3, <2>1, <2>3, PutType DEF Typed, FlowType, SentType
  <1> QED
    BY <1>1, <1>2, <1>3 DEF BalanceEntry

\* An entry of an account is put from the ring or from that memory.
LEMMA AccountEntryType ==
  ASSUME Typed, AccountEntry
  PROVE  Typed'
  <1> DEFINE size == AccountEntrySize[request_flags]
  <1>1. /\ current_msg_type = "bulk_pull_account" /\ UNCHANGED <<reply, sent>>
        /\ request_flags \in {0, 1, 2}
    BY DEF AccountEntry, Typed, FlowType
  <1>2. AccountData \in Seq(1 .. sent)
    BY DEF AccountData, Typed, FlowType
  <1>3. size \in {1, 2, 3}
    BY <1>1 DEF AccountEntrySize
  <1>4. \/ Leave
        \/ EndOfStream
        \/ /\ ~(Len(AccountData) < size)
           /\ stored' \in {stored, Append(stored, SubSeq(AccountData, 1, size))}
           /\ pc' = "loop" /\ rest' = <<>> /\ UNCHANGED flow
    BY DEF AccountEntry
  <1> HIDE DEF size
  <1>5. CASE Leave
    BY <1>1, <1>5, LeaveType
  <1>6. CASE EndOfStream
    BY <1>1, <1>6, EndType
  <1>7. CASE /\ ~(Len(AccountData) < size)
             /\ stored' \in {stored, Append(stored, SubSeq(AccountData, 1, size))}
             /\ pc' = "loop" /\ rest' = <<>> /\ UNCHANGED flow
    <2>1. size \in 1 .. Len(AccountData)
      BY <1>2, <1>3, <1>7
    <2>2. stored' \in Seq(Seq(1 .. Len(reply.units)))
      <3>1. CASE stored' = Append(stored, SubSeq(AccountData, 1, size))
        BY <1>2, <2>1, <3>1, StoreType
      <3>2. CASE stored' = stored
        BY <3>2 DEF Typed, FlowType
      <3> QED
        BY <1>7, <3>1, <3>2
    <2>3. <<>> \in Seq(1 .. sent)
      OBVIOUS
    <2> QED
      BY <1>1, <1>7, <2>2, <2>3 DEF Typed, FlowType, SentType, flow
  <1> QED
    BY <1>4, <1>5, <1>6, <1>7

\* Every step keeps the types.
LEMMA TypedNext == Typed /\ [Next]_vars => Typed'
  <1> SUFFICES ASSUME Typed, [Next]_vars PROVE Typed'
    OBVIOUS
  <1>1. CASE \E r \in Replies : Request(r)
    BY <1>1, RequestType
  <1>2. CASE \E r \in Replies, n \in 0 .. MaxPayload : RequestPush(r, n)
    BY <1>2, RequestPushType
  <1>3. CASE \E n \in 1 .. MaxPayload : Payload(n)
    BY <1>3, PayloadType
  <1>4. CASE \E n \in 1 .. MaxPayload : MissingData(n)
    BY <1>4, MissingDataType
  <1>5. CASE ConnectionStart
    BY <1>5, ConnectionStartType
  <1>6. CASE FrontierEntry \/ BlockEntry \/ BalanceEntry \/ AccountEntry
    BY <1>6, FrontierEntryType, BlockEntryType, BalanceEntryType, AccountEntryType
  <1>7. CASE PutFails
    BY <1>7, LeaveType DEF PutFails
  <1>8. CASE UNCHANGED vars
    BY <1>8 DEF vars, flow, Typed, FlowType, SentType
  <1> QED
    BY <1>1, <1>2, <1>3, <1>4, <1>5, <1>6, <1>7, <1>8 DEF Next, Decode, Iterate

\* Whatever peers send, whatever is missed and whichever put throws: the ring
\* never holds more than its capacity, only units of the present stream, and
\* no decoding loop reads beyond what was sent.
THEOREM TypeCorrect == Spec => []TypeOK
  <1>1. Init => Typed
    <2>1. Len(<<>>) <= Capacity
      BY StreamDecoderAssumption
    <2> QED
      BY <2>1, NoReplyFacts DEF Init, Typed, FlowType, SentType
  <1>2. Typed => TypeOK
    BY DEF Typed, FlowType, SentType, TypeOK
  <1> QED
    BY <1>1, <1>2, TypedNext, PTL DEF Spec

=============================================================================
