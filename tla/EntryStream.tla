---------------------------- MODULE EntryStream ----------------------------
(***************************************************************************)
(* What reading a bootstrap stream promises, without payloads, buffers or  *)
(* parsing: the entries of the answer are stored one by one in the order   *)
(* in which the peer wrote them, each once and each whole, and the stream  *)
(* is over when all of them are stored, or when the connection is reused.  *)
(***************************************************************************)
EXTENDS Naturals, Sequences

CONSTANT
  Answers  \* the sequences of entries a peer may write before the terminator

VARIABLES
  answer,  \* the entries of the current answer
  read,    \* those stored so far
  open     \* is the stream being read?

streamVars == <<answer, read, open>>

StreamInit ==
  /\ answer = <<>>
  /\ read = <<>>
  /\ open = FALSE

\* A request is seen and its answer is about to come.
Begin ==
  /\ ~open
  /\ answer' \in Answers
  /\ read' = <<>>
  /\ open' = TRUE

\* The next entry is stored.
Store ==
  /\ open
  /\ Len(read) < Len(answer)
  /\ read' = Append(read, answer[Len(read) + 1])
  /\ UNCHANGED <<answer, open>>

\* The terminator is read.
Finish ==
  /\ open
  /\ read = answer
  /\ open' = FALSE
  /\ UNCHANGED <<answer, read>>

\* The connection is closed and its flow key is used by a new one.
Abandon ==
  /\ answer' = <<>>
  /\ read' = <<>>
  /\ open' = FALSE

StreamNext == Begin \/ Store \/ Finish \/ Abandon

StreamSpec == StreamInit /\ [][StreamNext]_streamVars

=============================================================================
