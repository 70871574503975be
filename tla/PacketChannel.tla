--------------------------- MODULE PacketChannel ---------------------------
(***************************************************************************)
(* What the hand-off of captured payloads from the capture callback to the *)
(* processing thread promises (packet_handler.cpp), without threads, locks *)
(* or the condition variable: payloads are handled one at a time, in the   *)
(* order in which they were queued, none twice and none skipped; once the  *)
(* stop flag is up, at most the payload already chosen is still handled.   *)
(* A payload whose handling never ends is the last one.                    *)
(***************************************************************************)
EXTENDS Naturals, Sequences

VARIABLES
  sent,      \* the payloads queued so far
  received,  \* the payloads handled so far
  closed,    \* has a stop been requested?
  mark,      \* how many payloads had been handled when it was
  dead       \* is a payload being handled for ever?

chanVars == <<sent, received, closed, mark, dead>>

ChannelInit ==
  /\ sent = <<>>
  /\ received = <<>>
  /\ closed = FALSE
  /\ mark = 0
  /\ dead = FALSE

\* A payload is queued, before or after the stop request.
Send ==
  /\ sent' = Append(sent, Len(sent) + 1)
  /\ UNCHANGED <<received, closed, mark, dead>>

\* The receiver may turn to the oldest payload not yet handled.
Served ==
  /\ ~dead
  /\ Len(received) < Len(sent)
  /\ closed => Len(received) = mark

\* It handles it ...
Receive ==
  /\ Served
  /\ received' = Append(received, sent[Len(received) + 1])
  /\ UNCHANGED <<sent, closed, mark, dead>>

\* ... or never finishes it.
Die ==
  /\ Served
  /\ dead' = TRUE
  /\ UNCHANGED <<sent, received, closed, mark>>

\* Stop is requested.
Close ==
  /\ ~closed
  /\ closed' = TRUE
  /\ mark' = Len(received)
  /\ UNCHANGED <<sent, received, dead>>

ChannelNext == Send \/ Receive \/ Die \/ Close

ChannelSafety == ChannelInit /\ [][ChannelNext]_chanVars

\* Until a stop is requested or the receiver is dead, what is queued is
\* eventually handled.
ChannelFairness == WF_chanVars(~closed /\ Receive)

ChannelSpec == ChannelSafety /\ ChannelFairness

=============================================================================
