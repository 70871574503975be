---------------------------- MODULE ConnectionLog ----------------------------
(***************************************************************************)
(* What tracking connections promises, without flow keys, the connection   *)
(* map, flow data or the queue: every connection is stored by itself, each *)
(* unit it sends as the row of that unit, one after the other in the order *)
(* sent, and no row is ever changed, until the connection is lost: the     *)
(* capture missed a part of it, or it sent an answer that the code cannot  *)
(* follow.  What is put for it from then on is not counted here.           *)
(***************************************************************************)
EXTENDS Naturals, Sequences

CONSTANTS
  Connections,  \* all connections there may be
  RowOf         \* unit -> the row that stands for it

VARIABLES
  sent,  \* what was sent on each connection
  rows,  \* the rows stored for each connection
  lost   \* the connections that were not captured completely or that the code
         \* cannot follow

logVars == <<sent, rows, lost>>

LogInit ==
  /\ sent = [c \in Connections |-> <<>>]
  /\ rows = [c \in Connections |-> <<>>]
  /\ lost = {}

\* More is sent on a connection.
Extended(c) ==
  /\ sent' = [sent EXCEPT ![c] = sent'[c]]
  /\ Len(sent[c]) <= Len(sent'[c])
  /\ \A i \in 1..Len(sent[c]) : sent'[c][i] = sent[c][i]

Sent(c) ==
  /\ Extended(c)
  /\ UNCHANGED <<rows, lost>>

\* What is sent is not captured, or the start was not, or it is sent in an
\* answer that the code cannot follow.
Lost(c) ==
  /\ Extended(c)
  /\ lost' = lost \cup {c}
  /\ UNCHANGED rows

\* The next unit is stored.
Stored(c) ==
  /\ c \notin lost
  /\ Len(rows[c]) < Len(sent[c])
  /\ rows' = [rows EXCEPT ![c] = Append(@, RowOf[sent[c][Len(@) + 1]])]
  /\ UNCHANGED <<sent, lost>>

LogNext == \E c \in Connections : Sent(c) \/ Lost(c) \/ Stored(c)

LogSpec == LogInit /\ [][LogNext]_logVars

=============================================================================
