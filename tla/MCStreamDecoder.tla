-------------------------- MODULE MCStreamDecoder --------------------------
(***************************************************************************)
(* Streams for TLC.  An entry is given by the values of its units; the     *)
(* bytes of a body or a balance may look like anything.                    *)
(***************************************************************************)
EXTENDS StreamDecoder, SequencesExt

\* The stream of these entries, the last of which is the terminator.
Written(kind, flags, entries) ==
  [kind |-> kind, flags |-> flags,
   units |-> FlattenSeq(entries),
   cuts |-> [i \in 1 .. Len(entries) |->
               1 + Len(FlattenSeq(SubSeq(entries, 1, i - 1)))]]

\* Up to n entries followed by the terminator.
Ended(S, n, terminator) ==
  {Append(entries, terminator) : entries \in BoundedSeq(S, n)}

Frontiers(n) ==
  {Written("frontier_req", 0, s) :
     s \in Ended({<<"other", "other">>, <<"other", "end">>}, n, <<"end", "end">>)}

Blocks(kind, n) ==
  {Written(kind, 0, s) :
     s \in Ended({<<"short", "end">>, <<"short", "short">>, <<"long", "long", "other">>,
                  <<"long", "end", "short">>}, n, <<"end">>)}

Balance == <<"other", "other">>

\* The answer to bulk_pull_account, by what its entries consist of.
Accounts(n) ==
  {Written("bulk_pull_account", 0, <<Balance>> \o s) :
     s \in Ended({<<"other", "other">>}, n, <<"end", "end">>)}
  \cup
  {Written("bulk_pull_account", 1, <<Balance>> \o s) :
     s \in Ended({<<"other">>}, n, <<"end">>)}

AccountsWithAddress(n) ==
  {Written("bulk_pull_account", 2, <<Balance>> \o s) :
     s \in Ended({<<"other", "other", "other">>}, n, <<"end", "end", "end">>)}

\* The streams that are decoded as they are written.
PullReplies == Frontiers(4) \cup Blocks("bulk_pull", 3)

AccountWithAddressReplies == AccountsWithAddress(2)

AnyReplies ==
  Frontiers(2) \cup Blocks("bulk_pull", 2) \cup Blocks("bulk_push", 2) \cup Accounts(1)
    \cup AccountsWithAddress(1)

=============================================================================
