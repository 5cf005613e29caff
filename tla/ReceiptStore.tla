----------------------------- MODULE ReceiptStore -----------------------------
(****************************************************************************)
(* What the reconciler may assume of history.Store: List returns "all       *)
(* recorded receipts in the order they were appended", Append does "not     *)
(* return until the receipt is durably persisted".  A store that cannot     *)
(* keep that promise answers List with an error, never with a shorter       *)
(* history than it acknowledged.                                            *)
(****************************************************************************)
EXTENDS Sequences, Functions

CONSTANTS
  Receipts,
  Unreadable   \* List's error

VARIABLES
  answer,      \* what List answers: the receipts in order, or its error
  acked        \* receipts whose Append returned no error

Tells(list) == acked \subseteq Range(list)

Init == answer = <<>> /\ acked = {}

\* A receipt reaches the store, on behalf of an Append that may still fail.
Add(r) ==
  /\ answer # Unreadable
  /\ answer' = Append(answer, r)
  /\ UNCHANGED acked

\* Append returns: the receipt is told by List for ever, or List fails.
Acknowledge(r) ==
  /\ answer = Unreadable \/ r \in Range(answer)
  /\ acked' = acked \cup {r}
  /\ UNCHANGED answer

\* A crash takes receipts that were never acknowledged, the newest first.
Forget ==
  /\ answer # Unreadable
  /\ \E k \in 0..Len(answer) : answer' = SubSeq(answer, 1, k)
  /\ Tells(answer')
  /\ UNCHANGED acked

\* The store is damaged, or a crash takes the damage away.
Damage == answer' = Unreadable /\ UNCHANGED acked
Recover ==
  /\ answer = Unreadable
  /\ answer' \in Seq(Receipts)
  /\ Tells(answer')
  /\ UNCHANGED acked

Next == Forget \/ Damage \/ Recover \/ \E r \in Receipts : Add(r) \/ Acknowledge(r)

Spec == Init /\ [][Next]_<<answer, acked>>
===============================================================================
