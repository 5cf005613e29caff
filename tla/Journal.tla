------------------------------- MODULE Journal -------------------------------
(****************************************************************************)
(* The receipt journal of one target, oldest receipt first, and the two     *)
(* questions the reconciler asks it when a cycle begins: which deployment   *)
(* is unfinished (history.Unfinished) and which commit was last recorded    *)
(* healthy (deployedFromReceipts).                                          *)
(*                                                                          *)
(* The journal here is the list of receipts history.Store.List returns; a   *)
(* receipt keeps what recovery reads.  How the lines reach the disk is the  *)
(* subject of another module.                                               *)
(****************************************************************************)
EXTENDS Naturals, Sequences

CONSTANTS
  DeploymentIDs,  \* identifiers newDeploymentID may draw
  Commits         \* commits the tracked branch may point at

Terminal == {"healthy", "failed", "rolled_back", "interrupted"}
Receipt  == [id : DeploymentIDs, commit : Commits, result : Terminal \cup {"in_progress"}]

NewReceipt(id, commit, result) == [id |-> id, commit |-> commit, result |-> result]

Newest(at) == {i \in at : \A k \in at : k <= i}

\* Mutant: terminal receipts do not close a checkpoint.
EverOpened(j) == {i \in DOMAIN j : j[i].result = "in_progress"}

\* Checkpoints with no later terminal receipt for the same deployment.
OpenAt(j) ==
  {i \in DOMAIN j :
     /\ j[i].result = "in_progress"
     /\ \A k \in DOMAIN j : k > i /\ j[k].id = j[i].id => j[k].result = "in_progress"}

OpenIds(j) == {j[i].id : i \in OpenAt(j)}
UsedIds(j) == {j[i].id : i \in DOMAIN j}

\* The receipt Unfinished returns, as a set of that one receipt (none: nil).
Unfinished(j) == {j[i] : i \in Newest(OpenAt(j))}

\* How deployment id stands in the history: its newest receipt says.
OutcomeOf(j, id) ==
  LET its == {i \in DOMAIN j : j[i].id = id}
  IN  IF its = {} THEN "none" ELSE j[CHOOSE i \in Newest(its) : TRUE].result

HealthyAt(j) == {i \in DOMAIN j : j[i].result = "healthy"}

\* The commit rollback and planning start from: the newest healthy receipt's,
\* or what the process already holds when no receipt is healthy.
Baseline(j, held) ==
  IF HealthyAt(j) = {} THEN {held} ELSE {j[i].commit : i \in Newest(HealthyAt(j))}
=============================================================================
