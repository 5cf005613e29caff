--------------------------- MODULE DeploymentLedger ---------------------------
(****************************************************************************)
(* What the deployment history promises its readers ("accorda history", the *)
(* recovery of the next process): a deployment is announced before it       *)
(* touches the target, ends once, and only a failure is ever amended, by    *)
(* the rollback that followed it.  One deployment is under way at a time.   *)
(*                                                                          *)
(* The outcomes are those of history/receipt.go; "none" is a deployment the *)
(* history does not know.                                                   *)
(****************************************************************************)
CONSTANTS
  DeploymentIDs,  \* identifiers of deployments
  Lossy           \* TRUE: a terminal receipt may be lost (recording is best effort)

VARIABLE
  outcome         \* outcome[id]: how the deployment stands in the history

Outcome == {"none", "in_progress", "healthy", "failed", "rolled_back", "interrupted"}

UnderWay == {id \in DeploymentIDs : outcome[id] = "in_progress"}

Init == outcome = [id \in DeploymentIDs |-> "none"]

Become(id, before, after) ==
  outcome[id] \in before /\ outcome' = [outcome EXCEPT ![id] = after]

\* The checkpoint: nobody else is under way.  With a lossy store a deployment
\* that ended may still look open.
Start(id) == Become(id, {"none"}, "in_progress") /\ (UnderWay = {} \/ Lossy)

\* A deployment under way ends healthy, fails, or is superseded.
End(id) == \E after \in {"healthy", "failed", "interrupted"} : Become(id, {"in_progress"}, after)

\* A cycle that deployed nothing may still find the target unhealthy.
FailUnannounced(id) == Become(id, {"none"}, "failed")

\* The rollback of a failure; a lossy store may have missed the failure itself.
RollBack(id) ==
  Become(id, {"failed"} \cup (IF Lossy THEN {"none", "in_progress"} ELSE {}), "rolled_back")

Next == \E id \in DeploymentIDs : Start(id) \/ End(id) \/ FailUnannounced(id) \/ RollBack(id)

Spec == Init /\ [][Next]_outcome
===============================================================================
