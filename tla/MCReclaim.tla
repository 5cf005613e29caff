------------------------------ MODULE MCReclaim ------------------------------
(* Small instances of Reclaim: functions that a .cfg cannot write. *)
EXTENDS Reclaim

\* A service with two volumes and one without any.
MCMounts == [s \in {"api", "db"} |-> IF s = "db" THEN {"data", "logs"} ELSE {}]

\* The project was renamed from "old" to "app"; "other" and "qa" are elsewhere.
MCDir == [p \in {"app", "qa", "old", "other"} |->
            IF p \in {"app", "old"} THEN "here" ELSE p]

\* Two targets of one project deploy the same Compose file.
MCSameDir == [p \in {"app", "qa", "old", "other"} |-> IF p = "other" THEN p ELSE "here"]
=============================================================================
