------------------------------ MODULE ImageTarget ------------------------------
(****************************************************************************)
(* The single-container driver (internal/targets/image) under the cycle of  *)
(* the reconciler.  What is desired is written in accorda.yaml, not in a    *)
(* commit: every revision a process loads, the previous one included, has   *)
(* the image, env and ports of the file it was started with.  A container   *)
(* is replaced by "docker rm -f" and "docker run", two commands that other  *)
(* processes may come between unless a lock keeps them out.                 *)
(*                                                                          *)
(* A service is the name of its container.  Processes with one service are  *)
(* those of one project, and share its journal, of which only the newest    *)
(* healthy receipt matters here.  Commits are left out: a fetch finds a new *)
(* one or does not.                                                         *)
(****************************************************************************)
EXTENDS Manifests

CONSTANTS
  Agents, Daemons,  \* accorda processes; those that run "sync --watch"
  Name,             \* Name[a]: the service of agent a
  Def,              \* Def[a]: image and configuration in its accorda.yaml
  Hosts,            \* what may run at first: [running, labelled]
  DriftPolicy,
  MaxFaults         \* bound: failing commands, crashes, operators, sickness,
                    \* commits found while one is deployed

ASSUME ImageAssumption ==
  /\ Daemons \subseteq Agents /\ None \notin Agents
  /\ Name \in [Agents -> Services] /\ Def \in [Agents -> Definition]
  /\ Hosts \subseteq [running : Runtime, labelled : SUBSET Services]
  /\ DriftPolicy \in {"report", "repair", "disabled"}
  /\ MaxFaults \in Nat
  /\ None \notin Images /\ Gone \notin Container /\ Undeclared \notin Definition

VARIABLES
  running,   \* the containers on the engine, by name
  labelled,  \* the names whose container carries accorda.image.service
  recorded,  \* recorded[s]: the image in the newest healthy receipt
  holder,    \* holder[i]: who holds the lock of image i
  pc, mode,  \* where an agent's cycle is, and what its Apply is for
  todo,      \* the actions of the plan still to apply
  changed,   \* Plan.Changed, or the cycle resumes a deployment
  ill,       \* the health a drift check has read
  previous,  \* whether r.previous is set, and r.lastDesired
  last,
  result,
  faults

locals == <<mode, todo, changed, ill>>
memory == <<previous, last>>
engine == <<running, labelled>>
vars == <<engine, recorded, holder, pc, locals, memory, result, faults>>

Init ==
  /\ \E h \in Hosts : running = h.running /\ labelled = h.labelled
  /\ recorded = [s \in Services |->
       IF s \in labelled /\ running[s] # Gone THEN running[s].def.image ELSE None]
  /\ holder = [i \in Images |-> None]
  /\ pc = [a \in Agents |-> "rest"] /\ mode = [a \in Agents |-> "deploy"]
  /\ todo = [a \in Agents |-> {}]
  /\ changed = [a \in Agents |-> FALSE] /\ ill = [a \in Agents |-> FALSE]
  /\ previous = [a \in Agents |-> FALSE] /\ last = [a \in Agents |-> FALSE]
  /\ result = [a \in Agents |-> "none"]
  /\ faults = 0

Fault == faults < MaxFaults /\ faults' = faults + 1
Goto(a, label) == pc' = [pc EXCEPT ![a] = label]

\* Mutant: one lock file for each process.
LockOfNobody(a) == {}

\* LockIdentityFunc: the image reference, whatever the container is called.
Locks(a) == {Def[a].image}

\* Mutant: the lock outlives the cycle that failed.
ReturnHolding(a, r) ==
  /\ Goto(a, "rest")
  /\ result' = [result EXCEPT ![a] = r]
  /\ holder' = [i \in Images |-> IF holder[i] = a /\ r # "failed" THEN None ELSE holder[i]]

\* The cycle returns, and its lock is released.
Return(a, r) ==
  /\ Goto(a, "rest")
  /\ result' = [result EXCEPT ![a] = r]
  /\ holder' = [i \in Images |-> IF holder[i] = a THEN None ELSE holder[i]]
-----------------------------------------------------------------------------
(* What the driver desires and sees. *)

Desired(a) == [s \in Services |-> IF s = Name[a] THEN Def[a] ELSE Undeclared]

\* Mutant: the container is found by its name.
CurrentByName(a) == [s \in Services |-> IF s = Name[a] THEN running[s] ELSE Gone]

\* Current lists by label: a container of that name that someone else ran is
\* not seen.
Current(a) ==
  [s \in Services |-> IF s = Name[a] /\ s \in labelled THEN running[s] ELSE Gone]

Previous(a) == IF previous[a] THEN Desired(a) ELSE NoServices
Unhealthy(a) == Sick(Current(a)) # {}
-----------------------------------------------------------------------------
(* The cycle. *)

\* acquireLock and recoveryState: a new process remembers nothing, and any
\* process takes the deployment the journal names for the previous one.
Lock(a) ==
  /\ pc[a] = "rest"
  /\ \A i \in Locks(a) : holder[i] = None
  /\ holder' = [i \in Images |-> IF i \in Locks(a) THEN a ELSE holder[i]]
  /\ previous' = [previous EXCEPT ![a] = (@ /\ a \in Daemons) \/ recorded[Name[a]] # None]
  /\ last' = [last EXCEPT ![a] = @ /\ a \in Daemons]
  /\ result' = [result EXCEPT ![a] = "none"]
  /\ Goto(a, "fetch")
  /\ UNCHANGED <<engine, recorded, locals, faults>>

\* fetch: an unchanged HEAD is looked at for drift only.
Fetch(a) ==
  /\ pc[a] = "fetch"
  /\ \/ last[a] /\ Goto(a, "health")
     \/ Goto(a, "plan")
  /\ UNCHANGED <<engine, recorded, holder, locals, memory, result, faults>>

\* Plan for a purpose, against what the previous deployment is taken to be.
Prepare(a, purpose, deployed) ==
  \E plan \in Plans(Desired(a), deployed, Current(a)) :
    /\ todo' = [todo EXCEPT ![a] = plan]
    /\ mode' = [mode EXCEPT ![a] = purpose]
    /\ Goto(a, IF Changed(plan) THEN "apply" ELSE
               CASE purpose = "deploy"   -> "verify"
                 [] purpose = "rollback" -> "rolledback"
                 [] purpose = "repair"   -> "repaired")

\* hydratePrevious loads the previous commit's desired state: this file's again.
\* The checkpoint of a changed plan precedes Apply, and may be one to resume.
Plan(a) ==
  /\ pc[a] = "plan"
  /\ Prepare(a, "deploy", Previous(a))
  /\ \E recovering \in BOOLEAN :
       changed' = [changed EXCEPT ![a] = recovering \/ Changed(todo'[a])]
  /\ UNCHANGED <<engine, recorded, holder, ill, memory, result, faults>>

\* resolvePrevDesired and applyRollback, for a target without ApplyDesired.
Restore(a) ==
  /\ pc[a] = "restore"
  /\ Prepare(a, "rollback", NoServices)
  /\ UNCHANGED <<engine, recorded, holder, changed, ill, memory, result, faults>>

RepairPlan(a) ==
  /\ pc[a] = "repair"
  /\ Prepare(a, "repair", Desired(a))
  /\ UNCHANGED <<engine, recorded, holder, changed, ill, memory, result, faults>>
-----------------------------------------------------------------------------
(* Apply. *)

\* The next action: a pull, or the one that brings the container up.
Next1(a, kinds) == OfKind(UNION Due(todo[a]), kinds)

\* What follows the last action of a plan.
Applied(a) ==
  Goto(a, CASE mode[a] = "deploy"   -> "verify"
            [] mode[a] = "rollback" -> "rolledback"
            [] mode[a] = "repair"   -> "repaired")

Pull(a) ==
  /\ pc[a] = "apply" /\ Next1(a, {"pull"}) # {}
  /\ todo' = [todo EXCEPT ![a] = @ \ Next1(a, {"pull"})]
  /\ IF todo'[a] = {} THEN Applied(a) ELSE UNCHANGED pc
  /\ UNCHANGED <<engine, recorded, holder, mode, changed, ill, memory, result, faults>>

\* "docker rm -f <name>", whoever's container has the name.
RemoveOld(a) ==
  /\ pc[a] = "apply" /\ Next1(a, Ups) # {}
  /\ running' = [running EXCEPT ![Name[a]] = Gone]
  /\ Goto(a, "run")
  /\ UNCHANGED <<labelled, recorded, holder, locals, memory, result, faults>>

\* "docker run -d --name <name>": the container may turn out to be sick.
Run(a) ==
  /\ pc[a] = "run" /\ running[Name[a]] = Gone
  /\ \/ running' = [running EXCEPT ![Name[a]] = Running(Def[a], FALSE)] /\ UNCHANGED faults
     \/ running' = [running EXCEPT ![Name[a]] = Running(Def[a], TRUE)] /\ Fault
  /\ labelled' = labelled \cup {Name[a]}
  /\ todo' = [todo EXCEPT ![a] = {}]
  /\ Applied(a)
  /\ UNCHANGED <<recorded, holder, mode, changed, ill, memory, result>>

\* Apply returns an error: a deployment is recorded as failed, a rollback that
\* fails is no rollback, and a repair that fails says nothing.
ApplyError(a) ==
  /\ todo' = [todo EXCEPT ![a] = {}]
  /\ \/ mode[a] = "deploy" /\ Goto(a, "failed") /\ UNCHANGED <<holder, result>>
     \/ mode[a] = "rollback" /\ Return(a, "failed")
     \/ mode[a] = "repair" /\ Return(a, IF ill[a] THEN "failed" ELSE "healthy")
  /\ UNCHANGED <<mode, changed, ill, recorded, memory>>

\* Someone took the name between the two commands, and "run" fails.
RunConflicts(a) ==
  /\ pc[a] = "run" /\ running[Name[a]] # Gone
  /\ ApplyError(a)
  /\ UNCHANGED <<engine, faults>>

\* A command fails: a "run" whose container cannot be started leaves it created.
CommandFails(a) ==
  /\ Fault
  /\ \/ pc[a] = "apply" /\ UNCHANGED engine
     \/ /\ pc[a] = "run" /\ running[Name[a]] = Gone
        /\ \/ UNCHANGED engine
           \/ /\ running' = [running EXCEPT ![Name[a]] = [Running(Def[a], FALSE) EXCEPT !.up = FALSE]]
              /\ labelled' = labelled \cup {Name[a]}
  /\ ApplyError(a)
-----------------------------------------------------------------------------
(* What follows Apply. *)

\* WaitForHealthy: only an unhealthy container fails the deployment.
Verify(a) ==
  /\ pc[a] = "verify"
  /\ Goto(a, IF Unhealthy(a) THEN "failed" ELSE "compare")
  /\ UNCHANGED <<engine, recorded, holder, locals, memory, result, faults>>

State(a) == [commit |-> None, services |-> Desired(a)]
Verdict(a) == Compare(State(a), State(a), Current(a))

\* sync: the container is compared with what this process desires.
CompareDeployed(a) ==
  /\ pc[a] = "compare"
  /\ last' = [last EXCEPT ![a] = TRUE]
  /\ ill' = [ill EXCEPT ![a] = FALSE]
  /\ \/ /\ Verdict(a) = "SYNCED"
        /\ previous' = [previous EXCEPT ![a] = TRUE]
        /\ Goto(a, "close")
        /\ UNCHANGED <<holder, result>>
     \/ /\ Verdict(a) = "DRIFTED"
        /\ IF DriftPolicy = "repair"
           THEN Goto(a, "repair") /\ UNCHANGED <<holder, result>>
           ELSE Return(a, "healthy")
        /\ UNCHANGED previous
  /\ UNCHANGED <<engine, recorded, mode, todo, changed, faults>>

\* The healthy receipt of a deployment, best effort; then the last fetch, which
\* may have found another commit.
Close(a) ==
  /\ pc[a] = "close"
  /\ \E lost, moved \in BOOLEAN :
       /\ recorded' = IF lost \/ ~changed[a] THEN recorded
                      ELSE [recorded EXCEPT ![Name[a]] = Def[a].image]
       /\ IF moved THEN Goto(a, "plan") /\ UNCHANGED <<holder, result>>
                   ELSE Return(a, "synced")
       /\ IF lost \/ moved THEN Fault ELSE UNCHANGED faults
  /\ UNCHANGED <<engine, locals, memory>>

\* The failed receipt, and the rollback if there is a previous deployment.
RecordFailed(a) ==
  /\ pc[a] = "failed"
  /\ \/ previous[a] /\ Goto(a, "restore") /\ UNCHANGED <<holder, result>>
     \/ ~previous[a] /\ Return(a, "failed")
  /\ UNCHANGED <<engine, recorded, locals, memory, faults>>

RecordRollBack(a) ==
  /\ pc[a] = "rolledback"
  /\ Return(a, "rolled_back")
  /\ UNCHANGED <<engine, recorded, locals, memory, faults>>

\* checkDrift: health first, then the comparison.
DriftHealth(a) ==
  /\ pc[a] = "health"
  /\ ill' = [ill EXCEPT ![a] = Unhealthy(a)]
  /\ Goto(a, "drift")
  /\ UNCHANGED <<engine, recorded, holder, mode, todo, changed, memory, result, faults>>

DriftCompare(a) ==
  /\ pc[a] = "drift"
  /\ \/ /\ Verdict(a) = "DRIFTED" /\ DriftPolicy = "repair"
        /\ Goto(a, "repair")
        /\ UNCHANGED <<holder, result>>
     \/ /\ Verdict(a) = "DRIFTED" /\ DriftPolicy # "repair"
        /\ Return(a, IF ill[a] THEN "failed" ELSE "healthy")
     \/ /\ Verdict(a) = "SYNCED"
        /\ Return(a, IF ill[a] THEN "failed" ELSE "synced")
  /\ UNCHANGED <<engine, recorded, locals, memory, faults>>

\* A repair is confirmed by the next cycle.
Repaired(a) ==
  /\ pc[a] = "repaired"
  /\ Return(a, "healthy")
  /\ UNCHANGED <<engine, recorded, locals, memory, faults>>

\* Fetch, Plan, Current or a checkpoint returns an error: the cycle fails.  An
\* error of Health after Apply fails the deployment.
ReadFails(a) ==
  /\ Fault
  /\ \/ /\ pc[a] \in {"fetch", "plan", "compare", "health", "drift", "restore", "repair"}
        /\ Return(a, "failed")
     \/ pc[a] = "verify" /\ Goto(a, "failed") /\ UNCHANGED <<holder, result>>
  /\ UNCHANGED <<engine, recorded, locals, memory>>
-----------------------------------------------------------------------------
\* The process dies, and is started again by its supervisor.
Crash(a) ==
  /\ pc[a] # "rest"
  /\ Fault
  /\ Return(a, "none")
  /\ previous' = [previous EXCEPT ![a] = FALSE] /\ last' = [last EXCEPT ![a] = FALSE]
  /\ todo' = [todo EXCEPT ![a] = {}]
  /\ UNCHANGED <<engine, recorded, mode, changed, ill>>

\* A container exits, is removed by hand, or turns sick; and recovers.
Disturb(s) ==
  /\ running[s] # Gone
  /\ \/ /\ running' \in {[running EXCEPT ![s] = Gone], [running EXCEPT ![s].up = FALSE],
                         [running EXCEPT ![s].sick = TRUE]}
        /\ Fault
     \/ running[s].sick /\ running' = [running EXCEPT ![s].sick = FALSE] /\ UNCHANGED faults
  /\ UNCHANGED <<labelled, recorded, holder, pc, locals, memory, result>>

\* Someone runs a container of their own under the name.
TakeName(s) ==
  /\ running[s] = Gone
  /\ Fault
  /\ \E d \in Definition : running' = [running EXCEPT ![s] = Running(d, FALSE)]
  /\ labelled' = labelled \ {s}
  /\ UNCHANGED <<recorded, holder, pc, locals, memory, result>>

Step(a) ==
  \/ Fetch(a) \/ Plan(a) \/ Restore(a) \/ RepairPlan(a)
  \/ Pull(a) \/ RemoveOld(a) \/ Run(a) \/ RunConflicts(a)
  \/ Verify(a) \/ CompareDeployed(a) \/ Close(a) \/ RecordFailed(a) \/ RecordRollBack(a)
  \/ DriftHealth(a) \/ DriftCompare(a) \/ Repaired(a)

Next ==
  \/ \E a \in Agents : Lock(a) \/ Step(a) \/ CommandFails(a) \/ ReadFails(a) \/ Crash(a)
  \/ \E s \in Services : Disturb(s) \/ TakeName(s)

Spec == Init /\ [][Next]_vars

\* A cycle's calls return; the loop of a watch starts the next cycle, and its
\* poll of the lock gets it among processes that come and go.
FairSpec ==
  /\ Spec
  /\ \A a \in Agents : WF_vars(Step(a))
  /\ \A a \in Daemons : SF_vars(Lock(a))
-----------------------------------------------------------------------------
Labels == {"rest", "fetch", "plan", "apply", "run", "verify", "compare", "close", "failed",
           "restore", "rolledback", "health", "drift", "repair", "repaired"}

\* The types; and a lock is held by a cycle, not by what it left behind.
TypeOK ==
  /\ \A i \in Images : holder[i] # None => pc[holder[i]] # "rest"
  /\ running \in Runtime /\ labelled \subseteq Services
  /\ recorded \in [Services -> Images \cup {None}]
  /\ holder \in [Images -> Agents \cup {None}]
  /\ pc \in [Agents -> Labels] /\ mode \in [Agents -> {"deploy", "rollback", "repair"}]
  /\ todo \in [Agents -> SUBSET Action]
  /\ changed \in [Agents -> BOOLEAN] /\ ill \in [Agents -> BOOLEAN]
  /\ previous \in [Agents -> BOOLEAN] /\ last \in [Agents -> BOOLEAN]
  /\ result \in [Agents -> {"none", "synced", "healthy", "failed", "rolled_back"}]
  /\ faults \in 0..MaxFaults

Replacing(a) == pc[a] \in {"apply", "run"}

\* deploymentLockPath: "different targets that mutate the same workload share a
\* lock", so two cycles are never between the commands of one container.  The
\* lock being the image's, this is so of processes whose files agree on it; of
\* others, started before and after an edit of the image, it is not.
OneReplacer ==
  \A a, b \in Agents :
    /\ a # b /\ Name[a] = Name[b] /\ Def[a].image = Def[b].image
    => ~(Replacing(a) /\ Replacing(b))

\* A container of ours that is up as accorda.yaml declares it.
Right(a) ==
  LET c == running[Name[a]]
  IN  Name[a] \in labelled /\ c # Gone /\ c.up /\ c.def = Def[a]

\* "A second plan against the now-converged runtime should be a noop", whoever
\* makes it: no process takes a container down that is up with the image and
\* configuration its own file declares, in a rollback, a repair or a cycle that
\* resumes one that died, and whatever another process did since it planned.
RightIsLeftAlone ==
  [][\A a \in Agents : pc[a] = "apply" /\ pc'[a] = "run" => ~Right(a)]_vars

\* Whatever failed between the two commands, and whoever removed or stopped the
\* container, a watch brings it up again as declared, for good.
Runs(a) ==
  LET c == running[Name[a]]
  IN  c # Gone /\ c.up /\ c.def.image = Def[a].image /\ Name[a] \in labelled
ComesBack == \A a \in Daemons : <>[]Runs(a)
================================================================================
