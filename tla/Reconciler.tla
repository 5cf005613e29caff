------------------------------ MODULE Reconciler ------------------------------
(****************************************************************************)
(* The reconciliation lifecycle of one target (internal/core/reconcile),    *)
(* with the world it works on: the branch HEAD, the containers, the receipt *)
(* journal and the target's deployment lock.                                *)
(*                                                                          *)
(* An agent is a process with one Reconciler: "accorda sync --watch", which *)
(* keeps its memory from cycle to cycle, or a one-shot "accorda sync",      *)
(* whose every cycle is a new process.  The agents of a target share its    *)
(* lock and journal and nothing else.  A cycle is cut where another actor   *)
(* can act: at every read of Git, the journal or the runtime, at every      *)
(* receipt appended, at every docker compose command.                       *)
(****************************************************************************)
EXTENDS Manifests, Journal

CONSTANTS
  Agents,       \* processes reconciling this target
  OneShot,      \* those of them that run a single cycle and exit
  Tree,         \* Tree[c]: the manifest the Compose file declares at commit c
  Found,        \* what may run on the target before the first cycle
  DriftPolicy,  \* reconcile.drift of accorda.yaml
  FaultKinds,   \* faults the environment may inject
  MaxFaults,    \* bound on injected faults
  MaxMoves      \* bound on moves of the branch HEAD

Faults == {"crash", "apply", "sick", "stop", "source", "target", "journal"}

ASSUME ReconcilerAssumption ==
  /\ OneShot \subseteq Agents
  /\ Tree \in [Commits -> Manifest]
  /\ Found \subseteq Runtime
  /\ DriftPolicy \in {"report", "repair", "disabled"}
  /\ FaultKinds \subseteq Faults
  /\ MaxFaults \in Nat /\ MaxMoves \in Nat
  /\ None \notin Agents /\ None \notin Commits /\ None \notin DeploymentIDs
  /\ None \notin Receipt /\ Gone \notin Container /\ Undeclared \notin Definition

VARIABLES
  head,         \* commit the tracked branch points at
  runtime,      \* containers of the target, with the configuration they run
  journal,      \* receipts on disk
  lock,         \* agent holding the deployment lock, or None
  pc,           \* where each agent is in its cycle
  lastDesired,  \* Reconciler.lastDesired: its commit
  previous,     \* Reconciler.previous: its commit (the model is hydrated from it)
  pending,      \* Reconciler.pending
  cyc,          \* what a cycle holds in local variables
  result,       \* the Result the agent's last cycle returned
  moves, faults \* how much of the two bounds is spent

vars == <<head, runtime, journal, lock, pc, lastDesired, previous, pending, cyc,
          result, moves, faults>>

memory == <<lastDesired, previous, pending>>

Labels == {"idle", "fetching", "validating", "planning", "checkpoint", "deploying",
           "verifying", "comparing", "closing", "inflight", "failing", "restoring",
           "rolling", "rolledback", "driftHealth", "driftCompare", "repairPlan",
           "repairing"}

Cycle == [commit : Commits \cup {None}, id : DeploymentIDs \cup {None},
          recovering : BOOLEAN, changed : BOOLEAN, unchanged : BOOLEAN,
          sick : BOOLEAN, todo : SUBSET Action]

NoCycle == [commit |-> None, id |-> None, recovering |-> FALSE, changed |-> FALSE,
            unchanged |-> FALSE, sick |-> FALSE, todo |-> {}]

Result == [phase : {"none", "failed", "healthy", "synced"},
           commit : Commits \cup {None}, rolledBackTo : Commits \cup {None}]

Report(phase, commit, back) == [phase |-> phase, commit |-> commit, rolledBackTo |-> back]
NoResult == Report("none", None, None)

Init ==
  /\ head \in Commits
  /\ runtime \in Found
  /\ journal = <<>>
  /\ lock = None
  /\ pc = [a \in Agents |-> "idle"]
  /\ lastDesired = [a \in Agents |-> None]
  /\ previous = [a \in Agents |-> None]
  /\ pending = [a \in Agents |-> None]
  /\ cyc = [a \in Agents |-> NoCycle]
  /\ result = [a \in Agents |-> NoResult]
  /\ moves = 0
  /\ faults = 0
-----------------------------------------------------------------------------
(* Helpers of the actions. *)

Goto(a, label) == pc' = [pc EXCEPT ![a] = label]

Fault(kind) == kind \in FaultKinds /\ faults < MaxFaults /\ faults' = faults + 1

OrNone(S) == IF S = {} THEN {None} ELSE S

\* The cycle returns its Result: the deferred unlock runs.
Return(a, r) ==
  /\ result' = [result EXCEPT ![a] = r]
  /\ cyc' = [cyc EXCEPT ![a] = NoCycle]
  /\ lock' = None
  /\ Goto(a, "idle")

Fail(a) == Return(a, Report("failed", cyc[a].commit, None))

\* recordReceipt, recordRollbackReceipt: an error of the store is dropped.
BestEffort(r) ==
  \/ journal' = Append(journal, r) /\ UNCHANGED faults
  \/ Fault("journal") /\ UNCHANGED journal

\* An Append that returns an error, before or after the line reached the disk.
AppendFails(r) == Fault("journal") /\ journal' \in {journal, Append(journal, r)}

\* One docker compose command brings the target toward manifest m.  A container
\* that comes up unhealthy is a fault of the environment.
Command(command, m) ==
  /\ runtime' \in Outcomes(command, m, runtime)
  /\ IF Sick(runtime') \subseteq Sick(runtime) THEN UNCHANGED faults ELSE Fault("sick")

\* The command reports an error; it may have done its work or not.
CommandFails(command, m) ==
  /\ Fault("apply")
  /\ runtime' \in {runtime} \cup {rt \in Outcomes(command, m, runtime) : Sick(rt) \subseteq Sick(runtime)}

FreshIds == DeploymentIDs \ UsedIds(journal)

\* newDeploymentID draws 64 random bits: an identifier no receipt carries.
NewId == CHOOSE id \in FreshIds : TRUE
-----------------------------------------------------------------------------
(* Beginning a cycle. *)

\* Mutant: the deployment lock is not taken into account.
BeginUnlocked(a) ==
  /\ pc[a] = "idle" /\ FreshIds # {}
  /\ \E r \in OrNone(Unfinished(journal)) : pending' = [pending EXCEPT ![a] = r]
  /\ \E c \in Baseline(journal, IF a \in OneShot THEN None ELSE previous[a]) :
       previous' = [previous EXCEPT ![a] = c]
  /\ lastDesired' = [lastDesired EXCEPT ![a] = IF a \in OneShot THEN None ELSE @]
  /\ lock' = a
  /\ Goto(a, "fetching")
  /\ result' = [result EXCEPT ![a] = NoResult]
  /\ UNCHANGED <<head, runtime, journal, cyc, moves, faults>>

\* Mutant: only the baseline is read from the journal, an unfinished deployment
\* is not.
BeginForgetful(a) ==
  /\ pc[a] = "idle" /\ lock = None
  /\ FreshIds # {}
  /\ \E c \in Baseline(journal, IF a \in OneShot THEN None ELSE previous[a]) :
       previous' = [previous EXCEPT ![a] = c]
  /\ lastDesired' = [lastDesired EXCEPT ![a] = IF a \in OneShot THEN None ELSE @]
  /\ lock' = a
  /\ Goto(a, "fetching")
  /\ result' = [result EXCEPT ![a] = NoResult]
  /\ UNCHANGED <<head, runtime, journal, pending, cyc, moves, faults>>

\* Lock taken, then recoveryState read from the journal.
Begin(a) ==
  /\ pc[a] = "idle" /\ lock = None
  /\ FreshIds # {}
  /\ \E r \in OrNone(Unfinished(journal)) : pending' = [pending EXCEPT ![a] = r]
  /\ \E c \in Baseline(journal, IF a \in OneShot THEN None ELSE previous[a]) :
       previous' = [previous EXCEPT ![a] = c]
  /\ lastDesired' = [lastDesired EXCEPT ![a] = IF a \in OneShot THEN None ELSE @]
  /\ lock' = a
  /\ Goto(a, "fetching")
  /\ result' = [result EXCEPT ![a] = NoResult]
  /\ UNCHANGED <<head, runtime, journal, cyc, moves, faults>>

\* The lock file cannot be opened, or the journal cannot be read.
BeginFails(a) ==
  /\ pc[a] = "idle" /\ lock = None
  /\ Fault("journal")
  /\ result' = [result EXCEPT ![a] = Report("failed", None, None)]
  /\ UNCHANGED <<head, runtime, journal, lock, pc, memory, cyc, moves>>

\* FETCHING: the unchanged HEAD of a process with nothing to resume goes to the
\* drift check, any other commit through the whole lifecycle.
Fetch(a) ==
  LET unchanged == pending[a] = None /\ lastDesired[a] = head
  IN  /\ pc[a] = "fetching"
      /\ cyc' = [cyc EXCEPT ![a] = [NoCycle EXCEPT !.commit = head, !.unchanged = unchanged]]
      /\ Goto(a, IF unchanged THEN "driftHealth" ELSE "validating")
      /\ UNCHANGED <<head, runtime, journal, lock, memory, result, moves, faults>>

\* Mutant: a superseded checkpoint is dropped from memory and left open.
ValidateSilently(a) ==
  /\ pc[a] = "validating"
  /\ pending' = [pending EXCEPT ![a] = IF @ # None /\ @.commit # cyc[a].commit THEN None ELSE @]
  /\ Goto(a, "planning")
  /\ UNCHANGED <<head, runtime, journal, lock, lastDesired, previous, cyc, result, moves, faults>>

\* VALIDATING: desired state loaded, baseline hydrated from its commit, and a
\* checkpoint of another commit closed as interrupted.
Validate(a) ==
  LET c == cyc[a].commit
      superseded == pending[a] # None /\ pending[a].commit # c
  IN  /\ pc[a] = "validating"
      /\ \/ /\ superseded
            /\ journal' = Append(journal, [pending[a] EXCEPT !.result = "interrupted"])
            /\ pending' = [pending EXCEPT ![a] = None]
         \/ ~superseded /\ UNCHANGED <<journal, pending>>
      /\ Goto(a, "planning")
      /\ UNCHANGED <<head, runtime, lock, lastDesired, previous, cyc, result, moves, faults>>

\* The interrupted receipt cannot be written: the cycle fails.
InterruptFails(a) ==
  /\ pc[a] = "validating"
  /\ pending[a] # None /\ pending[a].commit # cyc[a].commit
  /\ AppendFails([pending[a] EXCEPT !.result = "interrupted"])
  /\ Fail(a)
  /\ UNCHANGED <<head, runtime, memory, moves>>

\* Fetch, Desired, Validate, Plan, Current or Health returns an error before
\* anything was mutated, or Materialize or Plan does during a rollback: FAILED.
ReadFails(a) ==
  /\ \/ pc[a] \in {"fetching", "validating"} /\ Fault("source")
     \/ pc[a] \in {"planning", "comparing", "restoring", "driftHealth", "driftCompare"}
        /\ Fault("target")
  /\ Fail(a)
  /\ UNCHANGED <<head, runtime, journal, memory, moves>>
-----------------------------------------------------------------------------
(* Deploying a commit. *)

\* PLANNING: the plan against live runtime state, and its deployment ID; a
\* checkpoint of this commit lends its ID, and then nothing new is recorded.
Plan(a) ==
  LET c == cyc[a].commit
      recovering == pending[a] # None /\ pending[a].commit = c
      base == IF previous[a] = None THEN NoServices ELSE Tree[previous[a]]
  IN  /\ pc[a] = "planning"
      /\ \E plan \in Plans(Tree[c], base, runtime) :
           /\ cyc' = [cyc EXCEPT ![a] =
                        [@ EXCEPT !.id = IF recovering THEN pending[a].id ELSE NewId,
                                  !.recovering = recovering,
                                  !.changed = Changed(plan),
                                  !.todo = plan]]
           /\ Goto(a, IF ~Changed(plan) THEN "verifying"
                      ELSE IF recovering THEN "deploying" ELSE "checkpoint")
      /\ UNCHANGED <<head, runtime, journal, lock, memory, result, moves, faults>>

\* PULLING, recordPending: the checkpoint precedes every mutation.
Checkpoint(a) ==
  LET r == NewReceipt(cyc[a].id, cyc[a].commit, "in_progress")
  IN  /\ pc[a] = "checkpoint"
      /\ journal' = Append(journal, r)
      /\ pending' = [pending EXCEPT ![a] = r]
      /\ Goto(a, "deploying")
      /\ UNCHANGED <<head, runtime, lock, lastDesired, previous, cyc, result, moves, faults>>

\* Mutant: recordPending is best effort like recordReceipt.
CheckpointIgnored(a) ==
  /\ pc[a] = "checkpoint"
  /\ AppendFails(NewReceipt(cyc[a].id, cyc[a].commit, "in_progress"))
  /\ Goto(a, "deploying")
  /\ UNCHANGED <<head, runtime, lock, memory, cyc, result, moves>>

\* No checkpoint, no deployment.
CheckpointFails(a) ==
  /\ pc[a] = "checkpoint"
  /\ AppendFails(NewReceipt(cyc[a].id, cyc[a].commit, "in_progress"))
  /\ Fail(a)
  /\ UNCHANGED <<head, runtime, memory, moves>>

\* DEPLOYING: Target.Apply runs the next command of the plan.
Deploy(a) ==
  /\ pc[a] = "deploying"
  /\ \E command \in Due(cyc[a].todo) :
       /\ Command(command, Tree[cyc[a].commit])
       /\ cyc' = [cyc EXCEPT ![a].todo = @ \ command]
       /\ Goto(a, IF cyc[a].todo = command THEN "verifying" ELSE "deploying")
  /\ UNCHANGED <<head, journal, lock, memory, result, moves>>

\* Apply stops at the first command that fails.
DeployFails(a) ==
  /\ pc[a] = "deploying"
  /\ \E command \in Due(cyc[a].todo) : CommandFails(command, Tree[cyc[a].commit])
  /\ Goto(a, "failing")
  /\ UNCHANGED <<head, journal, lock, memory, cyc, result, moves>>

\* VERIFYING: only an unhealthy service fails a deployment; services without a
\* health check, or still starting, pass.
Verify(a) ==
  /\ pc[a] = "verifying"
  /\ \/ Sick(runtime) = {} /\ Goto(a, "comparing") /\ UNCHANGED faults
     \/ Sick(runtime) # {} /\ Goto(a, "failing") /\ UNCHANGED faults
     \/ Fault("target") /\ Goto(a, "failing")
  /\ UNCHANGED <<head, runtime, journal, lock, memory, cyc, result, moves>>

\* Mutant: the healthy receipt hangs on the plan alone, "|| r.recovering" lost.
CompareChangedOnly(a) ==
  LET c == cyc[a].commit
      state == [commit |-> c, services |-> Tree[c]]
  IN  /\ pc[a] = "comparing"
      /\ lastDesired' = [lastDesired EXCEPT ![a] = c]
      /\ \/ /\ Compare(state, state, runtime) = "DRIFTED"
            /\ Return(a, Report("healthy", c, None))
            /\ UNCHANGED previous
         \/ /\ Compare(state, state, runtime) = "SYNCED"
            /\ previous' = [previous EXCEPT ![a] = c]
            /\ Goto(a, IF cyc[a].changed THEN "closing" ELSE "inflight")
            /\ UNCHANGED <<lock, cyc, result>>
      /\ UNCHANGED <<head, runtime, journal, pending, moves, faults>>

\* HEALTHY: desired is compared with the runtime.  DeployedState is built from
\* desired, so the outcome is SYNCED or DRIFTED; either way the commit becomes
\* lastDesired.
CompareDeployed(a) ==
  LET c == cyc[a].commit
      state == [commit |-> c, services |-> Tree[c]]
  IN  /\ pc[a] = "comparing"
      /\ lastDesired' = [lastDesired EXCEPT ![a] = c]
      /\ \/ /\ Compare(state, state, runtime) = "DRIFTED"
            /\ \/ /\ DriftPolicy = "repair"
                  /\ Goto(a, "repairPlan")
                  /\ UNCHANGED <<lock, cyc, result>>
               \/ /\ DriftPolicy # "repair"
                  /\ Return(a, Report("healthy", c, None))
            /\ UNCHANGED previous
         \/ /\ Compare(state, state, runtime) = "SYNCED"
            /\ previous' = [previous EXCEPT ![a] = c]
            /\ Goto(a, IF cyc[a].changed \/ cyc[a].recovering THEN "closing" ELSE "inflight")
            /\ UNCHANGED <<lock, cyc, result>>
      /\ UNCHANGED <<head, runtime, journal, pending, moves, faults>>

\* SYNCED: the healthy receipt, best effort; pending is cleared regardless.
Close(a) ==
  /\ pc[a] = "closing"
  /\ BestEffort(NewReceipt(cyc[a].id, cyc[a].commit, "healthy"))
  /\ pending' = [pending EXCEPT ![a] = None]
  /\ Goto(a, "inflight")
  /\ UNCHANGED <<head, runtime, lock, lastDesired, previous, cyc, result, moves>>

\* Mutant: the last fetch is taken for a new commit whatever it returns.
InFlightAgain(a) ==
  /\ pc[a] = "inflight" /\ FreshIds # {}
  /\ Goto(a, "fetching")
  /\ UNCHANGED <<head, runtime, journal, lock, memory, cyc, result, moves, faults>>

\* The last fetch of the cycle: a commit that arrived in flight is reconciled
\* at once, under the same lock.
InFlight(a) ==
  /\ pc[a] = "inflight"
  /\ \/ /\ \/ head = cyc[a].commit /\ UNCHANGED faults
           \/ head # cyc[a].commit /\ Fault("source")
        /\ Return(a, Report("synced", cyc[a].commit, None))
     \/ /\ head # cyc[a].commit /\ FreshIds # {}
        /\ Goto(a, "fetching")
        /\ UNCHANGED <<lock, cyc, result, faults>>
  /\ UNCHANGED <<head, runtime, journal, memory, moves>>
-----------------------------------------------------------------------------
(* A deployment that failed. *)

\* recordReceipt(OutcomeFailed), best effort, then rollback if there is a
\* previous deployment.
RecordFailed(a) ==
  /\ pc[a] = "failing"
  /\ BestEffort(NewReceipt(cyc[a].id, cyc[a].commit, "failed"))
  /\ \/ previous[a] = None /\ Fail(a)
     \/ previous[a] # None /\ Goto(a, "restoring") /\ UNCHANGED <<lock, cyc, result>>
  /\ UNCHANGED <<head, runtime, memory, moves>>

\* Mutant: the rollback plans the revision that just failed.
RestoreFailed(a) ==
  /\ pc[a] = "restoring"
  /\ \E plan \in Plans(Tree[cyc[a].commit], NoServices, runtime) :
       /\ cyc' = [cyc EXCEPT ![a].todo = plan]
       /\ Goto(a, IF Changed(plan) THEN "rolling" ELSE "rolledback")
  /\ UNCHANGED <<head, runtime, journal, lock, memory, result, moves, faults>>

\* rollback: the previous revision is planned with no deployed state at all.
Restore(a) ==
  /\ pc[a] = "restoring"
  /\ \E plan \in Plans(Tree[previous[a]], NoServices, runtime) :
       /\ cyc' = [cyc EXCEPT ![a].todo = plan]
       /\ Goto(a, IF Changed(plan) THEN "rolling" ELSE "rolledback")
  /\ UNCHANGED <<head, runtime, journal, lock, memory, result, moves, faults>>

\* ApplyDesired runs the next command of the rollback.
RollBack(a) ==
  /\ pc[a] = "rolling"
  /\ \E command \in Due(cyc[a].todo) :
       /\ Command(command, Tree[previous[a]])
       /\ cyc' = [cyc EXCEPT ![a].todo = @ \ command]
       /\ Goto(a, IF cyc[a].todo = command THEN "rolledback" ELSE "rolling")
  /\ UNCHANGED <<head, journal, lock, memory, result, moves>>

\* A rollback that fails is a no-op for the Result: the failure stands.
RollBackFails(a) ==
  /\ pc[a] = "rolling"
  /\ \E command \in Due(cyc[a].todo) : CommandFails(command, Tree[previous[a]])
  /\ Fail(a)
  /\ UNCHANGED <<head, journal, memory, moves>>

\* Mutant: failedDeploymentID was reset before the receipt is built.
RecordNoId(a) ==
  /\ pc[a] = "rolledback"
  /\ BestEffort(NewReceipt(None, previous[a], "rolled_back"))
  /\ Return(a, Report("failed", cyc[a].commit, previous[a]))
  /\ UNCHANGED <<head, runtime, memory, moves>>

\* Mutant: the rollback is recorded as a deployment of its own.
RecordNewId(a) ==
  /\ pc[a] = "rolledback" /\ FreshIds # {}
  /\ BestEffort(NewReceipt(NewId, previous[a], "rolled_back"))
  /\ Return(a, Report("failed", cyc[a].commit, previous[a]))
  /\ UNCHANGED <<head, runtime, memory, moves>>

\* The rolled_back receipt carries the failed deployment's ID and the restored
\* commit; best effort.
RecordRollBack(a) ==
  /\ pc[a] = "rolledback"
  /\ BestEffort(NewReceipt(cyc[a].id, previous[a], "rolled_back"))
  /\ Return(a, Report("failed", cyc[a].commit, previous[a]))
  /\ UNCHANGED <<head, runtime, memory, moves>>
-----------------------------------------------------------------------------
(* The drift check of an unchanged HEAD, and drift repair. *)

DriftHealth(a) ==
  /\ pc[a] = "driftHealth"
  /\ cyc' = [cyc EXCEPT ![a].sick = Sick(runtime) # {}]
  /\ Goto(a, "driftCompare")
  /\ UNCHANGED <<head, runtime, journal, lock, memory, result, moves, faults>>

\* What a drifted cycle reports when nothing was repaired.
Unrepaired(a) ==
  Return(a, Report(IF cyc[a].unchanged /\ cyc[a].sick THEN "failed" ELSE "healthy",
                   cyc[a].commit, None))

DriftCompare(a) ==
  LET c == cyc[a].commit
      state == [commit |-> c, services |-> Tree[c]]
  IN  /\ pc[a] = "driftCompare"
      /\ \/ /\ Compare(state, state, runtime) = "SYNCED"
            /\ Return(a, Report(IF cyc[a].sick THEN "failed" ELSE "synced", c, None))
         \/ /\ Compare(state, state, runtime) = "DRIFTED"
            /\ \/ DriftPolicy = "repair" /\ Goto(a, "repairPlan") /\ UNCHANGED <<lock, cyc, result>>
               \/ DriftPolicy # "repair" /\ Unrepaired(a)
      /\ UNCHANGED <<head, runtime, journal, memory, moves, faults>>

\* repairDrift re-plans from a fresh look at the runtime.
RepairPlan(a) ==
  LET m == Tree[cyc[a].commit]
  IN  /\ pc[a] = "repairPlan"
      /\ \E plan \in Plans(m, m, runtime) :
           \/ /\ Changed(plan)
              /\ cyc' = [cyc EXCEPT ![a].todo = plan]
              /\ Goto(a, "repairing")
              /\ UNCHANGED <<lock, result>>
           \/ ~Changed(plan) /\ Return(a, Report("healthy", cyc[a].commit, None))
      /\ UNCHANGED <<head, runtime, journal, memory, moves, faults>>

\* The repair's commands; convergence is confirmed by the next cycle.
Repair(a) ==
  /\ pc[a] = "repairing"
  /\ \E command \in Due(cyc[a].todo) :
       /\ Command(command, Tree[cyc[a].commit])
       /\ \/ /\ cyc[a].todo = command
             /\ Return(a, Report("healthy", cyc[a].commit, None))
          \/ /\ cyc[a].todo # command
             /\ cyc' = [cyc EXCEPT ![a].todo = @ \ command]
             /\ UNCHANGED <<lock, pc, result>>
  /\ UNCHANGED <<head, journal, memory, moves>>

\* A repair that fails is silent.
RepairFails(a) ==
  /\ \/ pc[a] = "repairPlan" /\ Fault("target") /\ UNCHANGED runtime
     \/ /\ pc[a] = "repairing"
        /\ \E command \in Due(cyc[a].todo) : CommandFails(command, Tree[cyc[a].commit])
  /\ Unrepaired(a)
  /\ UNCHANGED <<head, journal, memory, moves>>
-----------------------------------------------------------------------------
(* The environment. *)

\* The process dies anywhere in a cycle and is started again: the kernel frees
\* the lock, the memory is lost, the journal and the containers stay.
Crash(a) ==
  /\ pc[a] # "idle" \/ lastDesired[a] # None
  /\ Fault("crash")
  /\ lock' = IF lock = a THEN None ELSE lock
  /\ Goto(a, "idle")
  /\ lastDesired' = [lastDesired EXCEPT ![a] = None]
  /\ previous' = [previous EXCEPT ![a] = None]
  /\ pending' = [pending EXCEPT ![a] = None]
  /\ cyc' = [cyc EXCEPT ![a] = NoCycle]
  /\ result' = [result EXCEPT ![a] = NoResult]
  /\ UNCHANGED <<head, runtime, journal, moves>>

\* Someone pushes, or resets the branch to an older commit.
MoveHead ==
  /\ moves < MaxMoves
  /\ moves' = moves + 1
  /\ head' \in Commits \ {head}
  /\ UNCHANGED <<runtime, journal, lock, pc, memory, cyc, result, faults>>

\* Someone stops or removes a container by hand, or it exits.
Stop(s) ==
  /\ runtime[s] # Gone
  /\ Fault("stop")
  /\ runtime' \in {[runtime EXCEPT ![s] = Gone], [runtime EXCEPT ![s].up = FALSE]}
  /\ UNCHANGED <<head, journal, lock, pc, memory, cyc, result, moves>>

\* A running service turns unhealthy.
Sicken(s) ==
  /\ runtime[s] # Gone /\ runtime[s].up /\ ~runtime[s].sick
  /\ Fault("sick")
  /\ runtime' = [runtime EXCEPT ![s].sick = TRUE]
  /\ UNCHANGED <<head, journal, lock, pc, memory, cyc, result, moves>>

\* Its health check passes again.
Heal(s) ==
  /\ runtime[s] # Gone /\ runtime[s].sick
  /\ runtime' = [runtime EXCEPT ![s].sick = FALSE]
  /\ UNCHANGED <<head, journal, lock, pc, memory, cyc, result, moves, faults>>
-----------------------------------------------------------------------------
\* The steps of a cycle that meets no fault.
Step(a) ==
  \/ Begin(a) \/ Fetch(a) \/ Validate(a) \/ Plan(a) \/ Checkpoint(a) \/ Deploy(a)
  \/ Verify(a) \/ CompareDeployed(a) \/ Close(a) \/ InFlight(a)
  \/ RecordFailed(a) \/ Restore(a) \/ RollBack(a) \/ RecordRollBack(a)
  \/ DriftHealth(a) \/ DriftCompare(a) \/ RepairPlan(a) \/ Repair(a)

Failure(a) ==
  \/ BeginFails(a) \/ ReadFails(a) \/ InterruptFails(a) \/ CheckpointFails(a)
  \/ DeployFails(a) \/ RollBackFails(a) \/ RepairFails(a) \/ Crash(a)

Environment == MoveHead \/ \E s \in Services : Stop(s) \/ Sicken(s) \/ Heal(s)

Next == Environment \/ \E a \in Agents : Step(a) \/ Failure(a)

Spec == Init /\ [][Next]_vars

\* sync --watch runs cycles for ever, whatever they return; nothing is assumed
\* of the environment or of a one-shot process.
FairSpec == Spec /\ \A a \in Agents \ OneShot : WF_vars(Step(a))
-----------------------------------------------------------------------------
TypeOK ==
  /\ head \in Commits
  /\ runtime \in Runtime
  /\ journal \in Seq(Receipt)
  /\ lock \in Agents \cup {None}
  /\ pc \in [Agents -> Labels]
  /\ lastDesired \in [Agents -> Commits \cup {None}]
  /\ previous \in [Agents -> Commits \cup {None}]
  /\ pending \in [Agents -> Receipt \cup {None}]
  /\ cyc \in [Agents -> Cycle]
  /\ result \in [Agents -> Result]
  /\ moves \in 0..MaxMoves
  /\ faults \in 0..MaxFaults

\* WithLocker "serializes the complete cycle for a target": at most one process
\* is inside a cycle, and it is the one the kernel says holds the lock.
OneCycleAtATime ==
  \A a \in Agents : pc[a] # "idle" => lock = a

\* "A changed cycle appends an in_progress receipt before Target.Apply": while
\* the commands of a deployment run, the journal holds an open checkpoint of
\* that deployment and that commit, so a crash at any of them is recoverable.
WriteAhead ==
  \A a \in Agents : pc[a] = "deploying" =>
     \E i \in OpenAt(journal) :
        journal[i].id = cyc[a].id /\ journal[i].commit = cyc[a].commit

\* Recovery never leaves two deployments open: Unfinished returns one receipt,
\* so a second open one would be resumed only after the first, when the target
\* has long moved on.  (While the store keeps every receipt it is given.)
OneOpenDeployment ==
  \A x, y \in OpenIds(journal) : x = y

\* The step in which a's cycle returns its Result.
Reports(a) == result'[a] # result[a] /\ result'[a].phase # "none"

\* A cycle that reports SYNCED leaves no deployment open behind it, its own or
\* an inherited one.  (While the store keeps every receipt it is given.)
SyncedClosesJournal ==
  [][\A a \in Agents :
       Reports(a) /\ result'[a].phase = "synced" => OpenIds(journal') = {}]_vars

\* Every container carries the image its service is declared with at commit c.
RunsImages(c, rt) ==
  \A s \in Present(rt) : s \in Declared(Tree[c]) /\ rt[s].def.image = Tree[c][s].image

\* When a cycle reports a rollback, every container left carries the image its
\* service declared at the restored commit, and no orphan of the failed commit
\* survives.
RollbackRestoresImages ==
  [][\A a \in Agents :
       Reports(a) /\ result'[a].rolledBackTo # None =>
         RunsImages(result'[a].rolledBackTo, runtime')]_vars

\* How each deployment stands in the history.
outcome == [id \in DeploymentIDs |-> OutcomeOf(journal, id)]

Ledger == INSTANCE DeploymentLedger WITH Lossy <- "journal" \in FaultKinds

\* The journal keeps the promises of the deployment history: all of them when
\* the store keeps every receipt, and those DeploymentLedger allows otherwise.
ImplementsLedger == Ledger!Spec

Untroubled == \A i \in DOMAIN journal : journal[i].result \in {"in_progress", "healthy"}

RunsCommit(c) == \A s \in Present(runtime) : runtime[s].def = Tree[c][s]

\* The runtime does not report its configuration, so a plan works it out from
\* the Git history.  As long as every deployment begun so far has ended
\* healthy, that is enough: a commit reported SYNCED is what runs, down to the
\* configuration.
CleanHistoryConverges ==
  [][\A a \in Agents :
       Reports(a) /\ result'[a].phase = "synced" /\ Untroubled =>
         RunsCommit(result'[a].commit)]_vars

\* compare.go: "SYNCED: Git, Accorda's record, and the runtime all agree."
\* (Of the one agent of its run: nothing redefines a container between cycles.)
SyncedRunsCommit ==
  \A a \in Agents : result[a].phase = "synced" => RunsCommit(result[a].commit)

Converged ==
  LET state == [commit |-> head, services |-> Tree[head]]
  IN  Compare(state, state, runtime) = "SYNCED"

\* Once pushes and faults stop, the watch loop brings images and liveness of
\* the containers to the branch HEAD and keeps them there.
EventuallyConverges == <>[]Converged

\* The places of a cycle in the order it takes them: a deployment, its
\* rollback, then the drift check of an unchanged HEAD and drift repair.
Course ==
  [idle |-> 0, fetching |-> 1, validating |-> 2, planning |-> 3, checkpoint |-> 4,
   deploying |-> 5, verifying |-> 6, comparing |-> 7, closing |-> 8, inflight |-> 9,
   failing |-> 10, restoring |-> 11, rolling |-> 12, rolledback |-> 13,
   driftHealth |-> 14, driftCompare |-> 15, repairPlan |-> 16, repairing |-> 17]

Forward(a) ==
  \/ Course[pc[a]] < Course[pc'[a]]
  \/ /\ pc'[a] = pc[a]
     /\ cyc'[a].todo \subseteq cyc[a].todo /\ cyc'[a].todo # cyc[a].todo
  \/ /\ pc[a] = "inflight" /\ pc'[a] = "fetching"
     /\ head # cyc[a].commit

\* Whatever a process does in a cycle ends it, brings it forward or runs a
\* command of its plan off the plan; it starts over only for a commit that
\* arrived in flight.  So a cycle holds the lock for no more steps than the
\* commits it meets and the plans made for them have: nothing is retried in it.
CycleGoesForward ==
  [][\A a \in Agents : Step(a) \/ Failure(a) => pc'[a] = "idle" \/ Forward(a)]_vars

\* A checkpoint is eventually matched by a terminal receipt, across crashes:
\* the recovery journal does not grow entries nobody will ever close.
EveryDeploymentEnds ==
  \A id \in DeploymentIDs : id \in OpenIds(journal) ~> id \notin OpenIds(journal)
=============================================================================
