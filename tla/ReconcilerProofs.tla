--------------------------- MODULE ReconcilerProofs ---------------------------
(****************************************************************************)
(* Theorems about Reconciler, for every set of agents, services, commits    *)
(* and identifiers, every drift and pull policy and every choice of faults. *)
(****************************************************************************)
EXTENDS Reconciler, WellFoundedInduction, TLAPS
-----------------------------------------------------------------------------
(****************************************************************************)
(* What one Append does to the questions the reconciler asks the journal.   *)
(* None of these lemmas supposes anything of the receipts already there.    *)
(****************************************************************************)

\* A set of positions that is not empty has a newest one: the least upper bound
\* of the positions is one of them.
LEMMA NewestExists ==
  ASSUME NEW n \in Nat, NEW at \in SUBSET (1..n), at # {}
  PROVE  Newest(at) # {}
<1> DEFINE Bound == {k \in Nat : \A i \in at : i <= k}
<1>1. Bound \subseteq Nat /\ Bound # {}
  <2>1. n \in Bound
    OBVIOUS
  <2> QED BY <2>1
<1>2. PICK m \in Bound : \A k \in Bound : ~(<<k, m>> \in OpToRel(<, Nat))
  <2> HIDE DEF Bound
  <2> QED BY <1>1, WFMin, NatLessThanWellFounded
<1>3. \A k \in Bound : ~(k < m)
  BY <1>2 DEF OpToRel
<1>4. PICK x \in at : TRUE
  OBVIOUS
<1>5. m \in at
  <2> SUFFICES ASSUME m \notin at PROVE FALSE
    OBVIOUS
  <2>1. m - 1 \in Nat /\ \A i \in at : i <= m - 1
    BY <1>4
  <2> QED BY <2>1, <1>3
<1> QED BY <1>5 DEF Newest

LEMMA AppendFacts ==
  ASSUME NEW S, NEW j \in Seq(S), NEW r \in S
  PROVE  /\ Append(j, r) \in Seq(S)
         /\ Len(j) \in Nat
         /\ DOMAIN j = 1..Len(j)
         /\ DOMAIN Append(j, r) = 1..(Len(j) + 1)
         /\ \A i \in 1..Len(j) : Append(j, r)[i] = j[i]
         /\ Append(j, r)[Len(j) + 1] = r
  OBVIOUS

\* A checkpoint appended is open, and closes nothing.
LEMMA AppendCheckpoint ==
  ASSUME NEW j \in Seq(Receipt), NEW r \in Receipt, r.result = "in_progress"
  PROVE  /\ OpenAt(Append(j, r)) = OpenAt(j) \cup {Len(j) + 1}
         /\ OpenIds(Append(j, r)) = OpenIds(j) \cup {r.id}
<1>1. OpenAt(Append(j, r)) = OpenAt(j) \cup {Len(j) + 1}
  BY AppendFacts DEF OpenAt
<1>2. OpenAt(j) \subseteq 1..Len(j)
  BY AppendFacts DEF OpenAt
<1> QED BY <1>1, <1>2, AppendFacts DEF OpenIds

\* A terminal receipt appended closes the checkpoints of its deployment only.
LEMMA AppendTerminal ==
  ASSUME NEW j \in Seq(Receipt), NEW r \in Receipt, r.result # "in_progress"
  PROVE  /\ OpenAt(Append(j, r)) = {i \in OpenAt(j) : j[i].id # r.id}
         /\ OpenIds(Append(j, r)) = OpenIds(j) \ {r.id}
<1>1. OpenAt(Append(j, r)) = {i \in OpenAt(j) : j[i].id # r.id}
  BY AppendFacts DEF OpenAt
<1>2. OpenAt(j) \subseteq 1..Len(j)
  BY AppendFacts DEF OpenAt
<1> QED BY <1>1, <1>2, AppendFacts DEF OpenIds

\* An identifier is used once a receipt carries it.
LEMMA AppendUses ==
  ASSUME NEW j \in Seq(Receipt), NEW r \in Receipt
  PROVE  UsedIds(Append(j, r)) = UsedIds(j) \cup {r.id}
BY AppendFacts DEF UsedIds

\* Open checkpoints carry used identifiers.
LEMMA OpenIsUsed ==
  ASSUME NEW j \in Seq(Receipt)
  PROVE  OpenIds(j) \subseteq UsedIds(j)
BY DEF OpenIds, UsedIds, OpenAt

\* Unfinished returns an open checkpoint, and nothing only if there is none.
LEMMA UnfinishedIsOpen ==
  ASSUME NEW j \in Seq(Receipt)
  PROVE  /\ \A r \in Unfinished(j) : \E i \in OpenAt(j) : j[i] = r
         /\ Unfinished(j) = {} => OpenIds(j) = {}
<1>1. OpenAt(j) \in SUBSET (1..Len(j)) /\ Len(j) \in Nat
  BY DEF OpenAt
<1>2. Newest(OpenAt(j)) \subseteq OpenAt(j)
  BY DEF Newest
<1>3. OpenAt(j) # {} => Newest(OpenAt(j)) # {}
  BY <1>1, NewestExists
<1> QED BY <1>2, <1>3 DEF Unfinished, OpenIds

\* The baseline is a recorded commit, or the one already held.
LEMMA BaselineType ==
  ASSUME NEW j \in Seq(Receipt), NEW held, NEW c \in Baseline(j, held)
  PROVE  c = held \/ c \in Commits
<1>1. CASE HealthyAt(j) = {}
  BY <1>1 DEF Baseline
<1>2. CASE HealthyAt(j) # {}
  <2>1. PICK i \in Newest(HealthyAt(j)) : c = j[i].commit
    BY <1>2 DEF Baseline
  <2>2. i \in 1..Len(j)
    BY DEF Newest, HealthyAt
  <2>3. j[i] \in Receipt
    BY <2>2
  <2> QED BY <2>1, <2>3 DEF Receipt
<1> QED BY <1>1, <1>2

\* The newest receipt of a deployment decides how it stands.
LEMMA AppendOutcome ==
  ASSUME NEW j \in Seq(Receipt), NEW r \in Receipt, NEW id
  PROVE  OutcomeOf(Append(j, r), id) = IF id = r.id THEN r.result ELSE OutcomeOf(j, id)
<1> DEFINE k == Append(j, r)
           old == {i \in DOMAIN j : j[i].id = id}
           new == {i \in DOMAIN k : k[i].id = id}
           newest(at) == CHOOSE i \in Newest(at) : TRUE
<1>1. /\ OutcomeOf(j, id) = IF old = {} THEN "none" ELSE j[newest(old)].result
      /\ OutcomeOf(k, id) = IF new = {} THEN "none" ELSE k[newest(new)].result
  BY Zenon DEF OutcomeOf
<1>2. CASE id = r.id
  <2>1. Newest(new) = {Len(j) + 1} /\ new # {}
    BY <1>2, AppendFacts DEF Newest
  <2>2. newest(new) = Len(j) + 1
    BY <2>1
  <2>3. k[newest(new)] = r
    <3>1. k[Len(j) + 1] = r
      BY AppendFacts
    <3> QED BY <2>2, <3>1, Zenon
  <2> QED BY <1>1, <1>2, <2>1, <2>3
<1>3. CASE id # r.id
  <2>1. new = old
    BY <1>3, AppendFacts
  <2>2. ASSUME old # {} PROVE k[newest(old)] = j[newest(old)]
    <3>1. old \in SUBSET (1..Len(j)) /\ Len(j) \in Nat
      OBVIOUS
    <3>2. Newest(old) # {}
      BY <2>2, <3>1, NewestExists
    <3>3. newest(old) \in 1..Len(j)
      BY <3>1, <3>2 DEF Newest
    <3> QED BY <3>3, AppendFacts
  <2> HIDE DEF k, old, new, newest
  <2>3. OutcomeOf(k, id) = OutcomeOf(j, id)
    BY <1>1, <2>1, <2>2
  <2> QED BY <1>3, <2>3 DEF k
<1> QED BY <1>2, <1>3

\* A deployment with no receipt does not stand in the history at all.
LEMMA UnusedOutcome ==
  ASSUME NEW j \in Seq(Receipt), NEW id, id \notin UsedIds(j)
  PROVE  OutcomeOf(j, id) = "none"
<1> DEFINE its == {i \in DOMAIN j : j[i].id = id}
<1>1. its = {}
  BY DEF UsedIds
<1> QED BY <1>1, Zenon DEF OutcomeOf

\* A deployment is open exactly when its newest receipt is a checkpoint.
LEMMA OpenIsInProgress ==
  ASSUME NEW j \in Seq(Receipt), NEW id
  PROVE  id \in OpenIds(j) <=> OutcomeOf(j, id) = "in_progress"
<1> DEFINE its == {i \in DOMAIN j : j[i].id = id}
           last == CHOOSE i \in Newest(its) : TRUE
<1>1. OutcomeOf(j, id) = IF its = {} THEN "none" ELSE j[last].result
  BY Zenon DEF OutcomeOf
<1>2. its \in SUBSET (1..Len(j)) /\ Len(j) \in Nat
  OBVIOUS
<1>3. ASSUME its # {} PROVE last \in its /\ \A k \in its : k <= last
  <2>1. Newest(its) # {}
    BY <1>2, <1>3, NewestExists
  <2>2. last \in Newest(its)
    BY <2>1, Zenon
  <2> QED BY <2>2 DEF Newest
<1>4. ASSUME id \in OpenIds(j) PROVE OutcomeOf(j, id) = "in_progress"
  <2>1. PICK i \in OpenAt(j) : j[i].id = id
    BY <1>4 DEF OpenIds
  <2>2. i \in its
    BY <2>1 DEF OpenAt
  <2>3. last \in its /\ i <= last
    BY <1>3, <2>2
  <2> HIDE DEF last
  <2>4. j[last].result = "in_progress"
    BY <1>2, <2>1, <2>2, <2>3 DEF OpenAt
  <2> QED BY <1>1, <2>2, <2>4
<1>5. ASSUME OutcomeOf(j, id) = "in_progress" PROVE id \in OpenIds(j)
  <2> HIDE DEF last
  <2>1. its # {} /\ j[last].result = "in_progress"
    BY <1>1, <1>5
  <2>2. last \in its /\ \A k \in its : k <= last
    BY <1>3, <2>1
  <2>3. last \in OpenAt(j)
    BY <1>2, <2>1, <2>2 DEF OpenAt
  <2> QED BY <2>2, <2>3 DEF OpenIds
<1> QED BY <1>4, <1>5
-----------------------------------------------------------------------------
(* What the plan and the docker compose commands return. *)

\* The services a plan brings up are declared in the manifest it is for.
Fits(todo, m) == \A x \in OfKind(todo, Ups) : x.service \in Declared(m)

LEMMA DriftActionsType ==
  ASSUME NEW m \in Manifest, NEW base \in Manifest, NEW rt \in Runtime
  PROVE  DriftActions(m, base, rt) \subseteq Action /\ Fits(DriftActions(m, base, rt), m)
<1>1. /\ Created(m, base, rt) \subseteq Declared(m)
      /\ Recreated(m, base, rt) \subseteq Declared(m)
      /\ Started(m, base, rt) \subseteq Declared(m)
      /\ Removed(m, rt) \subseteq Services
      /\ Declared(m) \subseteq Services
  BY DEF Created, Recreated, Started, Removed, Common, Declared, Present
<1> QED BY <1>1 DEF DriftActions, Tagged, Action, Kinds, Fits, OfKind, Ups

LEMMA PullSetsType ==
  ASSUME NEW m \in Manifest, NEW drift \in SUBSET Action, NEW pulled \in PullSets(m, drift)
  PROVE  pulled \subseteq Services
<1>1. CASE PullPolicy = "never"
  BY <1>1 DEF PullSets
<1>2. CASE PullPolicy = "always"
  BY <1>2 DEF PullSets, Declared
<1>3. CASE PullPolicy = "changed"
  BY <1>3 DEF PullSets, Action
<1>4. CASE PullPolicy = "missing"
  BY <1>4 DEF PullSets, Declared
<1> QED BY <1>1, <1>2, <1>3, <1>4, PullPolicyAssumption DEF PullPolicies

LEMMA PlansType ==
  ASSUME NEW m \in Manifest, NEW base \in Manifest, NEW rt \in Runtime,
         NEW plan \in Plans(m, base, rt)
  PROVE  plan \in SUBSET Action /\ Fits(plan, m)
<1> DEFINE drift == DriftActions(m, base, rt)
<1>1. PICK pulled \in PullSets(m, drift) : plan = Tagged("pull", pulled) \cup drift
  BY DEF Plans
<1>2. drift \in SUBSET Action /\ Fits(drift, m)
  BY DriftActionsType
<1>3. pulled \subseteq Services
  BY <1>2, PullSetsType
<1> QED BY <1>1, <1>2, <1>3 DEF Tagged, Action, Kinds, Fits, OfKind, Ups

\* A command is a part of the plan, and what it leaves behind is a runtime.
LEMMA OutcomesType ==
  ASSUME NEW m \in Manifest, NEW rt \in Runtime,
         NEW todo \in SUBSET Action, Fits(todo, m),
         NEW command \in Due(todo), NEW after \in Outcomes(command, m, rt)
  PROVE  after \in Runtime
<1> DEFINE raised == {x.service : x \in OfKind(command, Ups)}
           purge  == OfKind(command, {"remove"}) # {}
           touched == IF purge THEN Declared(m) ELSE raised
<1>1. command \subseteq todo
  BY DEF Due, OfKind
<1>2. raised \subseteq Declared(m)
  BY <1>1 DEF Fits, OfKind
<1>3. touched \subseteq Declared(m)
  BY <1>2
<1>4. PICK sick \in SUBSET touched :
         after = [s \in Services |-> IF s \in touched THEN Running(m[s], s \in sick)
                                     ELSE IF purge THEN Gone ELSE rt[s]]
  BY Zenon DEF Outcomes
<1>5. \A s \in touched : Running(m[s], s \in sick) \in Container
  BY <1>3 DEF Running, Container, Manifest, Declared
<1> HIDE DEF touched, purge
<1> QED BY <1>4, <1>5 DEF Runtime
-----------------------------------------------------------------------------
(****************************************************************************)
(* The repair of drift: a cycle that finds drift has something to repair,   *)
(* and one that finds none would repair nothing.  plan.go: "Mirror          *)
(* compareService's status check"; the two functions are written apart.     *)
(****************************************************************************)

\* For a commit compared with itself, plan.DriftActions is empty exactly when
\* state.Compare says SYNCED, and otherwise Compare says DRIFTED.
THEOREM DriftIsWhatRepairPlans ==
  ASSUME NEW c \in Commits, NEW rt \in Runtime
  PROVE  LET m == Tree[c]
             state == [commit |-> c, services |-> m]
         IN  /\ Compare(state, state, rt) \in {"SYNCED", "DRIFTED"}
             /\ Compare(state, state, rt) = "DRIFTED" <=> Changed(DriftActions(m, m, rt))
<1> DEFINE m == Tree[c]
           state == [commit |-> c, services |-> m]
<1>1. OutOfSync(state, state, rt) = {}
  BY DEF OutOfSync
<1>2. Drifted(state, state, rt) =
        (Present(rt) \ Declared(m))
          \cup {s \in Declared(m) : rt[s] = Gone \/ ~rt[s].up \/ rt[s].def.image # m[s].image}
  BY <1>1 DEF Drifted
<1>3. /\ Created(m, m, rt) = {}
      /\ Recreated(m, m, rt) = {s \in Declared(m) \cap Present(rt) : rt[s].def.image # m[s].image}
      /\ Started(m, m, rt) = (Declared(m) \ Present(rt))
           \cup {s \in (Declared(m) \cap Present(rt)) \ Recreated(m, m, rt) : ~rt[s].up}
      /\ Removed(m, rt) = Present(rt) \ Declared(m)
  BY DEF Created, Recreated, Started, Removed, Common
<1>4. Declared(m) \subseteq Services
  BY DEF Declared
<1>5. Drifted(state, state, rt) = Recreated(m, m, rt) \cup Started(m, m, rt) \cup Removed(m, rt)
  BY <1>2, <1>3, <1>4 DEF Present
<1>6. \A kind, svcs : Tagged(kind, svcs) = {} <=> svcs = {}
  <2>1. \A kind, svcs : \A s \in svcs : [kind |-> kind, service |-> s] \in Tagged(kind, svcs)
    BY DEF Tagged
  <2>2. \A kind, svcs : \A x \in Tagged(kind, svcs) : x.service \in svcs
    BY DEF Tagged
  <2> QED BY <2>1, <2>2
<1>7. Changed(DriftActions(m, m, rt)) <=> Drifted(state, state, rt) # {}
  <2>1. DriftActions(m, m, rt) = {} <=>
          /\ Tagged("create", Created(m, m, rt)) = {}
          /\ Tagged("recreate", Recreated(m, m, rt)) = {}
          /\ Tagged("start", Started(m, m, rt)) = {}
          /\ Tagged("remove", Removed(m, rt)) = {}
    BY DEF DriftActions
  <2>2. DriftActions(m, m, rt) = {} <=>
          Recreated(m, m, rt) = {} /\ Started(m, m, rt) = {} /\ Removed(m, rt) = {}
    BY <2>1, <1>3, <1>6
  <2> QED BY <2>2, <1>5 DEF Changed
<1> QED BY <1>1, <1>7 DEF Compare
-----------------------------------------------------------------------------
(****************************************************************************)
(* The inductive invariant.  TypeOK is not inductive alone: that a command  *)
(* leaves a typed runtime depends on the plan naming only services the      *)
(* manifest declares, and that a receipt is typed on the cycle knowing its  *)
(* commit, its identifier and, in a rollback, the commit to restore.        *)
(* WriteAhead needs that a checkpoint held in memory is still open on disk, *)
(* through every step a cycle takes before it ends.                         *)
(****************************************************************************)

HoldsLock(a) == pc[a] # "idle" => lock = a

KnowsCommit(a) == pc[a] \notin {"idle", "fetching"} => cyc[a].commit \in Commits

Deployment == {"checkpoint", "deploying", "verifying", "comparing", "closing", "inflight",
               "failing", "restoring", "rolling", "rolledback"}

KnowsId(a) == pc[a] \in Deployment => cyc[a].id \in DeploymentIDs

\* An identifier is left to draw until the cycle has drawn it.
CanDraw(a) == pc[a] \in {"fetching", "validating", "planning"} => FreshIds # {}

KnowsPrevious(a) == pc[a] \in {"restoring", "rolling", "rolledback"} => previous[a] \in Commits

PlanFits(a) ==
  /\ pc[a] \in {"checkpoint", "deploying", "repairing"} => Fits(cyc[a].todo, Tree[cyc[a].commit])
  /\ pc[a] = "rolling" => Fits(cyc[a].todo, Tree[previous[a]])

\* The steps that may still lead to SYNCED.
OnCourse == {"fetching", "validating", "planning", "checkpoint", "deploying", "verifying",
             "comparing", "closing", "inflight"}

\* The receipt the process holds as pending is open on disk.
PendingIsOpen(a) ==
  pc[a] \in OnCourse /\ pending[a] # None => \E i \in OpenAt(journal) : journal[i] = pending[a]

\* What is being deployed is what is pending.
DeploysPending(a) ==
  pc[a] = "deploying" =>
    pending[a] # None /\ pending[a].id = cyc[a].id /\ pending[a].commit = cyc[a].commit

AgentInv(a) ==
  /\ HoldsLock(a) /\ KnowsCommit(a) /\ KnowsId(a) /\ CanDraw(a) /\ KnowsPrevious(a)
  /\ PlanFits(a) /\ PendingIsOpen(a) /\ DeploysPending(a)

Inv == TypeOK /\ \A a \in Agents : AgentInv(a)

\* An idle agent is bound by nothing.
LEMMA IdleInv ==
  ASSUME NEW a \in Agents, pc[a] = "idle"
  PROVE  AgentInv(a)
BY DEF AgentInv, HoldsLock, KnowsCommit, KnowsId, CanDraw, KnowsPrevious, PlanFits,
       PendingIsOpen, DeploysPending, Deployment, OnCourse

THEOREM InitInv == Init => Inv
<1> SUFFICES ASSUME Init PROVE Inv
  OBVIOUS
<1>1. TypeOK
  BY ReconcilerAssumption
     DEF Init, TypeOK, Labels, Cycle, NoCycle, Result, NoResult, Report
<1>2. \A a \in Agents : pc[a] = "idle"
  BY DEF Init
<1> QED BY <1>1, <1>2, IdleInv DEF Inv
-----------------------------------------------------------------------------
(****************************************************************************)
(* A step of one agent.  It keeps the types and the agent's own invariant,  *)
(* and leaves the other agents apart: their memory is theirs, and the       *)
(* journal and the lock move only under the lock.                           *)
(****************************************************************************)

Apart(a) ==
  /\ \A b \in Agents \ {a} : /\ pc'[b] = pc[b] /\ cyc'[b] = cyc[b]
                            /\ previous'[b] = previous[b] /\ pending'[b] = pending[b]
  /\ pc[a] = "idle" => journal' = journal /\ (lock \in {None, a} \/ lock' = lock)

Good(a) == TypeOK' /\ AgentInv(a)' /\ Apart(a)

LEMMA IdleInvNext ==
  ASSUME NEW a \in Agents, pc'[a] = "idle"
  PROVE  AgentInv(a)'
BY DEF AgentInv, HoldsLock, KnowsCommit, KnowsId, CanDraw, KnowsPrevious, PlanFits,
       PendingIsOpen, DeploysPending, Deployment, OnCourse

LEMMA ApartKeepsInv ==
  ASSUME Inv, NEW a \in Agents, Apart(a), NEW b \in Agents \ {a}
  PROVE  AgentInv(b)'
<1>1. CASE pc[b] = "idle"
  BY <1>1, IdleInvNext DEF Apart
<1>2. CASE pc[b] # "idle"
  <2>1. lock = b /\ lock # a /\ lock # None
    BY <1>2, ReconcilerAssumption DEF Inv, AgentInv, HoldsLock
  <2>2. pc[a] = "idle"
    BY <2>1 DEF Inv, AgentInv, HoldsLock
  <2>3. journal' = journal /\ lock' = lock
    BY <2>1, <2>2 DEF Apart
  <2> QED BY <2>3 DEF Apart, Inv, AgentInv, HoldsLock, KnowsCommit, KnowsId, CanDraw,
                      KnowsPrevious, PlanFits, PendingIsOpen, DeploysPending, FreshIds
<1> QED BY <1>1, <1>2

\* The Result is returned: the agent is idle.
LEMMA ReturnFacts ==
  ASSUME TypeOK, NEW a \in Agents, NEW r \in Result, Return(a, r)
  PROVE  /\ result' \in [Agents -> Result] /\ cyc' \in [Agents -> Cycle]
         /\ lock' \in Agents \cup {None} /\ pc' \in [Agents -> Labels]
         /\ pc'[a] = "idle"
         /\ \A b \in Agents \ {a} : pc'[b] = pc[b] /\ cyc'[b] = cyc[b]
BY DEF TypeOK, Return, Goto, Labels, Cycle, NoCycle

LEMMA FailFacts ==
  ASSUME TypeOK, NEW a \in Agents, Fail(a)
  PROVE  /\ result' \in [Agents -> Result] /\ cyc' \in [Agents -> Cycle]
         /\ lock' \in Agents \cup {None} /\ pc' \in [Agents -> Labels]
         /\ pc'[a] = "idle"
         /\ \A b \in Agents \ {a} : pc'[b] = pc[b] /\ cyc'[b] = cyc[b]
<1>1. Report("failed", cyc[a].commit, None) \in Result
  BY DEF TypeOK, Report, Result, Cycle
<1> QED BY <1>1, ReturnFacts DEF Fail

LEMMA FaultType ==
  ASSUME TypeOK, NEW kind, Fault(kind)
  PROVE  faults' \in 0..MaxFaults
BY ReconcilerAssumption DEF Fault, TypeOK

\* A docker compose command, and one that fails, leave a runtime.
LEMMA CommandType ==
  ASSUME TypeOK, NEW m \in Manifest, NEW todo \in SUBSET Action, Fits(todo, m),
         NEW command \in Due(todo), Command(command, m) \/ CommandFails(command, m)
  PROVE  runtime' \in Runtime /\ faults' \in 0..MaxFaults
<1>1. runtime \in Runtime
  BY DEF TypeOK
<1>2. Outcomes(command, m, runtime) \subseteq Runtime
  BY <1>1, OutcomesType
<1>3. CASE Command(command, m)
  BY <1>2, <1>3, FaultType DEF Command, TypeOK
<1>4. CASE CommandFails(command, m)
  BY <1>1, <1>2, <1>4, FaultType DEF CommandFails
<1> QED BY <1>3, <1>4

\* A receipt handed to the store is appended or not.
LEMMA StoreType ==
  ASSUME TypeOK, NEW r \in Receipt, BestEffort(r) \/ AppendFails(r)
  PROVE  /\ journal' \in {journal, Append(journal, r)}
         /\ journal' \in Seq(Receipt) /\ faults' \in 0..MaxFaults
<1>1. journal \in Seq(Receipt) /\ Append(journal, r) \in Seq(Receipt)
  BY DEF TypeOK
<1>2. CASE BestEffort(r)
  BY <1>1, <1>2, FaultType DEF BestEffort, TypeOK
<1>3. CASE AppendFails(r)
  BY <1>1, <1>3, FaultType DEF AppendFails
<1> QED BY <1>2, <1>3

LEMMA ReceiptType ==
  ASSUME NEW id \in DeploymentIDs, NEW c \in Commits,
         NEW verdict \in Terminal \cup {"in_progress"}
  PROVE  /\ NewReceipt(id, c, verdict) \in Receipt
         /\ NewReceipt(id, c, verdict).id = id
         /\ NewReceipt(id, c, verdict).commit = c
         /\ NewReceipt(id, c, verdict).result = verdict
BY DEF NewReceipt, Receipt

\* The receipt that closes a superseded checkpoint.
LEMMA InterruptedType ==
  ASSUME NEW r \in Receipt
  PROVE  /\ [r EXCEPT !.result = "interrupted"] \in Receipt
         /\ [r EXCEPT !.result = "interrupted"].id = r.id
         /\ [r EXCEPT !.result = "interrupted"].result = "interrupted"
BY DEF Receipt, Terminal

LEMMA BeginGood ==
  ASSUME Inv, NEW a \in Agents, Begin(a)
  PROVE  Good(a)
<1>1. PICK r \in OrNone(Unfinished(journal)) : pending' = [pending EXCEPT ![a] = r]
  BY DEF Begin
<1>2. PICK c \in Baseline(journal, IF a \in OneShot THEN None ELSE previous[a]) :
          previous' = [previous EXCEPT ![a] = c]
  BY DEF Begin
<1>3. journal \in Seq(Receipt)
  BY DEF Inv, TypeOK
<1>4. r # None => \E i \in OpenAt(journal) : journal[i] = r
  BY <1>3, UnfinishedIsOpen DEF OrNone
<1>5. r \in Receipt \cup {None}
  BY <1>3, <1>4 DEF OpenAt
<1>6. c \in Commits \cup {None}
  BY <1>3, BaselineType DEF Inv, TypeOK
<1>7. TypeOK'
  BY <1>1, <1>2, <1>5, <1>6 DEF Inv, TypeOK, Begin, Goto, Labels, Result, NoResult, Report
<1>8. AgentInv(a)'
  BY <1>1, <1>4 DEF Inv, TypeOK, Begin, Goto, Labels, AgentInv, HoldsLock, KnowsCommit, KnowsId,
         CanDraw, FreshIds, KnowsPrevious, PlanFits, PendingIsOpen, DeploysPending, Deployment,
         OnCourse
<1>9. Apart(a)
  BY <1>1, <1>2 DEF Apart, Begin, Goto, Inv, TypeOK
<1> QED BY <1>7, <1>8, <1>9 DEF Good

LEMMA BeginFailsGood ==
  ASSUME Inv, NEW a \in Agents, BeginFails(a)
  PROVE  Good(a)
<1>1. TypeOK'
  BY FaultType DEF Inv, TypeOK, BeginFails, Result, Report, memory
<1>2. AgentInv(a)'
  BY IdleInvNext DEF BeginFails
<1>3. Apart(a)
  BY DEF Apart, BeginFails, memory
<1> QED BY <1>1, <1>2, <1>3 DEF Good

LEMMA FetchGood ==
  ASSUME Inv, NEW a \in Agents, Fetch(a)
  PROVE  Good(a)
<1>1. TypeOK'
  BY ReconcilerAssumption DEF Inv, TypeOK, Fetch, Goto, Labels, Cycle, NoCycle, memory
<1>2. AgentInv(a)'
  BY DEF Inv, TypeOK, Fetch, Goto, Labels, memory, AgentInv, HoldsLock, KnowsCommit, KnowsId,
         CanDraw, FreshIds, KnowsPrevious, PlanFits, PendingIsOpen, DeploysPending, Deployment,
         OnCourse, NoCycle, Cycle
<1>3. Apart(a)
  BY DEF Apart, Fetch, Goto, Inv, TypeOK, memory
<1> QED BY <1>1, <1>2, <1>3 DEF Good

LEMMA ValidateGood ==
  ASSUME Inv, NEW a \in Agents, Validate(a)
  PROVE  Good(a)
<1> DEFINE closed == [pending[a] EXCEPT !.result = "interrupted"]
<1>1. pc[a] = "validating" /\ lock = a /\ cyc[a].commit \in Commits /\ TypeOK
  BY DEF Inv, Validate, AgentInv, HoldsLock, KnowsCommit
<1>2. CASE UNCHANGED <<journal, pending>>
  <2>1. TypeOK'
    BY <1>1, <1>2 DEF TypeOK, Validate, Goto, Labels
  <2>2. AgentInv(a)'
    BY <1>2 DEF Inv, TypeOK, Validate, Goto, Labels, AgentInv, HoldsLock, KnowsCommit, KnowsId,
         CanDraw, FreshIds, KnowsPrevious, PlanFits, PendingIsOpen, DeploysPending, Deployment,
         OnCourse
  <2>3. Apart(a)
    BY <1>2 DEF Apart, Validate, Goto, Inv, TypeOK
  <2> QED BY <2>1, <2>2, <2>3 DEF Good
<1>3. CASE /\ pending[a] # None
           /\ journal' = Append(journal, closed)
           /\ pending' = [pending EXCEPT ![a] = None]
  <2>1. pending[a] \in Receipt
    BY <1>1, <1>3 DEF TypeOK
  <2>2. closed \in Receipt /\ closed.id = pending[a].id
    BY <2>1, InterruptedType
  <2>3. TypeOK'
    BY <1>1, <1>3, <2>2 DEF TypeOK, Validate, Goto, Labels
  <2>4. PICK i \in OpenAt(journal) : journal[i] = pending[a]
    BY <1>1, <1>3 DEF Inv, AgentInv, PendingIsOpen, OnCourse
  <2>5. UsedIds(journal') = UsedIds(journal)
    <3>1. UsedIds(journal') = UsedIds(journal) \cup {closed.id}
      BY <1>1, <1>3, <2>2, AppendUses DEF TypeOK
    <3>2. pending[a].id \in UsedIds(journal)
      BY <2>4 DEF UsedIds, OpenAt
    <3> QED BY <2>2, <3>1, <3>2
  <2>6. AgentInv(a)'
    BY <1>3, <2>5 DEF Inv, TypeOK, Validate, Goto, Labels, AgentInv, HoldsLock, KnowsCommit, KnowsId,
         CanDraw, FreshIds, KnowsPrevious, PlanFits, PendingIsOpen, DeploysPending, Deployment,
         OnCourse
  <2>7. Apart(a)
    BY <1>3 DEF Apart, Validate, Goto, Inv, TypeOK
  <2> QED BY <2>3, <2>6, <2>7 DEF Good
<1> QED BY <1>2, <1>3 DEF Validate

LEMMA InterruptFailsGood ==
  ASSUME Inv, NEW a \in Agents, InterruptFails(a)
  PROVE  Good(a)
<1>1. TypeOK /\ pc[a] # "idle"
  BY DEF Inv, InterruptFails
<1>2. [pending[a] EXCEPT !.result = "interrupted"] \in Receipt
  BY <1>1, InterruptedType DEF TypeOK, InterruptFails
<1>3. TypeOK'
  BY <1>1, <1>2, StoreType, FailFacts DEF TypeOK, InterruptFails, memory
<1>4. AgentInv(a)'
  BY <1>1, FailFacts, IdleInvNext DEF InterruptFails
<1>5. Apart(a)
  BY <1>1, FailFacts DEF Apart, InterruptFails, memory
<1> QED BY <1>3, <1>4, <1>5 DEF Good

LEMMA ReadFailsGood ==
  ASSUME Inv, NEW a \in Agents, ReadFails(a)
  PROVE  Good(a)
<1>1. TypeOK /\ pc[a] # "idle"
  BY DEF Inv, ReadFails
<1>2. TypeOK'
  BY <1>1, FaultType, FailFacts DEF TypeOK, ReadFails, memory
<1>3. AgentInv(a)'
  BY <1>1, FailFacts, IdleInvNext DEF ReadFails
<1>4. Apart(a)
  BY <1>1, FailFacts DEF Apart, ReadFails, memory
<1> QED BY <1>2, <1>3, <1>4 DEF Good

LEMMA ManifestType ==
  /\ NoServices \in Manifest
  /\ \A c \in Commits : Tree[c] \in Manifest
BY ReconcilerAssumption DEF NoServices, Manifest

\* What the plan adds to the cycle's locals.
Planned(k, id, recovering, changed, todo) ==
  [k EXCEPT !.id = id, !.recovering = recovering, !.changed = changed, !.todo = todo]

LEMMA PlannedType ==
  ASSUME NEW k \in Cycle, NEW id \in DeploymentIDs, NEW recovering \in BOOLEAN,
         NEW changed \in BOOLEAN, NEW todo \in SUBSET Action
  PROVE  /\ Planned(k, id, recovering, changed, todo) \in Cycle
         /\ Planned(k, id, recovering, changed, todo).id = id
         /\ Planned(k, id, recovering, changed, todo).commit = k.commit
         /\ Planned(k, id, recovering, changed, todo).todo = todo
BY DEF Cycle, Planned

LEMMA PlanGood ==
  ASSUME Inv, NEW a \in Agents, Plan(a)
  PROVE  Good(a)
<1> DEFINE c == cyc[a].commit
           recovering == pending[a] # None /\ pending[a].commit = c
           base == IF previous[a] = None THEN NoServices ELSE Tree[previous[a]]
           id == IF recovering THEN pending[a].id ELSE NewId
<1>1. pc[a] = "planning" /\ lock = a /\ c \in Commits /\ TypeOK
  BY DEF Inv, Plan, AgentInv, HoldsLock, KnowsCommit
<1> DEFINE planned(plan) == Planned(cyc[a], id, recovering, Changed(plan), plan)
<1>2. PICK plan \in Plans(Tree[c], base, runtime) :
         /\ cyc' = [cyc EXCEPT ![a] = planned(plan)]
         /\ Goto(a, IF ~Changed(plan) THEN "verifying"
                    ELSE IF recovering THEN "deploying" ELSE "checkpoint")
  BY DEF Plan, Planned
<1>3. Tree[c] \in Manifest /\ base \in Manifest /\ runtime \in Runtime
  BY <1>1, ManifestType DEF TypeOK
<1>4. plan \in SUBSET Action /\ Fits(plan, Tree[c])
  BY <1>3, PlansType
<1>5. NewId \in DeploymentIDs
  BY <1>1 DEF Inv, AgentInv, CanDraw, NewId, FreshIds
<1>6. id \in DeploymentIDs
  BY <1>1, <1>5 DEF TypeOK, Receipt
<1>7. recovering \in BOOLEAN /\ Changed(plan) \in BOOLEAN
  BY DEF Changed
<1> HIDE DEF base, id, recovering
<1>8. /\ planned(plan) \in Cycle
      /\ planned(plan).id = id /\ planned(plan).commit = c /\ planned(plan).todo = plan
  <2>1. cyc[a] \in Cycle
    BY <1>1 DEF TypeOK
  <2>2. ASSUME NEW rec \in BOOLEAN, NEW ch \in BOOLEAN
        PROVE  /\ Planned(cyc[a], id, rec, ch, plan) \in Cycle
               /\ Planned(cyc[a], id, rec, ch, plan).id = id
               /\ Planned(cyc[a], id, rec, ch, plan).commit = c
               /\ Planned(cyc[a], id, rec, ch, plan).todo = plan
    BY <1>4, <1>6, <2>1, PlannedType
  <2> QED BY <1>7, <2>2, Zenon
<1> HIDE DEF planned
<1>9. /\ cyc'[a].id = id /\ cyc'[a].commit = c /\ cyc'[a].todo = plan
      /\ pc'[a] = IF ~Changed(plan) THEN "verifying"
                  ELSE IF recovering THEN "deploying" ELSE "checkpoint"
  BY <1>1, <1>2, <1>8 DEF TypeOK, Goto
<1>10. TypeOK'
  BY <1>1, <1>2, <1>8 DEF TypeOK, Plan, Goto, Labels, memory
<1>11. AgentInv(a)'
  BY <1>1, <1>4, <1>6, <1>9 DEF id, recovering, Inv, Plan, memory, AgentInv, HoldsLock, KnowsCommit, KnowsId,
         CanDraw, FreshIds, KnowsPrevious, PlanFits, PendingIsOpen, DeploysPending, Deployment,
         OnCourse
<1>12. Apart(a)
  BY <1>1, <1>2 DEF Apart, Plan, Goto, TypeOK, memory
<1> QED BY <1>10, <1>11, <1>12 DEF Good

LEMMA CheckpointGood ==
  ASSUME Inv, NEW a \in Agents, Checkpoint(a)
  PROVE  Good(a)
<1> DEFINE r == NewReceipt(cyc[a].id, cyc[a].commit, "in_progress")
<1>1. pc[a] = "checkpoint" /\ lock = a /\ TypeOK
  BY DEF Inv, Checkpoint, AgentInv, HoldsLock
<1>2. cyc[a].id \in DeploymentIDs /\ cyc[a].commit \in Commits
  BY <1>1 DEF Inv, AgentInv, KnowsCommit, KnowsId, Deployment
<1>3. /\ r \in Receipt /\ r.result = "in_progress"
      /\ r.id = cyc[a].id /\ r.commit = cyc[a].commit
  BY <1>2, ReceiptType
<1>4. /\ journal' = Append(journal, r) /\ pending' = [pending EXCEPT ![a] = r]
      /\ pc' = [pc EXCEPT ![a] = "deploying"]
  BY DEF Checkpoint, Goto
<1> HIDE DEF r
<1>5. TypeOK'
  BY <1>1, <1>3, <1>4 DEF TypeOK, Checkpoint, Labels
<1>6. journal'[Len(journal) + 1] = r /\ Len(journal) + 1 \in OpenAt(journal')
  BY <1>1, <1>3, <1>4, AppendFacts, AppendCheckpoint DEF TypeOK
<1>7. pending'[a] = r /\ r # None /\ pc'[a] = "deploying" /\ cyc' = cyc /\ lock' = lock
  BY <1>1, <1>3, <1>4, ReconcilerAssumption DEF TypeOK, Checkpoint
<1>8. AgentInv(a)'
  BY <1>1, <1>2, <1>3, <1>6, <1>7 DEF Inv, AgentInv, HoldsLock, KnowsCommit, KnowsId,
         CanDraw, FreshIds, KnowsPrevious, PlanFits, PendingIsOpen, DeploysPending, Deployment,
         OnCourse
<1>9. Apart(a)
  BY <1>1, <1>4 DEF Apart, Checkpoint, TypeOK
<1> QED BY <1>5, <1>8, <1>9 DEF Good

LEMMA CheckpointFailsGood ==
  ASSUME Inv, NEW a \in Agents, CheckpointFails(a)
  PROVE  Good(a)
<1>1. TypeOK /\ pc[a] = "checkpoint"
  BY DEF Inv, CheckpointFails
<1>2. NewReceipt(cyc[a].id, cyc[a].commit, "in_progress") \in Receipt
  BY <1>1, ReceiptType DEF Inv, AgentInv, KnowsCommit, KnowsId, Deployment
<1>3. TypeOK'
  BY <1>1, <1>2, StoreType, FailFacts DEF TypeOK, CheckpointFails, memory
<1>4. AgentInv(a)'
  BY <1>1, FailFacts, IdleInvNext DEF CheckpointFails
<1>5. Apart(a)
  BY <1>1, FailFacts DEF Apart, CheckpointFails, memory
<1> QED BY <1>3, <1>4, <1>5 DEF Good

\* One command less to run.
LEMMA CommandDone ==
  ASSUME TypeOK, NEW a \in Agents, NEW command, NEW m, Fits(cyc[a].todo, m),
         cyc' = [cyc EXCEPT ![a].todo = @ \ command]
  PROVE  /\ cyc' \in [Agents -> Cycle]
         /\ cyc'[a].commit = cyc[a].commit /\ cyc'[a].id = cyc[a].id
         /\ Fits(cyc'[a].todo, m)
         /\ \A b \in Agents \ {a} : cyc'[b] = cyc[b]
BY DEF TypeOK, Cycle, Fits, OfKind

LEMMA DeployGood ==
  ASSUME Inv, NEW a \in Agents, Deploy(a)
  PROVE  Good(a)
<1> DEFINE m == Tree[cyc[a].commit]
<1>1. pc[a] = "deploying" /\ lock = a /\ TypeOK
  BY DEF Inv, Deploy, AgentInv, HoldsLock
<1>2. m \in Manifest /\ Fits(cyc[a].todo, m) /\ cyc[a].todo \in SUBSET Action
  BY <1>1, ManifestType DEF Inv, AgentInv, KnowsCommit, PlanFits, TypeOK, Cycle
<1>3. PICK command \in Due(cyc[a].todo) :
         /\ Command(command, m)
         /\ cyc' = [cyc EXCEPT ![a].todo = @ \ command]
         /\ Goto(a, IF cyc[a].todo = command THEN "verifying" ELSE "deploying")
  BY DEF Deploy
<1> HIDE DEF m
<1>4. runtime' \in Runtime /\ faults' \in 0..MaxFaults
  BY <1>1, <1>2, <1>3, CommandType
<1>5. TypeOK'
  BY <1>1, <1>2, <1>3, <1>4, CommandDone DEF TypeOK, Deploy, Goto, Labels, memory
<1>6. /\ pc'[a] \in {"deploying", "verifying"} /\ UNCHANGED <<journal, lock, previous, pending>>
      /\ cyc'[a].commit = cyc[a].commit /\ cyc'[a].id = cyc[a].id /\ Fits(cyc'[a].todo, m)
  BY <1>1, <1>2, <1>3, CommandDone DEF TypeOK, Deploy, Goto, memory
<1>7. AgentInv(a)'
  BY <1>1, <1>6 DEF m, Inv, AgentInv, HoldsLock, KnowsCommit, KnowsId, CanDraw, KnowsPrevious,
         PlanFits, PendingIsOpen, DeploysPending, Deployment, OnCourse
<1>8. Apart(a)
  BY <1>1, <1>2, <1>3, CommandDone DEF Apart, TypeOK, Deploy, Goto, memory
<1> QED BY <1>5, <1>7, <1>8 DEF Good

LEMMA DeployFailsGood ==
  ASSUME Inv, NEW a \in Agents, DeployFails(a)
  PROVE  Good(a)
<1> DEFINE m == Tree[cyc[a].commit]
<1>1. pc[a] = "deploying" /\ lock = a /\ TypeOK
  BY DEF Inv, DeployFails, AgentInv, HoldsLock
<1>2. m \in Manifest /\ Fits(cyc[a].todo, m) /\ cyc[a].todo \in SUBSET Action
  BY <1>1, ManifestType DEF Inv, AgentInv, KnowsCommit, PlanFits, TypeOK, Cycle
<1>3. runtime' \in Runtime /\ faults' \in 0..MaxFaults
  BY <1>1, <1>2, CommandType DEF DeployFails
<1>4. TypeOK'
  BY <1>1, <1>3 DEF TypeOK, DeployFails, Goto, Labels, memory
<1>5. AgentInv(a)'
  BY <1>1 DEF Inv, TypeOK, DeployFails, Goto, memory, AgentInv, HoldsLock, KnowsCommit, KnowsId,
         CanDraw, FreshIds, KnowsPrevious, PlanFits, PendingIsOpen, DeploysPending, Deployment,
         OnCourse
<1>6. Apart(a)
  BY <1>1 DEF Apart, TypeOK, DeployFails, Goto, memory
<1> QED BY <1>4, <1>5, <1>6 DEF Good

LEMMA VerifyGood ==
  ASSUME Inv, NEW a \in Agents, Verify(a)
  PROVE  Good(a)
<1>1. pc[a] = "verifying" /\ lock = a /\ TypeOK /\ faults' \in 0..MaxFaults
  BY FaultType DEF Inv, Verify, AgentInv, HoldsLock, TypeOK
<1>2. pc' \in {[pc EXCEPT ![a] = "comparing"], [pc EXCEPT ![a] = "failing"]}
  BY DEF Verify, Goto
<1>3. TypeOK'
  BY <1>1, <1>2 DEF TypeOK, Verify, Labels, memory
<1>4. AgentInv(a)'
  BY <1>1, <1>2 DEF Inv, TypeOK, Verify, memory, AgentInv, HoldsLock, KnowsCommit, KnowsId,
         CanDraw, FreshIds, KnowsPrevious, PlanFits, PendingIsOpen, DeploysPending, Deployment,
         OnCourse
<1>5. Apart(a)
  BY <1>1, <1>2 DEF Apart, TypeOK, Verify, memory
<1> QED BY <1>3, <1>4, <1>5 DEF Good

LEMMA CompareDeployedGood ==
  ASSUME Inv, NEW a \in Agents, CompareDeployed(a)
  PROVE  Good(a)
<1> DEFINE c == cyc[a].commit
<1>1. pc[a] = "comparing" /\ lock = a /\ c \in Commits /\ TypeOK
  BY DEF Inv, CompareDeployed, AgentInv, HoldsLock, KnowsCommit
<1>2. /\ UNCHANGED <<head, runtime, journal, pending, moves, faults>>
      /\ lastDesired' = [lastDesired EXCEPT ![a] = c]
      /\ previous' \in {previous, [previous EXCEPT ![a] = c]}
  BY Zenon DEF CompareDeployed
<1>3. CASE Return(a, Report("healthy", c, None))
  <2>1. Report("healthy", c, None) \in Result
    BY <1>1 DEF Report, Result
  <2>2. TypeOK'
    BY <1>1, <1>2, <1>3, <2>1, ReturnFacts DEF TypeOK
  <2>3. AgentInv(a)'
    BY <1>1, <1>3, <2>1, ReturnFacts, IdleInvNext
  <2>4. Apart(a)
    BY <1>1, <1>2, <1>3, <2>1, ReturnFacts DEF Apart, TypeOK
  <2> QED BY <2>2, <2>3, <2>4 DEF Good
<1>4. CASE /\ UNCHANGED <<lock, cyc, result>>
           /\ \E label \in {"repairPlan", "closing", "inflight"} : Goto(a, label)
  <2>1. TypeOK'
    BY <1>1, <1>2, <1>4 DEF TypeOK, Goto, Labels
  <2>2. AgentInv(a)'
    BY <1>1, <1>2, <1>4 DEF Inv, TypeOK, Goto, AgentInv, HoldsLock, KnowsCommit, KnowsId,
         CanDraw, FreshIds, KnowsPrevious, PlanFits, PendingIsOpen, DeploysPending, Deployment,
         OnCourse
  <2>3. Apart(a)
    BY <1>1, <1>2, <1>4 DEF Apart, TypeOK, Goto
  <2> QED BY <2>1, <2>2, <2>3 DEF Good
<1> QED BY <1>3, <1>4 DEF CompareDeployed

LEMMA CloseGood ==
  ASSUME Inv, NEW a \in Agents, Close(a)
  PROVE  Good(a)
<1> DEFINE r == NewReceipt(cyc[a].id, cyc[a].commit, "healthy")
<1>1. pc[a] = "closing" /\ lock = a /\ TypeOK
  BY DEF Inv, Close, AgentInv, HoldsLock
<1>2. r \in Receipt
  BY <1>1, ReceiptType DEF Inv, AgentInv, KnowsCommit, KnowsId, Deployment, Terminal
<1>3. journal' \in Seq(Receipt) /\ faults' \in 0..MaxFaults
  BY <1>1, <1>2, StoreType DEF Close
<1>4. TypeOK'
  BY <1>1, <1>3 DEF TypeOK, Close, Goto, Labels
<1>5. AgentInv(a)'
  BY <1>1 DEF Inv, TypeOK, Close, Goto, AgentInv, HoldsLock, KnowsCommit, KnowsId,
         CanDraw, FreshIds, KnowsPrevious, PlanFits, PendingIsOpen, DeploysPending, Deployment,
         OnCourse
<1>6. Apart(a)
  BY <1>1 DEF Apart, TypeOK, Close, Goto
<1> QED BY <1>4, <1>5, <1>6 DEF Good

LEMMA InFlightGood ==
  ASSUME Inv, NEW a \in Agents, InFlight(a)
  PROVE  Good(a)
<1>1. pc[a] = "inflight" /\ lock = a /\ cyc[a].commit \in Commits /\ TypeOK
  BY DEF Inv, InFlight, AgentInv, HoldsLock, KnowsCommit
<1>2. UNCHANGED <<head, runtime, journal, memory, moves>> /\ faults' \in 0..MaxFaults
  BY <1>1, FaultType DEF InFlight, TypeOK
<1>3. CASE Return(a, Report("synced", cyc[a].commit, None))
  <2>1. Report("synced", cyc[a].commit, None) \in Result
    BY <1>1 DEF Report, Result
  <2>2. TypeOK'
    BY <1>1, <1>2, <1>3, <2>1, ReturnFacts DEF TypeOK, memory
  <2>3. AgentInv(a)'
    BY <1>1, <1>3, <2>1, ReturnFacts, IdleInvNext
  <2>4. Apart(a)
    BY <1>1, <1>2, <1>3, <2>1, ReturnFacts DEF Apart, memory
  <2> QED BY <2>2, <2>3, <2>4 DEF Good
<1>4. CASE FreshIds # {} /\ Goto(a, "fetching") /\ UNCHANGED <<lock, cyc, result, faults>>
  <2>1. TypeOK'
    BY <1>1, <1>2, <1>4 DEF TypeOK, Goto, Labels, memory
  <2>2. AgentInv(a)'
    BY <1>1, <1>2, <1>4 DEF Inv, TypeOK, Goto, memory, AgentInv, HoldsLock, KnowsCommit, KnowsId,
         CanDraw, FreshIds, KnowsPrevious, PlanFits, PendingIsOpen, DeploysPending, Deployment,
         OnCourse
  <2>3. Apart(a)
    BY <1>1, <1>2, <1>4 DEF Apart, TypeOK, Goto, memory
  <2> QED BY <2>1, <2>2, <2>3 DEF Good
<1> QED BY <1>3, <1>4 DEF InFlight

LEMMA RecordFailedGood ==
  ASSUME Inv, NEW a \in Agents, RecordFailed(a)
  PROVE  Good(a)
<1>1. pc[a] = "failing" /\ lock = a /\ TypeOK
  BY DEF Inv, RecordFailed, AgentInv, HoldsLock
<1>2. NewReceipt(cyc[a].id, cyc[a].commit, "failed") \in Receipt
  BY <1>1, ReceiptType DEF Inv, AgentInv, KnowsCommit, KnowsId, Deployment, Terminal
<1>3. journal' \in Seq(Receipt) /\ faults' \in 0..MaxFaults
  BY <1>1, <1>2, StoreType DEF RecordFailed
<1>4. UNCHANGED <<head, runtime, memory, moves>>
  BY DEF RecordFailed
<1>5. CASE Fail(a)
  <2>1. TypeOK'
    BY <1>1, <1>3, <1>4, <1>5, FailFacts DEF TypeOK, memory
  <2>2. AgentInv(a)'
    BY <1>1, <1>5, FailFacts, IdleInvNext
  <2>3. Apart(a)
    BY <1>1, <1>4, <1>5, FailFacts DEF Apart, memory
  <2> QED BY <2>1, <2>2, <2>3 DEF Good
<1>6. CASE previous[a] # None /\ Goto(a, "restoring") /\ UNCHANGED <<lock, cyc, result>>
  <2>1. TypeOK'
    BY <1>1, <1>3, <1>4, <1>6 DEF TypeOK, Goto, Labels, memory
  <2>2. AgentInv(a)'
    BY <1>1, <1>4, <1>6 DEF Inv, TypeOK, Goto, memory, AgentInv, HoldsLock, KnowsCommit, KnowsId,
         CanDraw, FreshIds, KnowsPrevious, PlanFits, PendingIsOpen, DeploysPending, Deployment,
         OnCourse
  <2>3. Apart(a)
    BY <1>1, <1>4, <1>6 DEF Apart, TypeOK, Goto, memory
  <2> QED BY <2>1, <2>2, <2>3 DEF Good
<1> QED BY <1>5, <1>6 DEF RecordFailed

LEMMA CycleTodo ==
  ASSUME TypeOK, NEW a \in Agents, NEW todo \in SUBSET Action
  PROVE  [cyc EXCEPT ![a].todo = todo] \in [Agents -> Cycle]
BY DEF TypeOK, Cycle

LEMMA CycleSick ==
  ASSUME TypeOK, NEW a \in Agents, NEW sick \in BOOLEAN
  PROVE  [cyc EXCEPT ![a].sick = sick] \in [Agents -> Cycle]
BY DEF TypeOK, Cycle

LEMMA RestoreGood ==
  ASSUME Inv, NEW a \in Agents, Restore(a)
  PROVE  Good(a)
<1> DEFINE m == Tree[previous[a]]
<1>1. pc[a] = "restoring" /\ lock = a /\ TypeOK /\ previous[a] \in Commits
  BY DEF Inv, Restore, AgentInv, HoldsLock, KnowsPrevious
<1>2. PICK plan \in Plans(m, NoServices, runtime) :
         /\ cyc' = [cyc EXCEPT ![a].todo = plan]
         /\ Goto(a, IF Changed(plan) THEN "rolling" ELSE "rolledback")
  BY DEF Restore
<1>3. plan \in SUBSET Action /\ Fits(plan, m)
  BY <1>1, ManifestType, PlansType DEF TypeOK
<1> HIDE DEF m
<1>4. TypeOK'
  <2>1. cyc' \in [Agents -> Cycle]
    BY <1>1, <1>2, <1>3, CycleTodo
  <2> QED BY <1>1, <1>2, <2>1 DEF TypeOK, Restore, Goto, Labels, memory
<1>5. AgentInv(a)'
  BY <1>1, <1>2, <1>3 DEF m, Cycle, Inv, TypeOK, Restore, Goto, memory, AgentInv, HoldsLock, KnowsCommit, KnowsId,
         CanDraw, FreshIds, KnowsPrevious, PlanFits, PendingIsOpen, DeploysPending, Deployment,
         OnCourse
<1>6. Apart(a)
  BY <1>1, <1>2 DEF Apart, TypeOK, Restore, Goto, memory
<1> QED BY <1>4, <1>5, <1>6 DEF Good

LEMMA RollBackGood ==
  ASSUME Inv, NEW a \in Agents, RollBack(a)
  PROVE  Good(a)
<1> DEFINE m == Tree[previous[a]]
<1>1. pc[a] = "rolling" /\ lock = a /\ TypeOK
  BY DEF Inv, RollBack, AgentInv, HoldsLock
<1>2. m \in Manifest /\ Fits(cyc[a].todo, m) /\ cyc[a].todo \in SUBSET Action
  BY <1>1, ManifestType DEF Inv, AgentInv, KnowsPrevious, PlanFits, TypeOK, Cycle
<1>3. PICK command \in Due(cyc[a].todo) :
         /\ Command(command, m)
         /\ cyc' = [cyc EXCEPT ![a].todo = @ \ command]
         /\ Goto(a, IF cyc[a].todo = command THEN "rolledback" ELSE "rolling")
  BY DEF RollBack
<1> HIDE DEF m
<1>4. runtime' \in Runtime /\ faults' \in 0..MaxFaults
  BY <1>1, <1>2, <1>3, CommandType
<1>5. TypeOK'
  BY <1>1, <1>2, <1>3, <1>4, CommandDone DEF TypeOK, RollBack, Goto, Labels, memory
<1>6. /\ pc'[a] \in {"rolling", "rolledback"} /\ UNCHANGED <<journal, lock, previous, pending>>
      /\ cyc'[a].commit = cyc[a].commit /\ cyc'[a].id = cyc[a].id /\ Fits(cyc'[a].todo, m)
  BY <1>1, <1>2, <1>3, CommandDone DEF TypeOK, RollBack, Goto, memory
<1>7. AgentInv(a)'
  BY <1>1, <1>6 DEF m, Inv, AgentInv, HoldsLock, KnowsCommit, KnowsId, CanDraw, KnowsPrevious,
         PlanFits, PendingIsOpen, DeploysPending, Deployment, OnCourse
<1>8. Apart(a)
  BY <1>1, <1>2, <1>3, CommandDone DEF Apart, TypeOK, RollBack, Goto, memory
<1> QED BY <1>5, <1>7, <1>8 DEF Good

LEMMA RollBackFailsGood ==
  ASSUME Inv, NEW a \in Agents, RollBackFails(a)
  PROVE  Good(a)
<1> DEFINE m == Tree[previous[a]]
<1>1. pc[a] = "rolling" /\ lock = a /\ TypeOK
  BY DEF Inv, RollBackFails, AgentInv, HoldsLock
<1>2. m \in Manifest /\ Fits(cyc[a].todo, m) /\ cyc[a].todo \in SUBSET Action
  BY <1>1, ManifestType DEF Inv, AgentInv, KnowsPrevious, PlanFits, TypeOK, Cycle
<1>3. runtime' \in Runtime /\ faults' \in 0..MaxFaults
  BY <1>1, <1>2, CommandType DEF RollBackFails
<1>4. TypeOK'
  BY <1>1, <1>3, FailFacts DEF TypeOK, RollBackFails, memory
<1>5. AgentInv(a)'
  BY <1>1, FailFacts, IdleInvNext DEF RollBackFails
<1>6. Apart(a)
  BY <1>1, FailFacts DEF Apart, RollBackFails, memory
<1> QED BY <1>4, <1>5, <1>6 DEF Good

LEMMA RecordRollBackGood ==
  ASSUME Inv, NEW a \in Agents, RecordRollBack(a)
  PROVE  Good(a)
<1>1. pc[a] = "rolledback" /\ lock = a /\ TypeOK
  BY DEF Inv, RecordRollBack, AgentInv, HoldsLock
<1>2. cyc[a].id \in DeploymentIDs /\ cyc[a].commit \in Commits /\ previous[a] \in Commits
  BY <1>1 DEF Inv, AgentInv, KnowsCommit, KnowsId, KnowsPrevious, Deployment
<1>3. NewReceipt(cyc[a].id, previous[a], "rolled_back") \in Receipt
  BY <1>2, ReceiptType DEF Terminal
<1>4. Report("failed", cyc[a].commit, previous[a]) \in Result
  BY <1>2 DEF Report, Result
<1>5. TypeOK'
  <2>1. journal' \in Seq(Receipt) /\ faults' \in 0..MaxFaults
    BY <1>1, <1>3, StoreType DEF RecordRollBack
  <2>2. Return(a, Report("failed", cyc[a].commit, previous[a]))
    BY DEF RecordRollBack
  <2> QED BY <1>1, <1>4, <2>1, <2>2, ReturnFacts DEF TypeOK, RecordRollBack, memory
<1>6. AgentInv(a)'
  BY <1>1, <1>4, ReturnFacts, IdleInvNext DEF RecordRollBack
<1>7. Apart(a)
  BY <1>1, <1>4, ReturnFacts DEF Apart, RecordRollBack, memory
<1> QED BY <1>5, <1>6, <1>7 DEF Good

LEMMA DriftHealthGood ==
  ASSUME Inv, NEW a \in Agents, DriftHealth(a)
  PROVE  Good(a)
<1>1. pc[a] = "driftHealth" /\ lock = a /\ TypeOK
  BY DEF Inv, DriftHealth, AgentInv, HoldsLock
<1>2. TypeOK'
  <2>1. (Sick(runtime) # {}) \in BOOLEAN
    OBVIOUS
  <2>2. cyc' \in [Agents -> Cycle]
    BY <1>1, <2>1, CycleSick, Zenon DEF DriftHealth
  <2> QED BY <1>1, <2>2 DEF TypeOK, DriftHealth, Goto, Labels, memory
<1>3. AgentInv(a)'
  BY <1>1 DEF Cycle, Inv, TypeOK, DriftHealth, Goto, memory, AgentInv, HoldsLock, KnowsCommit, KnowsId,
         CanDraw, FreshIds, KnowsPrevious, PlanFits, PendingIsOpen, DeploysPending, Deployment,
         OnCourse
<1>4. Apart(a)
  BY <1>1 DEF Apart, TypeOK, DriftHealth, Goto, memory
<1> QED BY <1>2, <1>3, <1>4 DEF Good

\* A cycle that only reports.
LEMMA ReportGood ==
  ASSUME Inv, NEW a \in Agents, pc[a] # "idle", NEW r \in Result, Return(a, r),
         UNCHANGED <<head, journal, memory, moves>>,
         runtime' \in Runtime, faults' \in 0..MaxFaults
  PROVE  Good(a)
<1>1. TypeOK
  BY DEF Inv
<1>2. TypeOK'
  BY <1>1, ReturnFacts DEF TypeOK, memory
<1>3. AgentInv(a)'
  BY <1>1, ReturnFacts, IdleInvNext
<1>4. Apart(a)
  BY <1>1, ReturnFacts DEF Apart, memory
<1> QED BY <1>2, <1>3, <1>4 DEF Good

LEMMA ReportType ==
  ASSUME NEW phase \in {"failed", "healthy", "synced"}, NEW c \in Commits
  PROVE  Report(phase, c, None) \in Result
BY DEF Report, Result

LEMMA UnrepairedGood ==
  ASSUME Inv, NEW a \in Agents, pc[a] \notin {"idle", "fetching"}, Unrepaired(a),
         UNCHANGED <<head, journal, memory, moves>>,
         runtime' \in Runtime, faults' \in 0..MaxFaults
  PROVE  Good(a)
<1> DEFINE phase == IF cyc[a].unchanged /\ cyc[a].sick THEN "failed" ELSE "healthy"
<1>1. Report(phase, cyc[a].commit, None) \in Result
  BY ReportType DEF Inv, AgentInv, KnowsCommit
<1> QED BY <1>1, ReportGood DEF Unrepaired

LEMMA DriftCompareGood ==
  ASSUME Inv, NEW a \in Agents, DriftCompare(a)
  PROVE  Good(a)
<1> DEFINE c == cyc[a].commit
<1>1. pc[a] = "driftCompare" /\ lock = a /\ c \in Commits /\ TypeOK
  BY DEF Inv, DriftCompare, AgentInv, HoldsLock, KnowsCommit
<1>2. UNCHANGED <<head, runtime, journal, memory, moves, faults>>
  BY DEF DriftCompare
<1>3. runtime' \in Runtime /\ faults' \in 0..MaxFaults
  BY <1>1, <1>2 DEF TypeOK
<1>4. CASE Return(a, Report(IF cyc[a].sick THEN "failed" ELSE "synced", c, None))
  <2>1. Report(IF cyc[a].sick THEN "failed" ELSE "synced", c, None) \in Result
    BY <1>1, ReportType
  <2> QED BY <1>1, <1>2, <1>3, <1>4, <2>1, ReportGood
<1>5. CASE Unrepaired(a)
  BY <1>1, <1>2, <1>3, <1>5, UnrepairedGood
<1>6. CASE Goto(a, "repairPlan") /\ UNCHANGED <<lock, cyc, result>>
  <2>1. TypeOK'
    BY <1>1, <1>2, <1>6 DEF TypeOK, Goto, Labels, memory
  <2>2. AgentInv(a)'
    BY <1>1, <1>2, <1>6 DEF Inv, TypeOK, Goto, memory, AgentInv, HoldsLock, KnowsCommit, KnowsId,
         CanDraw, FreshIds, KnowsPrevious, PlanFits, PendingIsOpen, DeploysPending, Deployment,
         OnCourse
  <2>3. Apart(a)
    BY <1>1, <1>2, <1>6 DEF Apart, TypeOK, Goto, memory
  <2> QED BY <2>1, <2>2, <2>3 DEF Good
<1> QED BY <1>4, <1>5, <1>6 DEF DriftCompare

LEMMA RepairPlanGood ==
  ASSUME Inv, NEW a \in Agents, RepairPlan(a)
  PROVE  Good(a)
<1> DEFINE m == Tree[cyc[a].commit]
<1>1. pc[a] = "repairPlan" /\ lock = a /\ cyc[a].commit \in Commits /\ TypeOK
  BY DEF Inv, RepairPlan, AgentInv, HoldsLock, KnowsCommit
<1>2. UNCHANGED <<head, runtime, journal, memory, moves, faults>>
  BY DEF RepairPlan
<1>3. PICK plan \in Plans(m, m, runtime) :
         \/ /\ cyc' = [cyc EXCEPT ![a].todo = plan]
            /\ Goto(a, "repairing")
            /\ UNCHANGED <<lock, result>>
         \/ Return(a, Report("healthy", cyc[a].commit, None))
  BY DEF RepairPlan
<1>4. plan \in SUBSET Action /\ Fits(plan, m)
  BY <1>1, ManifestType, PlansType DEF TypeOK
<1>5. CASE Return(a, Report("healthy", cyc[a].commit, None))
  <2>1. runtime' \in Runtime /\ faults' \in 0..MaxFaults
    BY <1>1, <1>2 DEF TypeOK
  <2> QED BY <1>1, <1>2, <1>5, <2>1, ReportType, ReportGood
<1>6. CASE /\ cyc' = [cyc EXCEPT ![a].todo = plan]
           /\ Goto(a, "repairing")
           /\ UNCHANGED <<lock, result>>
  <2> HIDE DEF m
  <2>1. cyc' \in [Agents -> Cycle]
    BY <1>1, <1>4, <1>6, CycleTodo
  <2>2. TypeOK'
    BY <1>1, <1>2, <1>6, <2>1 DEF TypeOK, Goto, Labels, memory
  <2>3. AgentInv(a)'
    BY <1>1, <1>2, <1>4, <1>6 DEF m, Cycle, Inv, TypeOK, Goto, memory, AgentInv, HoldsLock, KnowsCommit, KnowsId,
         CanDraw, FreshIds, KnowsPrevious, PlanFits, PendingIsOpen, DeploysPending, Deployment,
         OnCourse
  <2>4. Apart(a)
    BY <1>1, <1>2, <1>6 DEF Apart, TypeOK, Goto, memory
  <2> QED BY <2>2, <2>3, <2>4 DEF Good
<1> QED BY <1>3, <1>5, <1>6

LEMMA RepairGood ==
  ASSUME Inv, NEW a \in Agents, Repair(a)
  PROVE  Good(a)
<1> DEFINE m == Tree[cyc[a].commit]
<1>1. pc[a] = "repairing" /\ lock = a /\ cyc[a].commit \in Commits /\ TypeOK
  BY DEF Inv, Repair, AgentInv, HoldsLock, KnowsCommit
<1>2. m \in Manifest /\ Fits(cyc[a].todo, m) /\ cyc[a].todo \in SUBSET Action
  BY <1>1, ManifestType DEF Inv, AgentInv, PlanFits, TypeOK, Cycle
<1>3. UNCHANGED <<head, journal, memory, moves>>
  BY DEF Repair
<1>4. PICK command \in Due(cyc[a].todo) :
         /\ Command(command, m)
         /\ \/ Return(a, Report("healthy", cyc[a].commit, None))
            \/ /\ cyc' = [cyc EXCEPT ![a].todo = @ \ command]
               /\ UNCHANGED <<lock, pc, result>>
  BY DEF Repair
<1> HIDE DEF m
<1>5. runtime' \in Runtime /\ faults' \in 0..MaxFaults
  BY <1>1, <1>2, <1>4, CommandType
<1>6. CASE Return(a, Report("healthy", cyc[a].commit, None))
  BY <1>1, <1>3, <1>5, <1>6, ReportType, ReportGood
<1>7. CASE /\ cyc' = [cyc EXCEPT ![a].todo = @ \ command]
           /\ UNCHANGED <<lock, pc, result>>
  <2>1. TypeOK'
    BY <1>1, <1>2, <1>3, <1>5, <1>7, CommandDone DEF TypeOK, memory
  <2>2. /\ UNCHANGED <<journal, lock, pc, previous, pending>>
        /\ cyc'[a].commit = cyc[a].commit /\ cyc'[a].id = cyc[a].id /\ Fits(cyc'[a].todo, m)
    BY <1>1, <1>2, <1>3, <1>7, CommandDone DEF memory
  <2>3. AgentInv(a)'
    BY <1>1, <2>2 DEF m, Inv, AgentInv, HoldsLock, KnowsCommit, KnowsId, CanDraw, KnowsPrevious,
         PlanFits, PendingIsOpen, DeploysPending, Deployment, OnCourse
  <2>4. Apart(a)
    BY <1>1, <1>2, <1>3, <1>7, CommandDone DEF Apart, memory
  <2> QED BY <2>1, <2>3, <2>4 DEF Good
<1> QED BY <1>4, <1>6, <1>7

LEMMA RepairFailsGood ==
  ASSUME Inv, NEW a \in Agents, RepairFails(a)
  PROVE  Good(a)
<1> DEFINE m == Tree[cyc[a].commit]
<1>1. pc[a] \in {"repairPlan", "repairing"} /\ TypeOK /\ Unrepaired(a)
  BY DEF Inv, RepairFails
<1>2. UNCHANGED <<head, journal, memory, moves>>
  BY DEF RepairFails
<1>3. runtime' \in Runtime /\ faults' \in 0..MaxFaults
  <2>1. CASE pc[a] = "repairPlan" /\ Fault("target") /\ UNCHANGED runtime
    BY <1>1, <2>1, FaultType DEF TypeOK
  <2>2. CASE /\ pc[a] = "repairing"
             /\ \E command \in Due(cyc[a].todo) : CommandFails(command, m)
    <3>1. m \in Manifest /\ Fits(cyc[a].todo, m) /\ cyc[a].todo \in SUBSET Action
      BY <1>1, <2>2, ManifestType DEF Inv, AgentInv, KnowsCommit, PlanFits, TypeOK, Cycle
    <3> QED BY <1>1, <2>2, <3>1, CommandType
  <2> QED BY <2>1, <2>2 DEF RepairFails
<1> QED BY <1>1, <1>2, <1>3, UnrepairedGood

LEMMA CrashGood ==
  ASSUME Inv, NEW a \in Agents, Crash(a)
  PROVE  Good(a)
<1>1. TypeOK /\ (pc[a] # "idle" => lock = a) /\ faults' \in 0..MaxFaults
  BY FaultType DEF Inv, Crash, AgentInv, HoldsLock
<1>2. TypeOK'
  BY <1>1 DEF TypeOK, Crash, Goto, Labels, Cycle, NoCycle, Result, NoResult, Report
<1>3. AgentInv(a)'
  BY <1>1, IdleInvNext DEF TypeOK, Crash, Goto
<1>4. Apart(a)
  BY <1>1 DEF Apart, TypeOK, Crash, Goto
<1> QED BY <1>2, <1>3, <1>4 DEF Good

\* Pushes, people and containers touch nothing an agent relies on.
LEMMA EnvironmentInv ==
  ASSUME Inv, Environment
  PROVE  Inv'
<1>1. TypeOK'
  <2>1. CASE MoveHead
    BY <2>1, ReconcilerAssumption DEF Inv, TypeOK, MoveHead, memory
  <2>2. ASSUME NEW s \in Services, Stop(s) PROVE TypeOK'
    BY <2>2, FaultType DEF Inv, TypeOK, Stop, memory, Runtime, Container
  <2>3. ASSUME NEW s \in Services, Sicken(s) PROVE TypeOK'
    BY <2>3, FaultType DEF Inv, TypeOK, Sicken, memory, Runtime, Container
  <2>4. ASSUME NEW s \in Services, Heal(s) PROVE TypeOK'
    BY <2>4 DEF Inv, TypeOK, Heal, memory, Runtime, Container
  <2> QED BY <2>1, <2>2, <2>3, <2>4 DEF Environment
<1>2. UNCHANGED <<journal, lock, pc, previous, pending, cyc>>
  BY DEF Environment, MoveHead, Stop, Sicken, Heal, memory
<1>3. ASSUME NEW a \in Agents PROVE AgentInv(a)'
  BY <1>2 DEF Inv, AgentInv, HoldsLock, KnowsCommit, KnowsId,
         CanDraw, FreshIds, KnowsPrevious, PlanFits, PendingIsOpen, DeploysPending, Deployment,
         OnCourse
<1> QED BY <1>1, <1>3 DEF Inv
-----------------------------------------------------------------------------
(* The theorems. *)

LEMMA StepGood ==
  ASSUME Inv, NEW a \in Agents, Step(a) \/ Failure(a)
  PROVE  Good(a)
BY BeginGood, BeginFailsGood, FetchGood, ValidateGood, InterruptFailsGood, ReadFailsGood,
   PlanGood, CheckpointGood, CheckpointFailsGood, DeployGood, DeployFailsGood,
   VerifyGood, CompareDeployedGood, CloseGood, InFlightGood, RecordFailedGood,
   RestoreGood, RollBackGood, RollBackFailsGood, RecordRollBackGood, DriftHealthGood,
   DriftCompareGood, RepairPlanGood, RepairGood, RepairFailsGood, CrashGood
   DEF Step, Failure

THEOREM StepInv == Inv /\ [Next]_vars => Inv'
<1> SUFFICES ASSUME Inv, [Next]_vars PROVE Inv'
  OBVIOUS
<1>1. CASE Environment
  BY <1>1, EnvironmentInv
<1>2. ASSUME NEW a \in Agents, Step(a) \/ Failure(a) PROVE Inv'
  <2>1. Good(a)
    BY <1>2, StepGood
  <2>2. \A b \in Agents \ {a} : AgentInv(b)'
    BY <2>1, ApartKeepsInv DEF Good
  <2> QED BY <2>1, <2>2 DEF Good, Inv
<1>3. CASE UNCHANGED vars
  <2>1. TypeOK'
    BY <1>3 DEF vars, Inv, TypeOK
  <2>2. ASSUME NEW a \in Agents PROVE AgentInv(a)'
    BY <1>3 DEF vars, Inv, AgentInv, HoldsLock, KnowsCommit, KnowsId,
         CanDraw, FreshIds, KnowsPrevious, PlanFits, PendingIsOpen, DeploysPending, Deployment,
         OnCourse
  <2> QED BY <2>1, <2>2 DEF Inv
<1> QED BY <1>1, <1>2, <1>3 DEF Next

THEOREM Invariance == Spec => []Inv
BY InitInv, StepInv, PTL DEF Spec

\* Every variable keeps its type: no plan names an undeclared service, no
\* receipt lacks an identifier or a commit.
THEOREM Typing == Spec => []TypeOK
<1>1. Inv => TypeOK
  BY DEF Inv
<1> QED BY <1>1, Invariance, PTL

\* However many agents share a target, one at most is inside a cycle, and it
\* holds the deployment lock.
THEOREM MutualExclusion == Spec => []OneCycleAtATime
<1>1. Inv => OneCycleAtATime
  BY DEF Inv, AgentInv, HoldsLock, OneCycleAtATime
<1> QED BY <1>1, Invariance, PTL

\* Whatever the faults, receipts lost by the store included, no command of a
\* deployment runs without an open checkpoint of it in the journal.
THEOREM WriteAheadHolds == Spec => []WriteAhead
<1>1. Inv => WriteAhead
  BY DEF Inv, AgentInv, PendingIsOpen, DeploysPending, OnCourse, WriteAhead
<1> QED BY <1>1, Invariance, PTL
-----------------------------------------------------------------------------
(****************************************************************************)
(* What a plan replaces, and what a rollback leaves.  The commands of a     *)
(* plan run one by one, anybody may stop or remove a container between two  *)
(* of them, and the last one may bring up services no action names.         *)
(****************************************************************************)

\* The containers no action of the plan replaces or removes.
Left(rt, todo) ==
  {s \in Present(rt) : \A x \in todo : x.service = s => x.kind \notin {"recreate", "remove"}}

\* A plan leaves alone what is declared with the image that runs, unless what
\* was deployed says the rest of the definition changed.
LEMMA PlanLeaves ==
  ASSUME NEW m, NEW base, NEW rt, NEW plan \in Plans(m, base, rt), NEW s \in Left(rt, plan)
  PROVE  /\ s \in Declared(m) /\ rt[s].def.image = m[s].image
         /\ s \in Declared(base) => base[s] = m[s]
<1> DEFINE done(kind) == [kind |-> kind, service |-> s]
<1>1. DriftActions(m, base, rt) \subseteq plan
  BY DEF Plans
<1>2. done("recreate") \notin plan /\ done("remove") \notin plan
  BY DEF Left
<1>3. s \notin Recreated(m, base, rt) /\ s \notin Removed(m, rt)
  BY <1>1, <1>2 DEF DriftActions, Tagged
<1>4. s \in Present(rt)
  BY DEF Left
<1> QED BY <1>3, <1>4 DEF Recreated, Removed, Common

\* A container there after a command was brought to the manifest, or was there
\* before and is none the command was to replace or remove.
LEMMA CommandEffect ==
  ASSUME NEW m \in Manifest, NEW rt \in Runtime, NEW todo \in SUBSET Action, Fits(todo, m),
         NEW command \in Due(todo), NEW after \in Outcomes(command, m, rt),
         NEW s \in Present(after)
  PROVE  \/ s \in Declared(m) /\ after[s].def = m[s]
         \/ /\ s \in Present(rt) /\ after[s] = rt[s]
            /\ \A x \in command : x.service = s => x.kind \notin {"recreate", "remove"}
<1> DEFINE raised == {x.service : x \in OfKind(command, Ups)}
           purge  == OfKind(command, {"remove"}) # {}
           touched == IF purge THEN Declared(m) ELSE raised
<1>1. command \subseteq todo
  BY DEF Due, OfKind
<1>2. touched \subseteq Declared(m)
  BY <1>1 DEF Fits, OfKind
<1>3. PICK sick \in SUBSET touched :
         after = [t \in Services |-> IF t \in touched THEN Running(m[t], t \in sick)
                                     ELSE IF purge THEN Gone ELSE rt[t]]
  BY Zenon DEF Outcomes
<1>4. s \in Services /\ after[s] # Gone
  BY DEF Present
<1>5. CASE s \in touched
  BY <1>2, <1>3, <1>4, <1>5 DEF Running
<1>6. CASE s \notin touched
  <2>1. ~purge /\ after[s] = rt[s] /\ s \notin raised
    <3> HIDE DEF purge, raised
    <3> QED BY <1>3, <1>4, <1>6
  <2>2. \A x \in command : x.service = s => x.kind \notin {"recreate", "remove"}
    BY <2>1 DEF OfKind, Ups
  <2> QED BY <1>4, <2>1, <2>2 DEF Present
<1> QED BY <1>5, <1>6

\* A command that has run is off the plan: what the plan now leaves was brought
\* to the manifest, or is what the plan left before.
LEMMA CommandLeaves ==
  ASSUME NEW m \in Manifest, NEW rt \in Runtime, NEW todo \in SUBSET Action, Fits(todo, m),
         NEW command \in Due(todo), NEW after \in Outcomes(command, m, rt),
         NEW s \in Left(after, todo \ command)
  PROVE  \/ s \in Declared(m) /\ after[s].def = m[s]
         \/ s \in Left(rt, todo) /\ after[s] = rt[s]
<1>1. s \in Present(after)
  BY DEF Left
<1>2. \/ s \in Declared(m) /\ after[s].def = m[s]
      \/ /\ s \in Present(rt) /\ after[s] = rt[s]
         /\ \A x \in command : x.service = s => x.kind \notin {"recreate", "remove"}
  BY <1>1, CommandEffect
<1>3. ASSUME s \in Present(rt),
             \A x \in command : x.service = s => x.kind \notin {"recreate", "remove"}
      PROVE  s \in Left(rt, todo)
  BY <1>3 DEF Left
<1> QED BY <1>2, <1>3

\* People and health checks redefine no container, and add none.
LEMMA EnvironmentKeeps ==
  ASSUME TypeOK, Environment, NEW s \in Present(runtime')
  PROVE  s \in Present(runtime) /\ runtime'[s].def = runtime[s].def
<1>1. CASE UNCHANGED runtime
  BY <1>1
<1>2. CASE \E t \in Services : Stop(t) \/ Sicken(t) \/ Heal(t)
  BY <1>2, ReconcilerAssumption
     DEF TypeOK, Runtime, Container, Stop, Sicken, Heal, Present
<1> QED BY <1>1, <1>2 DEF Environment, MoveHead

\* While an agent is in a cycle no other one touches the target.
LEMMA OthersRest ==
  ASSUME Inv, NEW a \in Agents, Step(a) \/ Failure(a), NEW b \in Agents \ {a}, pc[b] # "idle"
  PROVE  pc[a] = "idle" /\ UNCHANGED <<runtime, journal>>
<1>1. pc[a] = "idle"
  BY DEF Inv, AgentInv, HoldsLock
<1>2. Begin(a) \/ BeginFails(a) \/ Crash(a)
  BY <1>1 DEF Step, Failure, Fetch, Validate, Plan, Checkpoint, Deploy, Verify,
     CompareDeployed, Close, InFlight, RecordFailed, Restore, RollBack, RecordRollBack,
     DriftHealth, DriftCompare, RepairPlan, Repair, ReadFails, InterruptFails,
     CheckpointFails, DeployFails, RollBackFails, RepairFails
<1> QED BY <1>1, <1>2 DEF Begin, BeginFails, Crash

\* The rollback's own invariant: what the rest of its plan leaves alone has the
\* image of the commit that is restored.
RollsBack(a) ==
  LET m == Tree[previous[a]]
      todo == IF pc[a] = "rolling" THEN cyc[a].todo ELSE {}
  IN  pc[a] \in {"rolling", "rolledback"} =>
        \A s \in Left(runtime, todo) : s \in Declared(m) /\ runtime[s].def.image = m[s].image

RollBackInv == Inv /\ \A a \in Agents : RollsBack(a)

LEMMA RestoreRollsBack ==
  ASSUME Inv, NEW a \in Agents, Restore(a)
  PROVE  RollsBack(a)'
<1> DEFINE m == Tree[previous[a]]
<1>1. PICK plan \in Plans(m, NoServices, runtime) :
         /\ cyc' = [cyc EXCEPT ![a].todo = plan]
         /\ Goto(a, IF Changed(plan) THEN "rolling" ELSE "rolledback")
  BY DEF Restore
<1>2. UNCHANGED <<runtime, previous>>
  BY DEF Restore, memory
<1>3. cyc'[a].todo = plan /\ pc'[a] = IF plan # {} THEN "rolling" ELSE "rolledback"
  BY <1>1 DEF Inv, TypeOK, Cycle, Goto, Changed
<1>4. \A s \in Left(runtime, plan) : s \in Declared(m) /\ runtime[s].def.image = m[s].image
  BY <1>1, PlanLeaves
<1> QED BY <1>2, <1>3, <1>4 DEF RollsBack

LEMMA RollBackRollsBack ==
  ASSUME RollBackInv, NEW a \in Agents, RollBack(a)
  PROVE  RollsBack(a)'
<1> DEFINE m == Tree[previous[a]]
           todo == cyc[a].todo
<1>1. PICK command \in Due(todo) :
         /\ Command(command, m)
         /\ cyc' = [cyc EXCEPT ![a].todo = @ \ command]
         /\ Goto(a, IF todo = command THEN "rolledback" ELSE "rolling")
  BY DEF RollBack
<1>2. /\ pc[a] = "rolling" /\ UNCHANGED previous
      /\ m \in Manifest /\ todo \in SUBSET Action /\ Fits(todo, m)
      /\ runtime' \in Outcomes(command, m, runtime) /\ runtime \in Runtime
  BY <1>1, ManifestType
     DEF RollBackInv, Inv, TypeOK, Cycle, AgentInv, KnowsPrevious, PlanFits, RollBack, memory, Command
<1>3. /\ cyc'[a].todo = todo \ command
      /\ pc'[a] = IF todo = command THEN "rolledback" ELSE "rolling"
  BY <1>1 DEF RollBackInv, Inv, TypeOK, Cycle, Goto
<1>4. (IF pc'[a] = "rolling" THEN cyc'[a].todo ELSE {}) = todo \ command
  BY <1>3
<1>5. \A s \in Left(runtime, todo) : s \in Declared(m) /\ runtime[s].def.image = m[s].image
  BY <1>2 DEF RollBackInv, RollsBack
<1>6. ASSUME NEW s \in Left(runtime', todo \ command)
      PROVE  s \in Declared(m) /\ runtime'[s].def.image = m[s].image
  BY <1>2, <1>5, CommandLeaves
<1> QED BY <1>2, <1>4, <1>6 DEF RollsBack

LEMMA StepRollsBack ==
  ASSUME RollBackInv, NEW a \in Agents, Step(a) \/ Failure(a)
  PROVE  \A b \in Agents : RollsBack(b)'
<1>1. RollsBack(a)'
  <2>1. CASE Restore(a)
    BY <2>1, RestoreRollsBack DEF RollBackInv
  <2>2. CASE RollBack(a)
    BY <2>2, RollBackRollsBack
  <2>3. CASE ~Restore(a) /\ ~RollBack(a)
    <3>1. pc'[a] \notin {"rolling", "rolledback"}
      <4>1. CASE Step(a)
        BY <2>3, <4>1 DEF RollBackInv, Inv, TypeOK, Step, Begin, Fetch, Validate, Plan,
           Checkpoint, Deploy, Verify, CompareDeployed, Close, InFlight, RecordFailed,
           RecordRollBack, DriftHealth, DriftCompare, RepairPlan, Repair, Unrepaired, Fail,
           Return, Goto
      <4>2. CASE Failure(a)
        BY <4>2 DEF RollBackInv, Inv, TypeOK, Failure, BeginFails, ReadFails, InterruptFails,
           CheckpointFails, DeployFails, RollBackFails, RepairFails, Crash, Unrepaired, Fail,
           Return, Goto
      <4> QED BY <4>1, <4>2
    <3> QED BY <3>1 DEF RollsBack
  <2> QED BY <2>1, <2>2, <2>3
<1>2. ASSUME NEW b \in Agents \ {a} PROVE RollsBack(b)'
  <2>1. Apart(a)
    BY StepGood DEF RollBackInv, Good
  <2>2. CASE pc[b] = "idle"
    BY <2>1, <2>2 DEF Apart, RollsBack
  <2>3. CASE pc[b] # "idle"
    <3>1. UNCHANGED runtime
      BY <2>3, OthersRest DEF RollBackInv
    <3> QED BY <2>1, <3>1 DEF Apart, RollBackInv, RollsBack
  <2> QED BY <2>2, <2>3
<1> QED BY <1>1, <1>2

THEOREM RollBackInvariance == Spec => []RollBackInv
<1>1. Init => RollBackInv
  BY InitInv DEF Init, RollBackInv, RollsBack
<1>2. RollBackInv /\ [Next]_vars => RollBackInv'
  <2> SUFFICES ASSUME RollBackInv, [Next]_vars PROVE RollBackInv'
    OBVIOUS
  <2>1. Inv'
    BY StepInv DEF RollBackInv
  <2>2. CASE \E a \in Agents : Step(a) \/ Failure(a)
    BY <2>1, <2>2, StepRollsBack DEF RollBackInv
  <2>3. CASE Environment
    <3>1. UNCHANGED <<pc, previous, cyc>>
      BY <2>3 DEF Environment, MoveHead, Stop, Sicken, Heal, memory
    <3>2. \A s \in Present(runtime') : s \in Present(runtime) /\ runtime'[s].def = runtime[s].def
      BY <2>3, EnvironmentKeeps DEF RollBackInv, Inv
    <3>3. \A todo : \A s \in Left(runtime', todo) : s \in Left(runtime, todo)
      BY <3>2 DEF Left
    <3>4. \A todo : \A s \in Left(runtime', todo) : runtime'[s].def = runtime[s].def
      BY <3>2 DEF Left
    <3> QED BY <2>1, <3>1, <3>3, <3>4 DEF RollBackInv, RollsBack
  <2>4. CASE UNCHANGED vars
    BY <2>1, <2>4 DEF vars, RollBackInv, RollsBack
  <2> QED BY <2>2, <2>3, <2>4 DEF Next
<1> QED BY <1>1, <1>2, PTL DEF Spec

\* Only the end of a rollback names a commit it went back to.
LEMMA NamesNoCommit ==
  ASSUME NEW a \in Agents, Step(a) \/ Failure(a), ~RecordRollBack(a)
  PROVE  \/ result' = result
         \/ \E phase, c : result' = [result EXCEPT ![a] = Report(phase, c, None)]
<1>1. CASE Step(a)
  BY <1>1 DEF Step, Begin, Fetch, Validate, Plan, Checkpoint, Deploy, Verify, CompareDeployed,
     Close, InFlight, RecordFailed, Restore, RollBack, DriftHealth, DriftCompare, RepairPlan,
     Repair, Unrepaired, Fail, Return, NoResult
<1>2. CASE Failure(a)
  BY <1>2 DEF Failure, BeginFails, ReadFails, InterruptFails, CheckpointFails, DeployFails,
     RollBackFails, RepairFails, Crash, Unrepaired, Fail, Return, NoResult
<1> QED BY <1>1, <1>2

\* A rollback that is reported was carried out: whatever failed, stopped or was
\* removed between its commands, every container left runs the image of the
\* restored commit, and the restored commit declares it.
THEOREM RollbackRestores == Spec => RollbackRestoresImages
<1>1. ASSUME RollBackInv, Next, NEW b \in Agents,
             Reports(b), result'[b].rolledBackTo # None
      PROVE  RunsImages(result'[b].rolledBackTo, runtime')
  <2>1. result \in [Agents -> Result]
    BY <1>1 DEF RollBackInv, Inv, TypeOK
  <2>2. ~Environment
    BY <1>1 DEF Environment, MoveHead, Stop, Sicken, Heal, Reports
  <2>3. PICK a \in Agents : Step(a) \/ Failure(a)
    BY <1>1, <2>2 DEF Next
  <2>4. RecordRollBack(a)
    <3> SUFFICES ASSUME ~RecordRollBack(a) PROVE FALSE
      OBVIOUS
    <3> QED BY <1>1, <2>1, <2>3, NamesNoCommit DEF Reports, Report
  <2>5. /\ pc[a] = "rolledback" /\ runtime' = runtime
        /\ result' = [result EXCEPT ![a] = Report("failed", cyc[a].commit, previous[a])]
    BY <2>4 DEF RecordRollBack, Return
  <2>6. b = a /\ result'[b].rolledBackTo = previous[a]
    BY <1>1, <2>1, <2>5 DEF Reports, Report
  <2>7. Present(runtime) = Left(runtime, {})
    BY DEF Left
  <2> QED BY <1>1, <2>5, <2>6, <2>7 DEF RollBackInv, RollsBack, RunsImages
<1>2. ASSUME RollBackInv, [Next]_vars
      PROVE  [\A a \in Agents :
                Reports(a) /\ result'[a].rolledBackTo # None =>
                  RunsImages(result'[a].rolledBackTo, runtime')]_vars
  BY <1>1, <1>2
<1> QED BY <1>2, RollBackInvariance, PTL DEF Spec, RollbackRestoresImages
-----------------------------------------------------------------------------
(****************************************************************************)
(* The cycle goes forward.  This is the safety half of "a cycle ends": the  *)
(* places come in an order, the plan gets shorter, and no place is a dead   *)
(* end.  That the steps are taken at all is fairness, which TLC checks.     *)
(****************************************************************************)

\* The command that runs is the whole rest of the plan, or leaves less of it.
LEMMA CommandShortens ==
  ASSUME NEW todo, NEW command \in Due(todo), command # todo
  PROVE  todo \ command \subseteq todo /\ todo \ command # todo
BY DEF Due, OfKind

LEMMA RunsForward ==
  ASSUME TypeOK, NEW a \in Agents, Deploy(a) \/ RollBack(a) \/ Repair(a)
  PROVE  pc'[a] = "idle" \/ Forward(a)
<1>1. CASE Deploy(a)
  <2>1. PICK command \in Due(cyc[a].todo) :
           /\ cyc' = [cyc EXCEPT ![a].todo = @ \ command]
           /\ Goto(a, IF cyc[a].todo = command THEN "verifying" ELSE "deploying")
    BY <1>1 DEF Deploy
  <2>2. pc[a] = "deploying" /\ cyc'[a].todo = cyc[a].todo \ command
    BY <1>1, <2>1 DEF Deploy, TypeOK, Cycle
  <2>3. CASE cyc[a].todo = command
    BY <2>1, <2>2, <2>3 DEF TypeOK, Goto, Forward, Course
  <2>4. CASE cyc[a].todo # command
    BY <2>1, <2>2, <2>4, CommandShortens DEF TypeOK, Goto, Forward
  <2> QED BY <2>3, <2>4
<1>2. CASE RollBack(a)
  <2>1. PICK command \in Due(cyc[a].todo) :
           /\ cyc' = [cyc EXCEPT ![a].todo = @ \ command]
           /\ Goto(a, IF cyc[a].todo = command THEN "rolledback" ELSE "rolling")
    BY <1>2 DEF RollBack
  <2>2. pc[a] = "rolling" /\ cyc'[a].todo = cyc[a].todo \ command
    BY <1>2, <2>1 DEF RollBack, TypeOK, Cycle
  <2>3. CASE cyc[a].todo = command
    BY <2>1, <2>2, <2>3 DEF TypeOK, Goto, Forward, Course
  <2>4. CASE cyc[a].todo # command
    BY <2>1, <2>2, <2>4, CommandShortens DEF TypeOK, Goto, Forward
  <2> QED BY <2>3, <2>4
<1>3. CASE Repair(a)
  <2>1. PICK command \in Due(cyc[a].todo) :
           \/ Return(a, Report("healthy", cyc[a].commit, None))
           \/ /\ cyc[a].todo # command
              /\ cyc' = [cyc EXCEPT ![a].todo = @ \ command]
              /\ UNCHANGED <<lock, pc, result>>
    BY <1>3 DEF Repair
  <2>2. CASE Return(a, Report("healthy", cyc[a].commit, None))
    BY <2>2 DEF Return, Goto, TypeOK
  <2>3. CASE /\ cyc[a].todo # command
             /\ cyc' = [cyc EXCEPT ![a].todo = @ \ command]
             /\ UNCHANGED <<lock, pc, result>>
    <3>1. cyc'[a].todo = cyc[a].todo \ command
      BY <2>3 DEF TypeOK, Cycle
    <3> QED BY <2>3, <3>1, CommandShortens DEF Forward
  <2> QED BY <2>1, <2>2, <2>3
<1> QED BY <1>1, <1>2, <1>3

\* Where a step that is no command leads, a cycle that goes on.
NextPlace(x) ==
  CASE x = "idle"         -> {"fetching"}
    [] x = "fetching"     -> {"validating", "driftHealth"}
    [] x = "validating"   -> {"planning"}
    [] x = "planning"     -> {"checkpoint", "deploying", "verifying"}
    [] x = "checkpoint"   -> {"deploying"}
    [] x = "deploying"    -> {"failing"}
    [] x = "verifying"    -> {"comparing", "failing"}
    [] x = "comparing"    -> {"closing", "inflight", "repairPlan"}
    [] x = "closing"      -> {"inflight"}
    [] x = "failing"      -> {"restoring"}
    [] x = "restoring"    -> {"rolling", "rolledback"}
    [] x = "driftHealth"  -> {"driftCompare"}
    [] x = "driftCompare" -> {"repairPlan"}
    [] x = "repairPlan"   -> {"repairing"}
    [] OTHER              -> {}

LEMMA CourseOrder ==
  ASSUME NEW x \in Labels, NEW y \in NextPlace(x)
  PROVE  Course[x] < Course[y]
BY DEF NextPlace, Course, Labels

LEMMA StepForward ==
  ASSUME TypeOK, NEW a \in Agents, Step(a) \/ Failure(a)
  PROVE  pc'[a] = "idle" \/ Forward(a)
<1> DEFINE Goes == pc'[a] = "idle" \/ pc'[a] \in NextPlace(pc[a])
<1>0. ASSUME Goes PROVE pc'[a] = "idle" \/ Forward(a)
  BY <1>0, CourseOrder DEF TypeOK, Forward
<1>1. ASSUME Begin(a) \/ Fetch(a) \/ Validate(a) \/ Checkpoint(a) PROVE Goes
  BY <1>1 DEF TypeOK, Begin, Fetch, Validate, Checkpoint, Goto, NextPlace
<1>2. ASSUME Plan(a) PROVE Goes
  <2>1. pc[a] = "planning" /\ \E x \in {"verifying", "deploying", "checkpoint"} : Goto(a, x)
    BY <1>2 DEF Plan, Goto
  <2> QED BY <2>1 DEF TypeOK, Goto, NextPlace
<1>3. ASSUME Verify(a) \/ CompareDeployed(a) \/ Close(a) PROVE Goes
  BY <1>3 DEF TypeOK, Verify, CompareDeployed, Close, Return, Goto, NextPlace
<1>4. ASSUME InFlight(a) PROVE pc'[a] = "idle" \/ Forward(a)
  BY <1>4 DEF TypeOK, InFlight, Return, Goto, Forward
<1>5. ASSUME RecordFailed(a) \/ Restore(a) \/ RecordRollBack(a) PROVE Goes
  BY <1>5 DEF TypeOK, RecordFailed, Restore, RecordRollBack, Fail, Return, Goto, NextPlace
<1>6. ASSUME DriftHealth(a) \/ DriftCompare(a) \/ RepairPlan(a) PROVE Goes
  BY <1>6 DEF TypeOK, DriftHealth, DriftCompare, RepairPlan, Unrepaired, Return, Goto, NextPlace
<1>7. ASSUME Failure(a) PROVE Goes
  <2>1. CASE BeginFails(a)
    BY <2>1 DEF BeginFails
  <2>2. CASE DeployFails(a)
    BY <2>2 DEF TypeOK, DeployFails, Goto, NextPlace
  <2>3. CASE Crash(a)
    BY <2>3 DEF TypeOK, Crash, Goto
  <2>4. CASE ReadFails(a) \/ InterruptFails(a) \/ CheckpointFails(a) \/ RollBackFails(a)
    BY <2>4 DEF TypeOK, ReadFails, InterruptFails, CheckpointFails, RollBackFails, Fail, Return, Goto
  <2>5. CASE RepairFails(a)
    BY <2>5 DEF TypeOK, RepairFails, Unrepaired, Return, Goto
  <2> QED BY <1>7, <2>1, <2>2, <2>3, <2>4, <2>5 DEF Failure
<1> HIDE DEF Goes
<1> QED BY <1>0, <1>1, <1>2, <1>3, <1>4, <1>5, <1>6, <1>7, RunsForward DEF Step

\* Reconcile: a cycle is never at one place twice with the same plan, unless a
\* commit arrived meanwhile.
THEOREM CycleIsForward == Spec => CycleGoesForward
<1>1. TypeOK /\ [Next]_vars =>
        [\A a \in Agents : Step(a) \/ Failure(a) => pc'[a] = "idle" \/ Forward(a)]_vars
  BY StepForward
<1> QED BY <1>1, Typing, PTL DEF Spec, CycleGoesForward

\* The command of a plan has an outcome in which nothing turns unhealthy.
CanRun(todo, m) ==
  \E command \in Due(todo) :
    \E after \in Outcomes(command, m, runtime) : Sick(after) \subseteq Sick(runtime)

\* What the next step of a cycle has to find where the cycle is; the places
\* that are not named need nothing.
CanGoOn(a) ==
  LET m == Tree[cyc[a].commit]
      state == [commit |-> cyc[a].commit, services |-> m]
      base == IF previous[a] = None THEN NoServices ELSE Tree[previous[a]]
  IN  /\ pc[a] = "planning" => NewId \in FreshIds /\ Plans(m, base, runtime) # {}
      /\ pc[a] \in {"deploying", "repairing"} => CanRun(cyc[a].todo, m)
      /\ pc[a] \in {"comparing", "driftCompare"} =>
           Compare(state, state, runtime) \in {"SYNCED", "DRIFTED"}
      /\ pc[a] = "restoring" =>
           previous[a] \in Commits /\ Plans(Tree[previous[a]], NoServices, runtime) # {}
      /\ pc[a] = "rolling" => CanRun(cyc[a].todo, Tree[previous[a]])
      /\ pc[a] = "repairPlan" => Plans(m, m, runtime) # {}

LEMMA PlansExist ==
  ASSUME NEW m, NEW base, NEW rt
  PROVE  Plans(m, base, rt) # {}
<1> DEFINE drift == DriftActions(m, base, rt)
<1>1. PullSets(m, drift) # {}
  <2>1. CASE PullPolicy = "never"
    <3>1. PullSets(m, drift) = {{}}
      BY <2>1 DEF PullSets
    <3> QED BY <3>1
  <2>2. CASE PullPolicy = "always"
    BY <2>2 DEF PullSets
  <2>3. CASE PullPolicy = "changed"
    BY <2>3 DEF PullSets
  <2>4. CASE PullPolicy = "missing"
    <3>1. PullSets(m, drift) = {{s \in Declared(m) : m[s].image \notin local} : local \in SUBSET Images}
      BY <2>4 DEF PullSets
    <3>2. {} \in SUBSET Images
      OBVIOUS
    <3> QED BY <3>1, <3>2
  <2> QED BY <2>1, <2>2, <2>3, <2>4, PullPolicyAssumption DEF PullPolicies
<1> QED BY <1>1 DEF Plans

LEMMA CommandsExist ==
  ASSUME NEW todo, NEW m
  PROVE  CanRun(todo, m)
<1>1. PICK command \in Due(todo) : TRUE
  BY DEF Due
<1> DEFINE raised == {x.service : x \in OfKind(command, Ups)}
           purge == OfKind(command, {"remove"}) # {}
           touched == IF purge THEN Declared(m) ELSE raised
           reached(sick) == [s \in Services |-> IF s \in touched THEN Running(m[s], s \in sick)
                                                 ELSE IF purge THEN Gone ELSE runtime[s]]
<1>2. reached({}) \in Outcomes(command, m, runtime)
  BY DEF Outcomes
<1>3. ASSUME NEW s \in Sick(reached({})) PROVE s \in Sick(runtime)
  <2>1. s \in Services /\ reached({})[s] # Gone /\ reached({})[s].sick
    BY DEF Sick, Present
  <2>2. s \notin touched /\ ~purge
    BY <2>1 DEF Running
  <2> QED BY <2>1, <2>2 DEF Sick, Present
<1> QED BY <1>2, <1>3, Zenon DEF CanRun

\* No place of a cycle is a dead end: whatever the containers, the journal and
\* the branch have become meanwhile, what the next step reads is there, its
\* plan exists, its command can run, and the comparison has one of the two
\* answers the code looks for.
THEOREM CycleIsNeverStuck == Spec => [](\A a \in Agents : CanGoOn(a))
<1>1. Inv => \A a \in Agents : CanGoOn(a)
  <2> SUFFICES ASSUME Inv, NEW a \in Agents PROVE CanGoOn(a)
    OBVIOUS
  <2>1. pc[a] = "planning" => NewId \in FreshIds
    BY DEF Inv, AgentInv, CanDraw, NewId
  <2>2. pc[a] \in {"comparing", "driftCompare"} => cyc[a].commit \in Commits /\ runtime \in Runtime
    BY DEF Inv, AgentInv, KnowsCommit, TypeOK
  <2>3. pc[a] = "restoring" => previous[a] \in Commits
    BY DEF Inv, AgentInv, KnowsPrevious
  <2> QED BY <2>1, <2>2, <2>3, PlansExist, CommandsExist, DriftIsWhatRepairPlans DEF CanGoOn
<1> QED BY <1>1, Invariance, PTL
=============================================================================
