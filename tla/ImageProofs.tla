------------------------------ MODULE ImageProofs ------------------------------
(****************************************************************************)
(* Theorems about ImageTarget, for every set of processes, images and       *)
(* containers, every policy and whatever ran on the host at first: a lock   *)
(* is never left behind; processes whose files agree on a container's image *)
(* replace it one at a time; no process, whatever the files of the others   *)
(* say, replaces a container that is as its own declares; and a cycle goes  *)
(* forward, has a next step wherever it is, and plans no removal.           *)
(****************************************************************************)
EXTENDS ImageTarget, TLAPS

Results == {"none", "synced", "healthy", "failed", "rolled_back"}

\* Inside a cycle an agent holds the lock of its image.
Held(a) == pc[a] # "rest" => holder[Def[a].image] = a

\* An agent about to bring the container up has found it wrong, and nobody has
\* put it right since.
Wrong(a) == pc[a] = "apply" /\ OfKind(todo[a], Ups) # {} => ~Right(a)

HeldInv  == TypeOK /\ \A a \in Agents : Held(a)
ImageInv == HeldInv /\ \A a \in Agents : Wrong(a)

THEOREM InitImageInv == Init => ImageInv
<1> SUFFICES ASSUME Init PROVE ImageInv
  OBVIOUS
<1>1. TypeOK
  <2>1. PICK h \in Hosts : running = h.running /\ labelled = h.labelled
    BY DEF Init
  <2>2. running \in Runtime /\ labelled \subseteq Services
    BY <2>1, ImageAssumption
  <2>3. recorded \in [Services -> Images \cup {None}]
    BY <2>2 DEF Init, Runtime, Container, Definition
  <2> QED BY <2>2, <2>3, ImageAssumption DEF Init, TypeOK, Labels
<1>2. \A a \in Agents : Held(a) /\ Wrong(a)
  BY DEF Init, Held, Wrong
<1> QED BY <1>1, <1>2 DEF ImageInv, HeldInv
-----------------------------------------------------------------------------
(* What a plan of the driver is, and when it replaces the container. *)

LEMMA SightType ==
  ASSUME TypeOK, NEW a \in Agents
  PROVE  /\ Name[a] \in Services /\ Def[a] \in Definition /\ Def[a].image \in Images
         /\ Desired(a) \in Manifest /\ NoServices \in Manifest /\ Previous(a) \in Manifest
         /\ Current(a) \in Runtime
<1>1. Name[a] \in Services /\ Def[a] \in Definition /\ Def[a].image \in Images
  BY ImageAssumption DEF Definition
<1>2. Desired(a) \in Manifest /\ NoServices \in Manifest
  BY <1>1 DEF Desired, NoServices, Manifest
<1>3. Current(a) \in Runtime
  BY DEF TypeOK, Current, Runtime
<1> QED BY <1>1, <1>2, <1>3 DEF Previous

LEMMA PlanType ==
  ASSUME NEW m \in Manifest, NEW base \in Manifest, NEW rt \in Runtime,
         NEW plan \in Plans(m, base, rt)
  PROVE  /\ plan \in SUBSET Action
         /\ OfKind(plan, Ups) = OfKind(DriftActions(m, base, rt), Ups)
<1> DEFINE drift == DriftActions(m, base, rt)
<1>1. PICK pulled \in PullSets(m, drift) : plan = Tagged("pull", pulled) \cup drift
  BY DEF Plans
<1>2. drift \in SUBSET Action
  BY DEF DriftActions, Tagged, Action, Kinds, Created, Recreated, Started, Removed,
         Common, Declared, Present
<1> HIDE DEF drift
<1>3. pulled \subseteq Services
  BY <1>1, <1>2, PullPolicyAssumption DEF PullPolicies, PullSets, Declared, Action
<1>4. Tagged("pull", pulled) \in SUBSET Action
  BY <1>3 DEF Tagged, Action, Kinds
<1>5. OfKind(plan, Ups) = OfKind(drift, Ups)
  BY <1>1 DEF OfKind, Tagged, Ups
<1> QED BY <1>1, <1>2, <1>4, <1>5 DEF drift

\* Whatever is taken for deployed, be it this file's service or none, a plan
\* brings nothing up while the container is right.
LEMMA RightNeedsNothing ==
  ASSUME TypeOK, NEW a \in Agents, Right(a), NEW base \in {Desired(a), NoServices}
  PROVE  OfKind(DriftActions(Desired(a), base, Current(a)), Ups) = {}
<1> DEFINE m == Desired(a)
           rt == Current(a)
           n == Name[a]
<1>1. n \in Services
  BY SightType
<1>2. \A s \in Declared(m) : s = n /\ m[s] = Def[a]
  BY DEF Declared, Desired
<1>3. rt[n] = running[n] /\ rt[n] # Gone /\ rt[n].up /\ rt[n].def = Def[a]
  BY <1>1 DEF Right, Current
<1>4. n \in Present(rt)
  BY <1>1, <1>3 DEF Present
<1>5. \A s \in Declared(base) : base[s] = Def[a]
  BY DEF Declared, Desired, NoServices
<1> HIDE DEF m, rt, n
<1>6. Created(m, base, rt) = {}
  BY <1>2, <1>4 DEF Created
<1>7. Recreated(m, base, rt) = {}
  BY <1>2, <1>3, <1>5 DEF Recreated, Common
<1>8. Started(m, base, rt) = {}
  BY <1>2, <1>3, <1>4 DEF Started, Common
<1>9. OfKind(DriftActions(m, base, rt), Ups) = {}
  BY <1>6, <1>7, <1>8 DEF DriftActions, Tagged, OfKind, Ups
<1> QED BY <1>9 DEF m, rt
-----------------------------------------------------------------------------
(* What a step of one agent does to its cycle and to its lock. *)

\* It goes on under its lock, or returns and releases it.
Moves(a) ==
  /\ pc[a] # "rest"
  /\ \/ \E label \in Labels \ {"rest"} : Goto(a, label) /\ UNCHANGED <<holder, result>>
     \/ UNCHANGED <<pc, holder, result>>
     \/ \E r \in Results : Return(a, r)

\* The others' places and locks are as they were.
Apart(a) ==
  /\ \A b \in Agents \ {a} : pc'[b] = pc[b] /\ todo'[b] = todo[b]
  /\ \A i \in Images : holder[i] \notin {a, None} => holder'[i] = holder[i]

PlacesOK ==
  /\ \A i \in Images : holder[i] # None => pc[holder[i]] # "rest"
  /\ holder \in [Images -> Agents \cup {None}]
  /\ pc \in [Agents -> Labels]
  /\ result \in [Agents -> Results]

DataOK ==
  /\ running \in Runtime /\ labelled \subseteq Services
  /\ recorded \in [Services -> Images \cup {None}]
  /\ mode \in [Agents -> {"deploy", "rollback", "repair"}]
  /\ todo \in [Agents -> SUBSET Action]
  /\ changed \in [Agents -> BOOLEAN] /\ ill \in [Agents -> BOOLEAN]
  /\ previous \in [Agents -> BOOLEAN] /\ last \in [Agents -> BOOLEAN]
  /\ faults \in 0..MaxFaults

LEMMA TypeParts == (TypeOK <=> PlacesOK /\ DataOK) /\ (TypeOK' <=> PlacesOK' /\ DataOK')
BY DEF TypeOK, PlacesOK, DataOK, Results

LEMMA MovesKeeps ==
  ASSUME HeldInv, NEW a \in Agents, Moves(a)
  PROVE  /\ PlacesOK' /\ Held(a)'
         /\ \A b \in Agents \ {a} : pc'[b] = pc[b]
         /\ \A i \in Images : holder[i] \notin {a, None} => holder'[i] = holder[i]
<1>1. PlacesOK /\ Held(a) /\ Def[a].image \in Images
  BY TypeParts, SightType DEF HeldInv
<1>2. CASE \E label \in Labels \ {"rest"} : Goto(a, label) /\ UNCHANGED <<holder, result>>
  <2>1. PICK label \in Labels \ {"rest"} : pc' = [pc EXCEPT ![a] = label]
    BY <1>2 DEF Goto
  <2>2. PlacesOK'
    BY <1>1, <1>2, <2>1 DEF PlacesOK
  <2> QED BY <1>1, <1>2, <2>1, <2>2 DEF PlacesOK, Held, Moves
<1>3. CASE UNCHANGED <<pc, holder, result>>
  BY <1>1, <1>3 DEF PlacesOK, Held
<1>4. CASE \E r \in Results : Return(a, r)
  <2>1. PICK r \in Results : Return(a, r)
    BY <1>4
  <2>2. /\ pc' = [pc EXCEPT ![a] = "rest"] /\ result' = [result EXCEPT ![a] = r]
        /\ holder' = [i \in Images |-> IF holder[i] = a THEN None ELSE holder[i]]
    BY <2>1 DEF Return, Goto
  <2>3. pc'[a] = "rest" /\ pc' \in [Agents -> Labels] /\ result' \in [Agents -> Results]
    BY <1>1, <2>2 DEF PlacesOK, Labels
  <2>4. holder' \in [Images -> Agents \cup {None}]
    BY <1>1, <2>2 DEF PlacesOK
  <2>5. ASSUME NEW i \in Images, holder'[i] # None PROVE pc'[holder'[i]] # "rest"
    BY <1>1, <2>2, <2>5, ImageAssumption DEF PlacesOK
  <2> QED BY <1>1, <2>2, <2>3, <2>4, <2>5 DEF PlacesOK, Held
<1> QED BY <1>2, <1>3, <1>4 DEF Moves

LEMMA AppliedGoes ==
  ASSUME TypeOK, NEW a \in Agents, Applied(a)
  PROVE  \E label \in {"verify", "rolledback", "repaired"} : Goto(a, label)
<1>1. mode[a] \in {"deploy", "rollback", "repair"}
  BY DEF TypeOK
<1>2. CASE mode[a] = "deploy"
  BY <1>2 DEF Applied
<1>3. CASE mode[a] = "rollback"
  BY <1>3 DEF Applied
<1>4. CASE mode[a] = "repair"
  BY <1>4 DEF Applied
<1> QED BY <1>1, <1>2, <1>3, <1>4

\* A plan made ready is one of the driver's, and is applied if it changes
\* anything; the container is brought up only if it was wrong.
LEMMA PrepareGoes ==
  ASSUME TypeOK, NEW a \in Agents, NEW purpose \in {"deploy", "rollback", "repair"},
         NEW base \in {Desired(a), NoServices}, Prepare(a, purpose, base)
  PROVE  /\ \E label \in {"apply", "verify", "rolledback", "repaired"} : Goto(a, label)
         /\ todo' \in [Agents -> SUBSET Action]
         /\ \A b \in Agents \ {a} : todo'[b] = todo[b]
         /\ mode' \in [Agents -> {"deploy", "rollback", "repair"}]
         /\ OfKind(todo'[a], Ups) # {} => ~Right(a)
<1>1. PICK plan \in Plans(Desired(a), base, Current(a)) :
        /\ todo' = [todo EXCEPT ![a] = plan]
        /\ mode' = [mode EXCEPT ![a] = purpose]
        /\ Goto(a, IF Changed(plan) THEN "apply" ELSE
                   CASE purpose = "deploy"   -> "verify"
                     [] purpose = "rollback" -> "rolledback"
                     [] purpose = "repair"   -> "repaired")
  BY DEF Prepare
<1>2. plan \in SUBSET Action /\ OfKind(plan, Ups) = OfKind(DriftActions(Desired(a), base, Current(a)), Ups)
  BY SightType, PlanType
<1>3. Right(a) => OfKind(plan, Ups) = {}
  BY <1>2, RightNeedsNothing
<1>4. \E label \in {"apply", "verify", "rolledback", "repaired"} : Goto(a, label)
  <2>1. CASE Changed(plan)
    BY <1>1, <2>1
  <2>2. CASE ~Changed(plan) /\ purpose = "deploy"
    BY <1>1, <2>2
  <2>3. CASE ~Changed(plan) /\ purpose = "rollback"
    BY <1>1, <2>3
  <2>4. CASE ~Changed(plan) /\ purpose = "repair"
    BY <1>1, <2>4
  <2> QED BY <2>1, <2>2, <2>3, <2>4
<1>5. todo'[a] = plan /\ todo' \in [Agents -> SUBSET Action]
  BY <1>1, <1>2 DEF TypeOK
<1> QED BY <1>1, <1>3, <1>4, <1>5 DEF TypeOK

\* A step leaves the data of its types, what the others have to do as it was,
\* and the container of another name alone; only Apply touches containers, and
\* what it leaves up under its name is as its own file declares it.
Touches(a) ==
  /\ pc[a] \in {"apply", "run"}
  /\ LET c == running'[Name[a]] IN c # Gone /\ c.up => c.def = Def[a]
  /\ \A s \in Services \ {Name[a]} : running'[s] = running[s] /\ (s \in labelled' <=> s \in labelled)

Does(a) ==
  /\ DataOK'
  /\ \A b \in Agents \ {a} : todo'[b] = todo[b]
  /\ UNCHANGED engine \/ Touches(a)
  /\ pc'[a] = "apply" /\ OfKind(todo'[a], Ups) # {} =>
       UNCHANGED engine /\ (~Right(a) \/ (pc[a] = "apply" /\ OfKind(todo[a], Ups) # {}))

Steps(a) == Moves(a) /\ Does(a)

\* A step that plans nothing, runs no command and goes on to no Apply.
LEMMA QuietDoes ==
  ASSUME TypeOK, NEW a \in Agents, UNCHANGED <<engine, mode, todo>>, pc'[a] # "apply",
         recorded' \in [Services -> Images \cup {None}],
         changed' \in [Agents -> BOOLEAN], ill' \in [Agents -> BOOLEAN],
         previous' \in [Agents -> BOOLEAN], last' \in [Agents -> BOOLEAN],
         faults' \in 0..MaxFaults
  PROVE  Does(a)
BY TypeParts DEF Does, DataOK, engine

LEMMA FaultType ==
  ASSUME TypeOK, Fault
  PROVE  faults' \in 0..MaxFaults
BY ImageAssumption DEF TypeOK, Fault

LEMMA FetchSteps ==
  ASSUME TypeOK, NEW a \in Agents, Fetch(a)
  PROVE  Steps(a)
<1>1. Moves(a) /\ pc'[a] \in {"health", "plan"}
  BY DEF Fetch, Goto, TypeOK, Moves, Labels
<1> QED BY <1>1, QuietDoes DEF Fetch, locals, memory, TypeOK, Steps

\* The three plans of a cycle.
LEMMA PlanSteps ==
  ASSUME TypeOK, NEW a \in Agents, Plan(a) \/ Restore(a) \/ RepairPlan(a)
  PROVE  Steps(a)
<1>1. \E purpose \in {"deploy", "rollback", "repair"}, base \in {Desired(a), NoServices} :
         Prepare(a, purpose, base)
  BY DEF Plan, Restore, RepairPlan, Previous
<1>2. /\ \E label \in {"apply", "verify", "rolledback", "repaired"} : Goto(a, label)
      /\ todo' \in [Agents -> SUBSET Action]
      /\ \A b \in Agents \ {a} : todo'[b] = todo[b]
      /\ mode' \in [Agents -> {"deploy", "rollback", "repair"}]
      /\ OfKind(todo'[a], Ups) # {} => ~Right(a)
  BY <1>1, PrepareGoes
<1>3. /\ pc[a] # "rest"
      /\ UNCHANGED <<engine, recorded, holder, ill, memory, result, faults>>
  BY DEF Plan, Restore, RepairPlan
<1>4. Moves(a)
  BY <1>2, <1>3 DEF Moves, Labels
<1>5. changed' \in [Agents -> BOOLEAN]
  <2>1. CASE UNCHANGED changed
    BY <2>1 DEF TypeOK
  <2>2. CASE \E recovering \in BOOLEAN :
               changed' = [changed EXCEPT ![a] = recovering \/ Changed(todo'[a])]
    BY <2>2 DEF TypeOK, Changed
  <2> QED BY <2>1, <2>2 DEF Plan, Restore, RepairPlan
<1>6. DataOK'
  BY <1>2, <1>3, <1>5 DEF TypeOK, DataOK, engine, memory
<1> QED BY <1>2, <1>3, <1>4, <1>6 DEF Steps, Does

LEMMA NextIsTodo ==
  ASSUME TypeOK, NEW a \in Agents, NEW kinds, Next1(a, kinds) # {}
  PROVE  Next1(a, kinds) \subseteq OfKind(todo[a], kinds) /\ OfKind(todo[a], kinds) # {}
<1>1. UNION Due(todo[a]) \subseteq todo[a]
  BY DEF Due, OfKind
<1> QED BY <1>1 DEF Next1, OfKind

LEMMA PullSteps ==
  ASSUME TypeOK, NEW a \in Agents, Pull(a)
  PROVE  Steps(a)
<1>1. pc[a] = "apply" /\ todo' = [todo EXCEPT ![a] = @ \ Next1(a, {"pull"})]
      /\ UNCHANGED <<engine, recorded, holder, mode, changed, ill, memory, result, faults>>
  BY DEF Pull
<1>2. /\ todo' \in [Agents -> SUBSET Action] /\ todo'[a] \subseteq todo[a]
      /\ \A b \in Agents \ {a} : todo'[b] = todo[b]
  BY <1>1 DEF TypeOK
<1>3. DataOK'
  BY <1>1, <1>2 DEF TypeOK, DataOK, engine, memory
<1>4. Moves(a)
  <2>1. CASE Applied(a)
    BY <1>1, <2>1, AppliedGoes DEF Moves, Labels
  <2>2. CASE UNCHANGED pc
    BY <1>1, <2>2 DEF Moves
  <2> QED BY <2>1, <2>2 DEF Pull
<1>5. OfKind(todo'[a], Ups) # {} => OfKind(todo[a], Ups) # {}
  BY <1>2 DEF OfKind
<1> QED BY <1>1, <1>2, <1>3, <1>4, <1>5 DEF Steps, Does

LEMMA RemoveOldSteps ==
  ASSUME TypeOK, NEW a \in Agents, RemoveOld(a)
  PROVE  Steps(a)
<1>1. /\ pc[a] = "apply" /\ running' = [running EXCEPT ![Name[a]] = Gone] /\ Goto(a, "run")
      /\ UNCHANGED <<labelled, recorded, holder, locals, memory, result, faults>>
  BY DEF RemoveOld
<1>2. Moves(a) /\ pc'[a] = "run"
  BY <1>1 DEF Moves, Labels, Goto, TypeOK
<1>3. running' \in Runtime
  BY <1>1 DEF TypeOK, Runtime
<1>4. DataOK'
  BY <1>1, <1>3 DEF TypeOK, DataOK, locals, memory
<1>5. running'[Name[a]] = Gone
  BY <1>1, SightType DEF TypeOK, Runtime
<1>6. Touches(a)
  BY <1>1, <1>5 DEF Touches, TypeOK, Runtime
<1> QED BY <1>1, <1>2, <1>4, <1>6 DEF Steps, Does, locals

\* A container of this driver's: up, sick, or created and not started.
LEMMA OwnType ==
  ASSUME TypeOK, NEW a \in Agents
  PROVE  /\ \A sick \in BOOLEAN : Running(Def[a], sick) \in Container
         /\ [Running(Def[a], FALSE) EXCEPT !.up = FALSE] \in Container
<1>1. \A sick \in BOOLEAN : Running(Def[a], sick) \in Container
  BY SightType DEF Running, Container
<1>2. \A c \in Container : [c EXCEPT !.up = FALSE] \in Container
  BY DEF Container
<1> QED BY <1>1, <1>2

LEMMA OtherNames ==
  ASSUME TypeOK, NEW a \in Agents, NEW c \in Container, running' = [running EXCEPT ![Name[a]] = c]
  PROVE  running' \in Runtime /\ \A s \in Services \ {Name[a]} : running'[s] = running[s]
BY DEF TypeOK, Runtime

LEMMA RunSteps ==
  ASSUME TypeOK, NEW a \in Agents, Run(a)
  PROVE  Steps(a)
<1>1. /\ pc[a] = "run" /\ labelled' = labelled \cup {Name[a]}
      /\ todo' = [todo EXCEPT ![a] = {}] /\ Applied(a)
      /\ UNCHANGED <<recorded, holder, mode, changed, ill, memory, result>>
  BY DEF Run
<1>2. PICK label \in {"verify", "rolledback", "repaired"} : Goto(a, label)
  BY <1>1, AppliedGoes
<1>3. Moves(a) /\ pc'[a] # "apply"
  BY <1>1, <1>2 DEF Moves, Labels, Goto, TypeOK
<1>4. running' \in Runtime /\ \A s \in Services \ {Name[a]} : running'[s] = running[s]
  BY OwnType, OtherNames DEF Run
<1>5. faults' \in 0..MaxFaults
  BY FaultType DEF Run, TypeOK
<1>6. DataOK'
  BY <1>1, <1>4, <1>5, SightType DEF TypeOK, DataOK, memory
<1>7. running'[Name[a]].def = Def[a]
  BY SightType DEF Run, Running, TypeOK, Runtime
<1>8. Touches(a)
  BY <1>1, <1>4, <1>7 DEF Touches
<1> QED BY <1>1, <1>3, <1>6, <1>8 DEF Steps, Does, TypeOK

LEMMA ApplyErrorGoes ==
  ASSUME TypeOK, NEW a \in Agents, ApplyError(a), pc[a] # "rest"
  PROVE  /\ Moves(a) /\ pc'[a] # "apply"
         /\ todo' \in [Agents -> SUBSET Action]
         /\ \A b \in Agents \ {a} : todo'[b] = todo[b]
         /\ UNCHANGED <<mode, changed, ill, recorded, memory>>
<1>1. \/ Goto(a, "failed") /\ UNCHANGED <<holder, result>>
      \/ \E r \in Results : Return(a, r)
  BY DEF ApplyError, Results
<1>2. Moves(a)
  BY <1>1 DEF Moves, Labels
<1>3. pc'[a] # "apply"
  BY <1>1 DEF Return, Goto, TypeOK
<1> QED BY <1>2, <1>3 DEF ApplyError, TypeOK

LEMMA ErrorSteps ==
  ASSUME TypeOK, NEW a \in Agents, RunConflicts(a) \/ CommandFails(a)
  PROVE  Steps(a)
<1>1. ApplyError(a) /\ pc[a] \in {"apply", "run"} /\ faults' \in 0..MaxFaults
  BY FaultType DEF RunConflicts, CommandFails, TypeOK
<1>2. /\ Moves(a) /\ pc'[a] # "apply"
      /\ todo' \in [Agents -> SUBSET Action]
      /\ \A b \in Agents \ {a} : todo'[b] = todo[b]
      /\ UNCHANGED <<mode, changed, ill, recorded, memory>>
  BY <1>1, ApplyErrorGoes
<1>3. CASE UNCHANGED engine
  <2>1. DataOK'
    BY <1>1, <1>2, <1>3 DEF TypeOK, DataOK, engine, memory
  <2> QED BY <1>2, <1>3, <2>1 DEF Steps, Does
<1>4. CASE /\ running' = [running EXCEPT ![Name[a]] = [Running(Def[a], FALSE) EXCEPT !.up = FALSE]]
           /\ labelled' = labelled \cup {Name[a]}
  <2>1. [Running(Def[a], FALSE) EXCEPT !.up = FALSE] \in Container
    BY OwnType
  <2>2. running' \in Runtime /\ \A s \in Services \ {Name[a]} : running'[s] = running[s]
    BY <1>4, <2>1, OtherNames
  <2>3. DataOK'
    BY <1>1, <1>2, <1>4, <2>2, SightType DEF TypeOK, DataOK, memory
  <2>4. ~running'[Name[a]].up
    BY <1>4, SightType DEF Running, TypeOK, Runtime
  <2>5. Touches(a)
    BY <1>1, <1>4, <2>2, <2>4 DEF Touches
  <2> QED BY <1>2, <2>3, <2>5 DEF Steps, Does
<1> QED BY <1>3, <1>4 DEF RunConflicts, CommandFails

\* What follows Apply, and a cycle that looks for drift.
LEMMA AfterSteps ==
  ASSUME TypeOK, NEW a \in Agents,
         Verify(a) \/ RecordFailed(a) \/ RecordRollBack(a) \/ DriftCompare(a) \/ Repaired(a)
  PROVE  Steps(a)
<1>1. pc[a] # "rest" /\ UNCHANGED <<engine, recorded, locals, memory, faults>>
  BY DEF Verify, RecordFailed, RecordRollBack, DriftCompare, Repaired
<1>2. \/ \E label \in {"failed", "compare", "restore", "repair"} :
           Goto(a, label) /\ UNCHANGED <<holder, result>>
      \/ \E r \in Results : Return(a, r)
  BY DEF Verify, RecordFailed, RecordRollBack, DriftCompare, Repaired, Results
<1>3. Moves(a)
  BY <1>1, <1>2 DEF Moves, Labels
<1>4. pc'[a] # "apply"
  BY <1>2 DEF Return, Goto, TypeOK
<1> QED BY <1>1, <1>3, <1>4, QuietDoes DEF locals, memory, TypeOK, Steps

LEMMA CompareDeployedSteps ==
  ASSUME TypeOK, NEW a \in Agents, CompareDeployed(a)
  PROVE  Steps(a)
<1>1. /\ pc[a] # "rest" /\ UNCHANGED <<engine, recorded, mode, todo, changed, faults>>
      /\ last' = [last EXCEPT ![a] = TRUE] /\ ill' = [ill EXCEPT ![a] = FALSE]
      /\ previous' \in {previous, [previous EXCEPT ![a] = TRUE]}
  BY DEF CompareDeployed
<1>2. \/ \E label \in {"close", "repair"} : Goto(a, label) /\ UNCHANGED <<holder, result>>
      \/ \E r \in Results : Return(a, r)
  BY DEF CompareDeployed, Results
<1>3. Moves(a)
  BY <1>1, <1>2 DEF Moves, Labels
<1>4. pc'[a] # "apply"
  BY <1>2 DEF Return, Goto, TypeOK
<1>5. /\ last' \in [Agents -> BOOLEAN] /\ ill' \in [Agents -> BOOLEAN]
      /\ previous' \in [Agents -> BOOLEAN]
  BY <1>1 DEF TypeOK
<1> QED BY <1>1, <1>3, <1>4, <1>5, QuietDoes DEF TypeOK, Steps

LEMMA CloseSteps ==
  ASSUME TypeOK, NEW a \in Agents, Close(a)
  PROVE  Steps(a)
<1>1. /\ pc[a] # "rest" /\ UNCHANGED <<engine, locals, memory>>
      /\ recorded' \in {recorded, [recorded EXCEPT ![Name[a]] = Def[a].image]}
  BY DEF Close
<1>2. \/ Goto(a, "plan") /\ UNCHANGED <<holder, result>>
      \/ \E r \in Results : Return(a, r)
  BY DEF Close, Results
<1>3. Moves(a)
  BY <1>1, <1>2 DEF Moves, Labels
<1>4. pc'[a] # "apply"
  BY <1>2 DEF Return, Goto, TypeOK
<1>5. recorded' \in [Services -> Images \cup {None}] /\ faults' \in 0..MaxFaults
  BY <1>1, SightType, FaultType DEF TypeOK, Close
<1> QED BY <1>1, <1>3, <1>4, <1>5, QuietDoes DEF locals, memory, TypeOK, Steps

LEMMA DriftHealthSteps ==
  ASSUME TypeOK, NEW a \in Agents, DriftHealth(a)
  PROVE  Steps(a)
<1>1. Moves(a) /\ pc'[a] = "drift"
  BY DEF DriftHealth, Goto, TypeOK, Moves, Labels
<1>2. Unhealthy(a) \in BOOLEAN
  BY DEF Unhealthy
<1>3. ill' \in [Agents -> BOOLEAN]
  BY <1>2 DEF DriftHealth, TypeOK
<1> QED BY <1>1, <1>3, QuietDoes DEF DriftHealth, memory, TypeOK, Steps

LEMMA ReadFailsSteps ==
  ASSUME TypeOK, NEW a \in Agents, ReadFails(a)
  PROVE  Steps(a)
<1>1. \/ Goto(a, "failed") /\ UNCHANGED <<holder, result>>
      \/ \E r \in Results : Return(a, r)
  BY DEF ReadFails, Results
<1>2. pc[a] # "rest" /\ faults' \in 0..MaxFaults
  BY FaultType DEF ReadFails
<1>3. Moves(a)
  BY <1>1, <1>2 DEF Moves, Labels
<1>4. pc'[a] # "apply"
  BY <1>1 DEF Return, Goto, TypeOK
<1> QED BY <1>2, <1>3, <1>4, QuietDoes DEF ReadFails, locals, memory, TypeOK, Steps

LEMMA CrashSteps ==
  ASSUME TypeOK, NEW a \in Agents, Crash(a)
  PROVE  Steps(a)
<1>1. /\ pc[a] # "rest" /\ Return(a, "none") /\ faults' \in 0..MaxFaults
      /\ previous' = [previous EXCEPT ![a] = FALSE] /\ last' = [last EXCEPT ![a] = FALSE]
      /\ todo' = [todo EXCEPT ![a] = {}] /\ UNCHANGED <<engine, recorded, mode, changed, ill>>
  BY FaultType DEF Crash
<1>2. Moves(a)
  BY <1>1 DEF Moves, Results
<1>3. pc'[a] = "rest"
  BY <1>1 DEF Return, Goto, TypeOK
<1>4. DataOK' /\ \A b \in Agents \ {a} : todo'[b] = todo[b]
  BY <1>1 DEF TypeOK, DataOK, engine
<1> QED BY <1>1, <1>2, <1>3, <1>4 DEF Steps, Does

LEMMA AgentSteps ==
  ASSUME TypeOK, NEW a \in Agents, Step(a) \/ CommandFails(a) \/ ReadFails(a) \/ Crash(a)
  PROVE  Steps(a)
BY FetchSteps, PlanSteps, PullSteps, RemoveOldSteps, RunSteps, ErrorSteps, AfterSteps,
   CompareDeployedSteps, CloseSteps, DriftHealthSteps, ReadFailsSteps, CrashSteps DEF Step

LEMMA LockSteps ==
  ASSUME HeldInv, NEW a \in Agents, Lock(a)
  PROVE  PlacesOK' /\ Held(a)' /\ Apart(a) /\ Does(a)
<1> DEFINE own == Def[a].image
<1>1. TypeOK /\ PlacesOK /\ own \in Images
  BY TypeParts, SightType DEF HeldInv
<1>2. /\ pc[a] = "rest" /\ holder[own] = None
      /\ holder' = [i \in Images |-> IF i = own THEN a ELSE holder[i]]
      /\ pc' = [pc EXCEPT ![a] = "fetch"] /\ result' = [result EXCEPT ![a] = "none"]
      /\ UNCHANGED <<engine, recorded, locals, faults>>
  BY DEF Lock, Locks, Goto
<1> HIDE DEF own
<1>3. /\ pc'[a] = "fetch" /\ pc' \in [Agents -> Labels] /\ result' \in [Agents -> Results]
      /\ \A b \in Agents \ {a} : pc'[b] = pc[b]
      /\ holder' \in [Images -> Agents \cup {None}]
  BY <1>1, <1>2 DEF PlacesOK, Labels, Results
<1>4. ASSUME NEW i \in Images, holder'[i] # None PROVE pc'[holder'[i]] # "rest"
  BY <1>1, <1>2, <1>3, <1>4 DEF PlacesOK
<1>5. Held(a)'
  BY <1>1, <1>2 DEF own, Held
<1>6. Apart(a)
  BY <1>1, <1>2, <1>3 DEF Apart, locals
<1>7. previous' \in [Agents -> BOOLEAN] /\ last' \in [Agents -> BOOLEAN]
  <2>1. PICK x \in BOOLEAN : previous' = [previous EXCEPT ![a] = x]
    BY <1>1 DEF Lock, TypeOK
  <2>2. PICK y \in BOOLEAN : last' = [last EXCEPT ![a] = y]
    BY <1>1 DEF Lock, TypeOK
  <2> QED BY <1>1, <2>1, <2>2 DEF TypeOK
<1>8. Does(a)
  BY <1>1, <1>2, <1>3, <1>7, QuietDoes DEF locals, TypeOK
<1> QED BY <1>3, <1>4, <1>5, <1>6, <1>8 DEF PlacesOK

Acts(a) == Lock(a) \/ Step(a) \/ CommandFails(a) \/ ReadFails(a) \/ Crash(a)

LEMMA ActsKeep ==
  ASSUME HeldInv, NEW a \in Agents, Acts(a)
  PROVE  TypeOK' /\ Held(a)' /\ Apart(a) /\ Does(a)
<1>1. CASE Lock(a)
  BY <1>1, LockSteps, TypeParts DEF Does
<1>2. CASE Step(a) \/ CommandFails(a) \/ ReadFails(a) \/ Crash(a)
  <2>1. Moves(a) /\ Does(a)
    BY <1>2, AgentSteps DEF HeldInv, Steps
  <2>2. PlacesOK' /\ Held(a)' /\ Apart(a)
    BY <2>1, MovesKeeps DEF Apart, Does
  <2> QED BY <2>1, <2>2, TypeParts DEF Does
<1> QED BY <1>1, <1>2 DEF Acts

Hand == \E s \in Services : Disturb(s) \/ TakeName(s)

\* What people and chance do to containers puts none of ours right.
LEMMA HandKeeps ==
  ASSUME TypeOK, Hand
  PROVE  /\ TypeOK' /\ UNCHANGED <<holder, pc, todo>>
         /\ \A a \in Agents : Right(a)' => Right(a)
<1>1. PICK s \in Services : Disturb(s) \/ TakeName(s)
  BY DEF Hand
<1>2. CASE Disturb(s)
  <2>1. running[s] \in Container
    BY <1>2 DEF Disturb, TypeOK, Runtime
  <2>2. PICK c \in Container \cup {Gone} :
          /\ running' = [running EXCEPT ![s] = c]
          /\ c # Gone /\ c.up => running[s].up /\ c.def = running[s].def
    <3>1. CASE running' = [running EXCEPT ![s] = Gone]
      BY <3>1
    <3>2. ASSUME NEW c \in Container, running' = [running EXCEPT ![s] = c],
                 c.up => running[s].up /\ c.def = running[s].def
          PROVE  \E x \in Container \cup {Gone} :
                   /\ running' = [running EXCEPT ![s] = x]
                   /\ x # Gone /\ x.up => running[s].up /\ x.def = running[s].def
      BY <3>2
    <3>3. /\ [running[s] EXCEPT !.up = FALSE] \in Container
          /\ ~[running[s] EXCEPT !.up = FALSE].up
          /\ \A b \in BOOLEAN : /\ [running[s] EXCEPT !.sick = b] \in Container
                                /\ [running[s] EXCEPT !.sick = b].up = running[s].up
                                /\ [running[s] EXCEPT !.sick = b].def = running[s].def
      BY <2>1 DEF Container
    <3>4. \/ running' = [running EXCEPT ![s] = Gone]
          \/ running' = [running EXCEPT ![s] = [running[s] EXCEPT !.up = FALSE]]
          \/ \E b \in BOOLEAN : running' = [running EXCEPT ![s] = [running[s] EXCEPT !.sick = b]]
      BY <1>2 DEF Disturb, TypeOK, Runtime
    <3> QED BY <3>1, <3>2, <3>3, <3>4
  <2>3. running' \in Runtime /\ \A t \in Services \ {s} : running'[t] = running[t]
    BY <2>2 DEF TypeOK, Runtime
  <2>4. faults' \in 0..MaxFaults
    BY <1>2, FaultType DEF Disturb, TypeOK
  <2>5. TypeOK'
    BY <1>2, <2>3, <2>4 DEF Disturb, locals, memory, TypeOK
  <2>6. ASSUME NEW a \in Agents, Right(a)' PROVE Right(a)
    <3>1. running'[s] = c
      BY <2>2 DEF TypeOK, Runtime
    <3>2. running[s] # Gone /\ labelled' = labelled /\ Name[a] \in Services
      BY <1>2, SightType DEF Disturb
    <3>3. CASE Name[a] = s
      BY <2>2, <2>6, <3>1, <3>2, <3>3 DEF Right
    <3>4. CASE Name[a] # s
      BY <2>3, <2>6, <3>2, <3>4 DEF Right
    <3> QED BY <3>3, <3>4
  <2> QED BY <1>2, <2>5, <2>6 DEF Disturb, locals
<1>3. CASE TakeName(s)
  <2>1. PICK d \in Definition : running' = [running EXCEPT ![s] = Running(d, FALSE)]
    BY <1>3 DEF TakeName
  <2>2. Running(d, FALSE) \in Container
    BY DEF Running, Container
  <2>3. running' \in Runtime /\ \A t \in Services \ {s} : running'[t] = running[t]
    BY <2>1, <2>2 DEF TypeOK, Runtime
  <2>4. faults' \in 0..MaxFaults /\ labelled' = labelled \ {s}
    BY <1>3, FaultType DEF TakeName
  <2>5. TypeOK'
    BY <1>3, <2>3, <2>4 DEF TakeName, locals, memory, TypeOK
  <2>6. ASSUME NEW a \in Agents, Right(a)' PROVE Right(a)
    BY <2>3, <2>4, <2>6, SightType DEF Right
  <2> QED BY <1>3, <2>5, <2>6 DEF TakeName, locals
<1> QED BY <1>1, <1>2, <1>3
-----------------------------------------------------------------------------
(* The theorems. *)

THEOREM StepHeldInv == HeldInv /\ [Next]_vars => HeldInv'
<1> SUFFICES ASSUME HeldInv, [Next]_vars PROVE HeldInv'
  OBVIOUS
<1>1. ASSUME NEW a \in Agents, Acts(a) PROVE HeldInv'
  <2>1. TypeOK' /\ Held(a)' /\ Apart(a)
    BY <1>1, ActsKeep
  <2>2. ASSUME NEW b \in Agents \ {a} PROVE Held(b)'
    <3>1. pc'[b] # "rest" => holder[Def[b].image] = b
      BY <2>1 DEF Apart, HeldInv, Held
    <3>2. Def[b].image \in Images /\ b # None
      BY SightType, ImageAssumption DEF HeldInv
    <3> QED BY <2>1, <3>1, <3>2 DEF Apart, Held
  <2> QED BY <2>1, <2>2 DEF HeldInv
<1>2. CASE Hand
  BY <1>2, HandKeeps DEF HeldInv, Held
<1>3. CASE UNCHANGED vars
  BY <1>3 DEF vars, engine, locals, memory, HeldInv, TypeOK, Held
<1> QED BY <1>1, <1>2, <1>3 DEF Next, Acts, Hand

\* Two cycles at once are of different images, for which the lock is.
LEMMA ImagesApart ==
  ASSUME HeldInv, NEW a \in Agents, NEW b \in Agents \ {a},
         pc[a] # "rest", pc[b] # "rest"
  PROVE  Def[a].image # Def[b].image
BY DEF HeldInv, Held

THEOREM StepImageInv == ImageInv /\ [Next]_vars => ImageInv'
<1> SUFFICES ASSUME ImageInv, [Next]_vars PROVE ImageInv'
  OBVIOUS
<1>1. HeldInv' /\ HeldInv /\ TypeOK
  BY StepHeldInv DEF ImageInv, HeldInv
<1>2. ASSUME NEW a \in Agents, Acts(a), NEW b \in Agents PROVE Wrong(b)'
  <2>1. Apart(a) /\ Does(a)
    BY <1>1, <1>2, ActsKeep
  <2> SUFFICES ASSUME pc'[b] = "apply", OfKind(todo'[b], Ups) # {} PROVE ~Right(b)'
    BY DEF Wrong
  <2>2. ASSUME UNCHANGED engine, ~Right(b) PROVE ~Right(b)'
    BY <2>2 DEF Right, engine
  <2>3. CASE b = a
    BY <2>1, <2>2, <2>3 DEF Does, ImageInv, Wrong
  <2>4. CASE b # a
    <3>1. pc[b] = "apply" /\ ~Right(b)
      BY <2>1, <2>4 DEF Apart, ImageInv, Wrong
    <3>2. CASE Touches(a)
      <4>1. Def[a] # Def[b] /\ {Name[a], Name[b]} \subseteq Services
        BY <1>1, <2>4, <3>1, <3>2, ImagesApart, SightType DEF Touches
      <4>2. CASE Name[b] # Name[a]
        BY <3>1, <3>2, <4>1, <4>2 DEF Touches, Right
      <4>3. CASE Name[b] = Name[a]
        BY <3>2, <4>1, <4>3 DEF Touches, Right
      <4> QED BY <4>2, <4>3
    <3> QED BY <2>1, <2>2, <3>1, <3>2 DEF Does
  <2> QED BY <2>3, <2>4
<1>3. ASSUME Hand, NEW b \in Agents PROVE Wrong(b)'
  BY <1>1, <1>3, HandKeeps DEF ImageInv, Wrong
<1>4. ASSUME UNCHANGED vars, NEW b \in Agents PROVE Wrong(b)'
  BY <1>4 DEF vars, engine, locals, ImageInv, Wrong, Right
<1> QED BY <1>1, <1>2, <1>3, <1>4 DEF ImageInv, Next, Acts, Hand

\* The types; and whatever fails, a lock is held by a cycle that is under way
\* and not by what one left behind.
THEOREM Typing == Spec => []TypeOK
<1>1. Spec => []HeldInv
  BY InitImageInv, StepHeldInv, PTL DEF Spec, ImageInv
<1>2. HeldInv => TypeOK
  BY DEF HeldInv
<1> QED BY <1>1, <1>2, PTL

\* The lock of the image keeps two cycles of one image from between the
\* commands of one container.
THEOREM OneAtATime == Spec => []OneReplacer
<1>1. Spec => []HeldInv
  BY InitImageInv, StepHeldInv, PTL DEF Spec, ImageInv
<1>2. HeldInv => OneReplacer
  BY ImagesApart DEF OneReplacer, Replacing
<1> QED BY <1>1, <1>2, PTL

\* The step between the commands is "docker rm -f".
LEMMA OnlyRemovalRuns ==
  ASSUME HeldInv, NEW b \in Agents, Acts(b), NEW a \in Agents, pc[a] = "apply", pc'[a] = "run"
  PROVE  OfKind(todo[a], Ups) # {}
<1>1. TypeOK /\ Apart(b)
  BY ActsKeep DEF HeldInv
<1>2. a = b
  BY <1>1 DEF Apart
<1>3. ~Lock(b) /\ pc[b] = "apply" /\ pc'[b] = "run"
  BY <1>2 DEF Lock
<1>4. ~CommandFails(b) /\ ~ReadFails(b) /\ ~Crash(b)
  <2>1. ~CommandFails(b)
    BY <1>1, <1>3 DEF CommandFails, ApplyError, Return, Goto, TypeOK
  <2>2. ~ReadFails(b) /\ ~Crash(b)
    BY <1>1, <1>3 DEF ReadFails, Crash, Return, Goto, TypeOK
  <2> QED BY <2>1, <2>2
<1>5. Pull(b) \/ RemoveOld(b)
  BY <1>3, <1>4 DEF Acts, Step, Fetch, Plan, Restore, RepairPlan, Run, RunConflicts, Verify,
     CompareDeployed, Close, RecordFailed, RecordRollBack, DriftHealth, DriftCompare, Repaired
<1>6. ~Pull(b)
  BY <1>1, <1>3, AppliedGoes DEF Pull, Goto, TypeOK
<1> QED BY <1>1, <1>2, <1>5, <1>6, NextIsTodo DEF RemoveOld

\* No container that is up as declared is ever taken down: what the plan found
\* wrong is still wrong when "docker rm -f" runs.  A process whose file has the
\* same image is kept out by the lock; one whose file has another may come in
\* between, and leaves behind a container that is wrong as well.
THEOREM RightStays == Spec => RightIsLeftAlone
<1>1. ASSUME ImageInv, [Next]_vars
      PROVE  [\A a \in Agents : pc[a] = "apply" /\ pc'[a] = "run" => ~Right(a)]_vars
  <2>1. ASSUME NEW b \in Agents, Acts(b), NEW a \in Agents, pc[a] = "apply", pc'[a] = "run"
        PROVE  ~Right(a)
    BY <1>1, <2>1, OnlyRemovalRuns DEF ImageInv, Wrong
  <2>2. CASE Hand
    BY <1>1, <2>2, HandKeeps DEF ImageInv, HeldInv
  <2> QED BY <1>1, <2>1, <2>2 DEF Next, Acts, Hand
<1>2. ImageInv /\ [Next]_vars => ImageInv'
  BY StepImageInv
<1>3. Spec => []ImageInv
  BY InitImageInv, <1>2, PTL DEF Spec
<1> QED BY <1>1, <1>3, PTL DEF Spec, RightIsLeftAlone
-----------------------------------------------------------------------------
(****************************************************************************)
(* The cycle goes forward, and no place of it is a dead end: the safety     *)
(* half of "a cycle ends".  A plan is applied at up to three places of a    *)
(* cycle, told apart by what it is for.                                     *)
(****************************************************************************)

Course ==
  [fetch |-> 0, plan |-> 1, health |-> 2, drift |-> 3, verify |-> 4, compare |-> 5,
   close |-> 6, failed |-> 7, restore |-> 8, rolledback |-> 11, repair |-> 12, repaired |-> 15]
ApplyFor == [deploy |-> 2, rollback |-> 9, repair |-> 13]

Reached(place, purpose) ==
  CASE place = "apply" -> ApplyFor[purpose]
    [] place = "run"   -> ApplyFor[purpose] + 1
    [] OTHER           -> Course[place]

\* Further along, or at the same place with less to do.
Onward(a) ==
  \/ Reached(pc[a], mode[a]) < Reached(pc'[a], mode'[a])
  \/ UNCHANGED <<pc, mode>> /\ todo'[a] \subseteq todo[a] /\ todo'[a] # todo[a]

\* Close: the last fetch has found another commit, and spends a fault.
AnotherCommit(a) == pc[a] = "close" /\ pc'[a] = "plan" /\ faults' = faults + 1

GoesOn(a) == pc'[a] = "rest" \/ Onward(a) \/ AnotherCommit(a)

\* Where a step that applies nothing leads, a cycle that goes on.
NextPlace(x) ==
  CASE x = "fetch"   -> {"health", "plan"}
    [] x = "verify"  -> {"failed", "compare"}
    [] x = "compare" -> {"close", "repair"}
    [] x = "failed"  -> {"restore"}
    [] x = "health"  -> {"drift"}
    [] x = "drift"   -> {"repair"}
    [] OTHER         -> {}

LEMMA CourseOrder ==
  ASSUME NEW x \in Labels, NEW y \in NextPlace(x), NEW m, NEW n
  PROVE  Reached(x, m) < Reached(y, n)
BY DEF NextPlace, Reached, Course, Labels

\* What follows Apply comes after it, and so does the failed receipt.
LEMMA AfterApply ==
  ASSUME TypeOK, NEW a \in Agents, pc[a] \in {"apply", "run"}, UNCHANGED mode
  PROVE  /\ Applied(a) => Onward(a)
         /\ ApplyError(a) => pc'[a] = "rest" \/ Onward(a)
<1>1. mode[a] \in {"deploy", "rollback", "repair"} /\ pc \in [Agents -> Labels]
  BY DEF TypeOK
<1>2. CASE mode[a] = "deploy"
  BY <1>1, <1>2 DEF Applied, ApplyError, Return, Goto, Onward, Reached, Course, ApplyFor
<1>3. CASE mode[a] = "rollback"
  BY <1>1, <1>3 DEF Applied, ApplyError, Return, Goto, Onward, Reached, Course, ApplyFor
<1>4. CASE mode[a] = "repair"
  BY <1>1, <1>4 DEF Applied, ApplyError, Return, Goto, Onward, Reached, Course, ApplyFor
<1> QED BY <1>1, <1>2, <1>3, <1>4

\* A plan is applied after it is made, and what follows it comes after it.
LEMMA AfterPlan ==
  ASSUME TypeOK, NEW a \in Agents, Plan(a) \/ Restore(a) \/ RepairPlan(a)
  PROVE  Onward(a)
<1>0. pc \in [Agents -> Labels] /\ mode \in [Agents -> {"deploy", "rollback", "repair"}]
  BY DEF TypeOK
<1>1. CASE Plan(a)
  <2>1. pc[a] = "plan" /\ mode'[a] = "deploy" /\ pc'[a] \in {"apply", "verify"}
    BY <1>0, <1>1 DEF Plan, Prepare, Goto
  <2> QED BY <2>1 DEF Onward, Reached, Course, ApplyFor
<1>2. CASE Restore(a)
  <2>1. pc[a] = "restore" /\ mode'[a] = "rollback" /\ pc'[a] \in {"apply", "rolledback"}
    BY <1>0, <1>2 DEF Restore, Prepare, Goto
  <2> QED BY <2>1 DEF Onward, Reached, Course, ApplyFor
<1>3. CASE RepairPlan(a)
  <2>1. pc[a] = "repair" /\ mode'[a] = "repair" /\ pc'[a] \in {"apply", "repaired"}
    BY <1>0, <1>3 DEF RepairPlan, Prepare, Goto
  <2> QED BY <2>1 DEF Onward, Reached, Course, ApplyFor
<1> QED BY <1>1, <1>2, <1>3

LEMMA ApplyOnward ==
  ASSUME TypeOK, NEW a \in Agents,
         Pull(a) \/ RemoveOld(a) \/ Run(a) \/ RunConflicts(a) \/ CommandFails(a)
  PROVE  GoesOn(a)
<1>0. pc \in [Agents -> Labels] /\ mode[a] \in {"deploy", "rollback", "repair"}
  BY DEF TypeOK
<1>1. CASE Pull(a)
  <2>1. /\ pc[a] = "apply" /\ UNCHANGED mode
        /\ todo'[a] = todo[a] \ Next1(a, {"pull"}) /\ Next1(a, {"pull"}) # {}
        /\ Applied(a) \/ UNCHANGED pc
    BY <1>1 DEF Pull, TypeOK
  <2>2. todo'[a] \subseteq todo[a] /\ todo'[a] # todo[a]
    BY <2>1, NextIsTodo DEF OfKind
  <2> QED BY <2>1, <2>2, AfterApply DEF GoesOn, Onward
<1>2. CASE RemoveOld(a)
  <2>1. pc[a] = "apply" /\ pc'[a] = "run" /\ mode' = mode
    BY <1>0, <1>2 DEF RemoveOld, Goto, locals
  <2> QED BY <1>0, <2>1 DEF GoesOn, Onward, Reached, ApplyFor
<1>3. CASE Run(a)
  BY <1>3, AfterApply DEF Run, GoesOn
<1>4. CASE RunConflicts(a) \/ CommandFails(a)
  <2>1. pc[a] \in {"apply", "run"} /\ ApplyError(a) /\ UNCHANGED mode
    BY <1>4 DEF RunConflicts, CommandFails, ApplyError
  <2> QED BY <2>1, AfterApply DEF GoesOn
<1> QED BY <1>1, <1>2, <1>3, <1>4

LEMMA OwnStepGoesOn ==
  ASSUME TypeOK, NEW a \in Agents, Step(a) \/ CommandFails(a) \/ ReadFails(a) \/ Crash(a)
  PROVE  GoesOn(a)
<1> DEFINE Goes == pc'[a] = "rest" \/ pc'[a] \in NextPlace(pc[a])
<1>0. ASSUME Goes PROVE GoesOn(a)
  BY <1>0, CourseOrder DEF TypeOK, GoesOn, Onward
<1>1. ASSUME Fetch(a) \/ Verify(a) \/ DriftHealth(a) PROVE Goes
  BY <1>1 DEF TypeOK, Fetch, Verify, DriftHealth, Goto, NextPlace
<1>2. ASSUME CompareDeployed(a) \/ DriftCompare(a) PROVE Goes
  BY <1>2 DEF TypeOK, CompareDeployed, DriftCompare, Return, Goto, NextPlace
<1>3. ASSUME RecordFailed(a) \/ RecordRollBack(a) \/ Repaired(a) PROVE Goes
  BY <1>3 DEF TypeOK, RecordFailed, RecordRollBack, Repaired, Return, Goto, NextPlace
<1>4. ASSUME ReadFails(a) \/ Crash(a) PROVE Goes
  BY <1>4 DEF TypeOK, ReadFails, Crash, Return, Goto, NextPlace
<1>5. ASSUME Close(a) PROVE GoesOn(a)
  BY <1>5 DEF TypeOK, Close, Fault, Return, Goto, GoesOn, AnotherCommit
<1> HIDE DEF Goes
<1> QED BY <1>0, <1>1, <1>2, <1>3, <1>4, <1>5, AfterPlan, ApplyOnward DEF Step, GoesOn

\* Reconcile over the image driver: every step of a cycle, a failed one too,
\* ends it or takes it on, and the one way back is a commit that has arrived
\* since.  A cycle cannot deploy, roll back or repair twice, nor in another
\* order.
THEOREM ImageCycleIsForward ==
  Spec => [][\A a \in Agents : Step(a) \/ CommandFails(a) \/ ReadFails(a) \/ Crash(a)
                                 => GoesOn(a)]_vars
<1>1. TypeOK /\ [Next]_vars =>
        [\A a \in Agents : Step(a) \/ CommandFails(a) \/ ReadFails(a) \/ Crash(a)
                             => GoesOn(a)]_vars
  BY OwnStepGoesOn
<1> QED BY <1>1, Typing, PTL DEF Spec
-----------------------------------------------------------------------------
(* No place of the cycle is a dead end. *)

\* What this driver's plans are made of: pulls of the image and one way or
\* another of bringing the container up.  They remove nothing.
Own(a) == [kind : {"pull"} \cup Ups, service : {Name[a]}]

\* A plan that is being applied has something left to do.
Doable(a) == todo[a] \subseteq Own(a) /\ (pc[a] = "apply" => todo[a] # {})

DoableInv == HeldInv /\ \A a \in Agents : Doable(a)

LEMMA PlansAreOwn ==
  ASSUME TypeOK, NEW a \in Agents, NEW base \in {Desired(a), NoServices},
         NEW plan \in Plans(Desired(a), base, Current(a))
  PROVE  plan \subseteq Own(a)
<1> DEFINE m == Desired(a)
           rt == Current(a)
           drift == DriftActions(m, base, rt)
<1>1. Declared(m) \subseteq {Name[a]} /\ Present(rt) \subseteq {Name[a]}
  BY DEF Declared, Present, Desired, Current
<1>2. Name[a] \in Declared(m)
  <2>1. Name[a] \in Services /\ Def[a] \in Definition
    BY SightType
  <2>2. m[Name[a]] = Def[a]
    BY <2>1 DEF Desired
  <2>3. Def[a] # Undeclared
    BY <2>1, ImageAssumption
  <2> QED BY <2>1, <2>2, <2>3 DEF Declared
<1> HIDE DEF m, rt
<1>3. drift \subseteq Own(a)
  <2>1. Created(m, base, rt) \subseteq {Name[a]} /\ Recreated(m, base, rt) \subseteq {Name[a]}
        /\ Started(m, base, rt) \subseteq {Name[a]} /\ Removed(m, rt) = {}
    BY <1>1, <1>2 DEF Created, Recreated, Started, Removed, Common
  <2> QED BY <2>1 DEF DriftActions, Tagged, Own, Ups
<1> HIDE DEF drift
<1>4. PICK pulled \in PullSets(m, drift) : plan = Tagged("pull", pulled) \cup drift
  BY DEF Plans, m, rt, drift
<1>5. pulled \subseteq {Name[a]}
  BY <1>1, <1>3, PullPolicyAssumption DEF PullPolicies, PullSets, Own
<1> QED BY <1>3, <1>4, <1>5 DEF Tagged, Own

LEMMA OwnDoable ==
  ASSUME TypeOK, NEW a \in Agents, Acts(a), Doable(a)
  PROVE  Doable(a)'
<1>0. pc \in [Agents -> Labels] /\ todo \in [Agents -> SUBSET Action]
  BY DEF TypeOK
<1>1. CASE Plan(a) \/ Restore(a) \/ RepairPlan(a)
  <2>1. \E purpose \in {"deploy", "rollback", "repair"}, base \in {Desired(a), NoServices} :
           Prepare(a, purpose, base)
    BY <1>1 DEF Plan, Restore, RepairPlan, Previous
  <2>2. PICK purpose \in {"deploy", "rollback", "repair"}, base \in {Desired(a), NoServices} :
          Prepare(a, purpose, base)
    BY <2>1
  <2>3. PICK plan \in Plans(Desired(a), base, Current(a)) :
          /\ todo' = [todo EXCEPT ![a] = plan]
          /\ Goto(a, IF Changed(plan) THEN "apply" ELSE
                     CASE purpose = "deploy"   -> "verify"
                       [] purpose = "rollback" -> "rolledback"
                       [] purpose = "repair"   -> "repaired")
    BY <2>2 DEF Prepare
  <2>4. todo'[a] = plan /\ plan \subseteq Own(a)
    BY <1>0, <2>3, PlansAreOwn
  <2>5. pc'[a] = "apply" => plan # {}
    BY <1>0, <2>3 DEF Goto, Changed
  <2> QED BY <2>4, <2>5 DEF Doable, Own
<1>2. CASE Pull(a)
  <2>1. todo'[a] = todo[a] \ Next1(a, {"pull"})
    BY <1>0, <1>2 DEF Pull
  <2>2. pc[a] = "apply" /\ (todo'[a] = {} => pc'[a] # "apply")
    BY <1>0, <1>2, AppliedGoes DEF Pull, Goto
  <2> QED BY <2>1, <2>2 DEF Doable, Own
<1>3. CASE Run(a) \/ RunConflicts(a) \/ CommandFails(a) \/ Crash(a)
  <2>1. todo'[a] = {}
    BY <1>0, <1>3 DEF Run, RunConflicts, CommandFails, ApplyError, Crash
  <2>2. pc'[a] # "apply"
    <3>1. CASE Run(a)
      BY <1>0, <3>1, AppliedGoes DEF Run, Goto
    <3>2. CASE RunConflicts(a) \/ CommandFails(a)
      BY <1>0, <3>2 DEF RunConflicts, CommandFails, ApplyError, Return, Goto
    <3>3. CASE Crash(a)
      BY <1>0, <3>3 DEF Crash, Return, Goto
    <3> QED BY <1>3, <3>1, <3>2, <3>3
  <2> QED BY <2>1, <2>2 DEF Doable
<1>4. CASE Lock(a) \/ Fetch(a) \/ RemoveOld(a) \/ Verify(a) \/ CompareDeployed(a) \/ Close(a)
             \/ RecordFailed(a) \/ RecordRollBack(a) \/ DriftHealth(a) \/ DriftCompare(a)
             \/ Repaired(a) \/ ReadFails(a)
  <2>1. UNCHANGED todo
    BY <1>4 DEF Lock, Fetch, RemoveOld, Verify, CompareDeployed, Close, RecordFailed,
       RecordRollBack, DriftHealth, DriftCompare, Repaired, ReadFails, locals
  <2>2. pc'[a] # "apply"
    <3>1. CASE Lock(a) \/ Fetch(a) \/ RemoveOld(a) \/ Verify(a) \/ DriftHealth(a)
      BY <1>0, <3>1 DEF Lock, Fetch, RemoveOld, Verify, DriftHealth, Goto
    <3>2. CASE CompareDeployed(a) \/ Close(a) \/ ReadFails(a)
      BY <1>0, <3>2 DEF CompareDeployed, Close, ReadFails, Return, Goto
    <3>3. CASE RecordFailed(a) \/ RecordRollBack(a) \/ DriftCompare(a) \/ Repaired(a)
      BY <1>0, <3>3 DEF RecordFailed, RecordRollBack, DriftCompare, Repaired, Return, Goto
    <3> QED BY <1>4, <3>1, <3>2, <3>3
  <2> QED BY <2>1, <2>2 DEF Doable, Own
<1> QED BY <1>1, <1>2, <1>3, <1>4 DEF Acts, Step

THEOREM StepDoableInv == DoableInv /\ [Next]_vars => DoableInv'
<1> SUFFICES ASSUME DoableInv, [Next]_vars PROVE DoableInv'
  OBVIOUS
<1>1. HeldInv' /\ TypeOK
  BY StepHeldInv DEF DoableInv, HeldInv
<1>2. ASSUME NEW a \in Agents, Acts(a), NEW b \in Agents PROVE Doable(b)'
  <2>1. CASE b = a
    BY <1>1, <1>2, <2>1, OwnDoable DEF DoableInv
  <2>2. CASE b # a
    BY <1>2, <2>2, ActsKeep DEF DoableInv, Apart, Doable, Own
  <2> QED BY <2>1, <2>2
<1>3. CASE Hand
  BY <1>1, <1>3, HandKeeps DEF DoableInv, Doable, Own
<1>4. CASE UNCHANGED vars
  <2>1. UNCHANGED <<pc, todo>>
    BY <1>4 DEF vars, locals
  <2> QED BY <1>1, <2>1 DEF DoableInv, Doable, Own
<1> QED BY <1>1, <1>2, <1>3, <1>4 DEF DoableInv, Next, Acts, Hand

\* What the next step of a cycle has to find where the cycle is; the places
\* that are not named need nothing.
CanGoOn(a) ==
  /\ pc[a] = "apply" => Next1(a, {"pull"}) # {} \/ Next1(a, Ups) # {}
  /\ \A base \in {Desired(a), NoServices} : Plans(Desired(a), base, Current(a)) # {}
  /\ Verdict(a) \in {"SYNCED", "DRIFTED"}

LEMMA CanGoOnAlways ==
  ASSUME DoableInv, NEW a \in Agents
  PROVE  CanGoOn(a)
<1>1. ASSUME pc[a] = "apply" PROVE Next1(a, {"pull"}) # {} \/ Next1(a, Ups) # {}
  <2>1. PICK x \in todo[a] : x.kind \in {"pull"} \cup Ups
    BY <1>1 DEF DoableInv, Doable, Own
  <2>2. CASE OfKind(todo[a], {"pull"}) # {}
    <3>1. PICK y \in OfKind(todo[a], {"pull"}) : TRUE
      BY <2>2
    <3>2. {y} \in Due(todo[a])
      BY <2>2, <3>1 DEF Due
    <3> QED BY <3>1, <3>2 DEF Next1, OfKind
  <2>3. CASE OfKind(todo[a], {"pull"}) = {}
    <3>1. x \in OfKind(todo[a], Ups)
      BY <2>1, <2>3 DEF OfKind
    <3>2. {x} \in Due(todo[a])
      BY <2>3, <3>1 DEF Due
    <3> QED BY <3>1, <3>2 DEF Next1, OfKind
  <2> QED BY <2>2, <2>3
<1>2. ASSUME NEW m, NEW base, NEW rt PROVE Plans(m, base, rt) # {}
  <2> DEFINE drift == DriftActions(m, base, rt)
  <2>1. PullSets(m, drift) # {}
    <3>1. CASE PullPolicy = "never"
      <4>1. PullSets(m, drift) = {{}}
        BY <3>1 DEF PullSets
      <4> QED BY <4>1
    <3>2. CASE PullPolicy = "always"
      BY <3>2 DEF PullSets
    <3>3. CASE PullPolicy = "changed"
      BY <3>3 DEF PullSets
    <3>4. CASE PullPolicy = "missing"
      <4>1. PullSets(m, drift) =
              {{s \in Declared(m) : m[s].image \notin local} : local \in SUBSET Images}
        BY <3>4 DEF PullSets
      <4>2. {} \in SUBSET Images
        OBVIOUS
      <4> QED BY <4>1, <4>2
    <3> QED BY <3>1, <3>2, <3>3, <3>4, PullPolicyAssumption DEF PullPolicies
  <2> QED BY <2>1 DEF Plans
<1>3. Verdict(a) \in {"SYNCED", "DRIFTED"}
  <2>1. OutOfSync(State(a), State(a), Current(a)) = {}
    BY DEF OutOfSync, State
  <2> QED BY <2>1 DEF Verdict, Compare
<1> QED BY <1>1, <1>2, <1>3 DEF CanGoOn

\* No place of a cycle is a dead end: whatever became of the container, every
\* plan exists, one that is applied has a command left to run, and the
\* comparison has one of the two answers the code looks for.
THEOREM ImageCycleIsNeverStuck == Spec => [](\A a \in Agents : CanGoOn(a))
<1>1. Init => DoableInv
  BY InitImageInv DEF Init, ImageInv, DoableInv, Doable
<1>2. DoableInv => \A a \in Agents : CanGoOn(a)
  BY CanGoOnAlways
<1> QED BY <1>1, <1>2, StepDoableInv, PTL DEF Spec

\* Current lists by label and name, so that a plan of this driver is about its
\* own container and never has a removal: the case of applyAction for one is
\* not reached, and the model has none.
THEOREM ImagePlansAreOwn == Spec => [](\A a \in Agents : todo[a] \subseteq Own(a))
<1>1. Init => DoableInv
  BY InitImageInv DEF Init, ImageInv, DoableInv, Doable
<1>2. DoableInv => \A a \in Agents : todo[a] \subseteq Own(a)
  BY DEF DoableInv, Doable
<1> QED BY <1>1, <1>2, StepDoableInv, PTL DEF Spec

===============================================================================
