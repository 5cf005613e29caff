------------------------------ MODULE Manifests ------------------------------
(****************************************************************************)
(* The three states Accorda compares, and the two pure functions it         *)
(* compares them with: plan.DriftActions (what must be done to the target)  *)
(* and state.Compare (whether Git, the record and the runtime agree).       *)
(*                                                                          *)
(* A service definition keeps the image, which the runtime reports, apart   *)
(* from the rest of the configuration (command, env, ports, ...), which the *)
(* runtime does not report: state.RuntimeService has no field for it.  The  *)
(* canonical hash of a definition covers both, so two definitions have one  *)
(* hash exactly when they are equal.                                        *)
(****************************************************************************)
EXTENDS Naturals

CONSTANTS
  Services,    \* names a Compose file may declare
  Images,      \* image references
  Configs,     \* everything in a service definition that is not the image
  Undeclared,  \* in a manifest: the service is not in the Compose file
  Gone,        \* in a runtime: the service has no container
  None,        \* nil: no commit, no receipt, no deployment
  PullPolicy   \* images.pull of accorda.yaml

PullPolicies == {"changed", "missing", "always", "never"}

ASSUME PullPolicyAssumption == PullPolicy \in PullPolicies

Definition == [image : Images, config : Configs]
Manifest   == [Services -> Definition \cup {Undeclared}]
Container  == [def : Definition, up : BOOLEAN, sick : BOOLEAN]
Runtime    == [Services -> Container \cup {Gone}]

Declared(m) == {s \in Services : m[s] # Undeclared}
Present(rt) == {s \in Services : rt[s] # Gone}

NoServices == [s \in Services |-> Undeclared]   \* a nil DeployedState
-----------------------------------------------------------------------------
(****************************************************************************)
(* plan.DriftActions.  A plan is the set of its actions that are not noops; *)
(* a noop touches nothing and Plan.Changed ignores it.                      *)
(****************************************************************************)
Kinds  == {"pull", "create", "recreate", "start", "remove"}
Action == [kind : Kinds, service : Services]

Tagged(kind, svcs) == [kind : {kind}, service : svcs]

Common(desired, rt) == Declared(desired) \cap Present(rt)

Created(desired, deployed, rt) ==
  Declared(desired) \ (Present(rt) \cup Declared(deployed))

\* Mutant: a service is recreated for its image only.
RecreatedByImage(desired, deployed, rt) ==
  {s \in Common(desired, rt) : rt[s].def.image # desired[s].image}

Recreated(desired, deployed, rt) ==
  {s \in Common(desired, rt) :
     \/ rt[s].def.image # desired[s].image
     \/ s \in Declared(deployed) /\ deployed[s] # desired[s]}

\* Mutant: a container that exists counts as running.
StartedIfGone(desired, deployed, rt) ==
  (Declared(desired) \cap Declared(deployed)) \ Present(rt)

Started(desired, deployed, rt) ==
  ((Declared(desired) \cap Declared(deployed)) \ Present(rt))
    \cup {s \in Common(desired, rt) \ Recreated(desired, deployed, rt) : ~rt[s].up}

Removed(desired, rt) == Present(rt) \ Declared(desired)

DriftActions(desired, deployed, rt) ==
  Tagged("create", Created(desired, deployed, rt))
    \cup Tagged("recreate", Recreated(desired, deployed, rt))
    \cup Tagged("start", Started(desired, deployed, rt))
    \cup Tagged("remove", Removed(desired, rt))

\* docker.SelectPulls: the services whose image is pulled first.  Which images
\* the engine already holds is not tracked, so "missing" may select any set
\* that depends on the image alone.
PullSets(desired, drift) ==
  CASE PullPolicy = "never"   -> {{}}
    [] PullPolicy = "always"  -> {Declared(desired)}
    [] PullPolicy = "changed" -> {{x.service : x \in {y \in drift : y.kind \in {"create", "recreate"}}}}
    [] PullPolicy = "missing" -> {{s \in Declared(desired) : desired[s].image \notin local} :
                                     local \in SUBSET Images}

\* Target.Plan: the plans it may return for this runtime.
Plans(desired, deployed, rt) ==
  LET drift == DriftActions(desired, deployed, rt)
  IN  {Tagged("pull", pulled) \cup drift : pulled \in PullSets(desired, drift)}

Changed(plan) == plan # {}
-----------------------------------------------------------------------------
(****************************************************************************)
(* Target.Apply, one docker compose command at a time: pulls first, then    *)
(* one "up -d <service>" per service in name order (names are abstract, so  *)
(* any order stands for it), then one "up -d --remove-orphans" for all the  *)
(* removals together.                                                       *)
(****************************************************************************)
OfKind(todo, kinds) == {x \in todo : x.kind \in kinds}

Ups == {"create", "recreate", "start"}

\* The commands that may run next, each with the actions it completes.
Due(todo) ==
  IF OfKind(todo, {"pull"}) # {} THEN {{x} : x \in OfKind(todo, {"pull"})}
  ELSE IF OfKind(todo, Ups) # {} THEN {{x} : x \in OfKind(todo, Ups)}
  ELSE {todo}

Running(def, sick) == [def |-> def, up |-> TRUE, sick |-> sick]

\* What Docker Compose may leave behind: a brought-up container has the
\* definition in the file and is healthy or not; --remove-orphans also brings
\* every declared service to the file, because the deploy file stamps a fresh
\* deployment label on all of them.
Outcomes(command, m, rt) ==
  LET raised == {x.service : x \in OfKind(command, Ups)}
      purge  == OfKind(command, {"remove"}) # {}
      touched == IF purge THEN Declared(m) ELSE raised
  IN  {[s \in Services |->
          IF s \in touched THEN Running(m[s], s \in sick)
          ELSE IF purge THEN Gone ELSE rt[s]] : sick \in SUBSET touched}

Sick(rt) == {s \in Present(rt) : rt[s].sick}
-----------------------------------------------------------------------------
(****************************************************************************)
(* state.Compare.  desired and deployed are [commit, services] records.     *)
(****************************************************************************)
OutOfSync(desired, deployed, rt) ==
  LET d == Declared(desired.services)
      p == Declared(deployed.services)
      behind == /\ None \notin {desired.commit, deployed.commit}
                /\ desired.commit # deployed.commit
  IN  {s \in Services : \/ s \in d /\ behind
                        \/ s \in d \ p
                        \/ s \in (p \ d) \cap Present(rt)
                        \/ s \in d \cap p /\ desired.services[s] # deployed.services[s]}

Drifted(desired, deployed, rt) ==
  LET d == Declared(desired.services)
      off(s) == \/ rt[s] = Gone
                \/ ~rt[s].up
                \/ rt[s].def.image # desired.services[s].image
  IN  (Present(rt) \ (d \cup Declared(deployed.services)))
        \cup {s \in d \ OutOfSync(desired, deployed, rt) :
                desired.commit = deployed.commit /\ off(s)}

Compare(desired, deployed, rt) ==
  IF OutOfSync(desired, deployed, rt) # {} THEN "OUT_OF_SYNC"
  ELSE IF Drifted(desired, deployed, rt) # {} THEN "DRIFTED"
  ELSE "SYNCED"
=============================================================================
