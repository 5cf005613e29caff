-------------------------------- MODULE Reclaim --------------------------------
(****************************************************************************)
(* Apply of the Compose target (internal/targets/compose) for services that *)
(* declare a container_name.  Such a name is unique on the daemon: before   *)
(* "up", a container that holds it for another Compose project is removed   *)
(* if it is a stale one of Accorda's own, after its volumes were copied to  *)
(* the new project's namespace.  Several projects deploy concurrently, each *)
(* under a lock of its own, and any of them may fail or die anywhere.       *)
(*                                                                          *)
(* A container_name is its service.  A volume is fresh when Compose made it, *)
(* whole when it has the data of the older deployment or of an earlier run,  *)
(* and partial when a copy into it broke.                                    *)
(*                                                                          *)
(* The shell command of the copy, "rm -rf /to/. && cp -a /from/. /to/", works *)
(* only where rm takes a path that ends in ".".  That of the pinned image,   *)
(* busybox:1.36, does not ("can't remove '.' or '..'", exit status 1), so    *)
(* the code as it stands is the world where clears is FALSE: there no volume *)
(* is ever copied and Apply fails on it.  The other world is that of any     *)
(* image or command that does what the comment above it says.                *)
(****************************************************************************)
EXTENDS Naturals

CONSTANTS
  Live,        \* the Compose projects Accorda deploys
  Others,      \* the projects of older deployments and of other tools
  Dir,         \* Dir[p]: the directory of the Compose file of project p
  Services,    \* services with a container_name, the same in every project
  Mounts,      \* Mounts[s]: the named volumes service s mounts
  MaxFaults,   \* bound: how many commands fail, agents die or operators step in
  None

Projects == Live \cup Others
Volumes == UNION {Mounts[s] : s \in Services}

ASSUME ReclaimAssumption ==
  /\ Live \cap Others = {}
  /\ DOMAIN Dir = Projects /\ DOMAIN Mounts = Services
  /\ MaxFaults \in Nat
  /\ None \notin Services /\ None \notin [project : Projects, managed : BOOLEAN]

VARIABLES
  holder,   \* holder[s]: the container that has the name of s, on the daemon
  data,     \* data[p][v]: what volume v of project p holds
  pc,       \* pc[p]: how far the Apply of project p is
  ups,      \* ups[p]: services its plan still has to bring up
  todo,     \* todo[p]: of these, the names not yet looked at for a stale holder
  listed,   \* listed[p]: the names on the daemon as ContainerList told
  reclaim,  \* reclaim[p]: the name being reclaimed
  copies,   \* copies[p]: its volumes still to copy
  clears,   \* whether rm of the migration image takes "/to/."; never changes
  due,      \* history: due[s], the older container whose volumes are to move
  taken,    \* history: names an operator freed while they were being moved
  faults

applyVars == <<pc, ups, todo, listed, reclaim, copies>>
world == <<clears, due, taken>>
vars == <<holder, data, applyVars, world, faults>>

Container == [project : Projects, managed : BOOLEAN]
Contents == {"absent", "fresh", "partial", "whole"}

\* renderDeployCompose stamps the ownership label on every service.
Own(p) == [project |-> p, managed |-> TRUE]

Init ==
  /\ \/ holder \in [Services -> [project : Others, managed : BOOLEAN] \cup {None}]
     \/ \E p \in Live : holder = [s \in Services |-> Own(p)]
  /\ data = [p \in Projects |-> [v \in Volumes |->
       IF \E s \in Services : /\ holder[s] # None
                              /\ holder[s].project = p /\ v \in Mounts[s]
       THEN "whole" ELSE "absent"]]
  /\ pc = [p \in Live |-> "idle"]
  /\ ups = [p \in Live |-> {}] /\ todo = [p \in Live |-> {}]
  /\ listed = [p \in Live |-> [s \in Services |-> None]]
  /\ reclaim = [p \in Live |-> None]
  /\ copies = [p \in Live |-> {}]
  /\ clears \in BOOLEAN
  /\ due = holder /\ taken = {}
  /\ faults = 0
-----------------------------------------------------------------------------
\* DriftActions creates what the project does not run; it may recreate or start
\* what it does.
Runs(p, s) == holder[s] # None /\ holder[s].project = p
Missing(p) == {s \in Services : ~Runs(p, s)}

\* Mutant: a service the project has a container of elsewhere is not looked at.
CreatedOnly(p, plan) == {s \in plan : holder[s] = None}

\* servicesToReclaim: what the plan creates, recreates or starts.
ToReclaim(p, plan) == plan

\* Mutant: no one asks whose container it is.
StaleByDirectory(p, c) == c # None /\ c.project # p /\ Dir[c.project] = Dir[p]

\* A container is stale when it belongs to another project, carries the label
\* and came from a Compose file in the same directory.
Stale(p, c) ==
  /\ c # None
  /\ c.project # p
  /\ c.managed
  /\ Dir[c.project] = Dir[p]

\* Apply is entered with a plan that has something to bring up.
BeginApply(p) ==
  /\ pc[p] = "idle"
  /\ \E plan \in SUBSET Services :
       /\ plan # {} /\ Missing(p) \subseteq plan
       /\ ups' = [ups EXCEPT ![p] = plan]
       /\ todo' = [todo EXCEPT ![p] = ToReclaim(p, plan)]
  /\ pc' = [pc EXCEPT ![p] = "list"]
  /\ UNCHANGED <<holder, data, listed, reclaim, copies, world, faults>>

List(p) ==
  /\ pc[p] = "list"
  /\ listed' = [listed EXCEPT ![p] = holder]
  /\ pc' = [pc EXCEPT ![p] = "look"]
  /\ UNCHANGED <<holder, data, ups, todo, reclaim, copies, world, faults>>

\* The name is free, or its holder is not a stale container of ours.
Leave(p) ==
  /\ pc[p] = "look"
  /\ \E s \in todo[p] :
       /\ ~Stale(p, listed[p][s])
       /\ todo' = [todo EXCEPT ![p] = @ \ {s}]
  /\ UNCHANGED <<holder, data, pc, ups, listed, reclaim, copies, world, faults>>

\* reclaimOne inspects the container it has listed.
Inspect(p) ==
  /\ pc[p] = "look"
  /\ \E s \in todo[p] :
       /\ Stale(p, listed[p][s]) /\ holder[s] = listed[p][s]
       /\ reclaim' = [reclaim EXCEPT ![p] = s]
       /\ copies' = [copies EXCEPT ![p] = Mounts[s]]
  /\ pc' = [pc EXCEPT ![p] = "copy"]
  /\ UNCHANGED <<holder, data, ups, todo, listed, world, faults>>

Source(p) == listed[p][reclaim[p]].project

\* migrateVolumes: one container clears the destination and copies into it.
Copy(p) ==
  /\ pc[p] = "copy" /\ clears
  /\ \E v \in copies[p] :
       /\ data' = [data EXCEPT ![p][v] = data[Source(p)][v]]
       /\ copies' = [copies EXCEPT ![p] = @ \ {v}]
  /\ UNCHANGED <<holder, pc, ups, todo, listed, reclaim, world, faults>>

\* Mutant: the container goes first.
RemoveBefore(p) ==
  /\ pc[p] = "copy" /\ holder[reclaim[p]] # None
  /\ holder' = [holder EXCEPT ![reclaim[p]] = None]
  /\ UNCHANGED <<data, pc, ups, todo, listed, reclaim, copies, world, faults>>

\* "rm -f <name>", once every volume was copied.  It takes whatever container
\* has the name by then: the one that was inspected may be gone, and another
\* project's may have come up under the name.
Remove(p) ==
  /\ pc[p] = "copy" /\ copies[p] = {}
  /\ holder' = [holder EXCEPT ![reclaim[p]] = None]
  /\ todo' = [todo EXCEPT ![p] = @ \ {reclaim[p]}]
  /\ reclaim' = [reclaim EXCEPT ![p] = None]
  /\ pc' = [pc EXCEPT ![p] = "look"]
  /\ UNCHANGED <<data, ups, listed, copies, world, faults>>

\* Mutant: "up" does not wait for the names that are still held.
UpEarly(p, s) ==
  /\ pc[p] = "look" /\ s \in ups[p]
  /\ holder[s] = None \/ Runs(p, s)
  /\ holder' = [holder EXCEPT ![s] = Own(p)]
  /\ data' = [data EXCEPT ![p] = [v \in Volumes |->
       IF v \in Mounts[s] /\ @[v] = "absent" THEN "fresh" ELSE @[v]]]
  /\ ups' = [ups EXCEPT ![p] = @ \ {s}]
  /\ UNCHANGED <<pc, todo, listed, reclaim, copies, world, faults>>

\* "up -d <service>" creates or recreates the container; Compose creates a
\* volume that does not exist and leaves one that does alone.
Up(p, s) ==
  /\ pc[p] = "look" /\ todo[p] = {} /\ s \in ups[p]
  /\ holder[s] = None \/ Runs(p, s)
  /\ holder' = [holder EXCEPT ![s] = Own(p)]
  /\ data' = [data EXCEPT ![p] = [v \in Volumes |->
       IF v \in Mounts[s] /\ @[v] = "absent" THEN "fresh" ELSE @[v]]]
  /\ ups' = [ups EXCEPT ![p] = @ \ {s}]
  /\ UNCHANGED <<pc, todo, listed, reclaim, copies, world, faults>>

\* Apply returns or the agent dies: nothing of its progress is kept, and the
\* cycle, its rollback or the next one enters Apply again.
Leaves(p) ==
  /\ pc' = [pc EXCEPT ![p] = "idle"]
  /\ ups' = [ups EXCEPT ![p] = {}] /\ todo' = [todo EXCEPT ![p] = {}]
  /\ listed' = [listed EXCEPT ![p] = [s \in Services |-> None]]
  /\ reclaim' = [reclaim EXCEPT ![p] = None]
  /\ copies' = [copies EXCEPT ![p] = {}]

\* Every action was applied.
Applied(p) ==
  /\ pc[p] = "look" /\ todo[p] = {} /\ ups[p] = {}
  /\ Leaves(p)
  /\ UNCHANGED <<holder, data, world, faults>>

\* The name is held by a container that was not reclaimed.
Conflict(p) ==
  /\ pc[p] = "look" /\ todo[p] = {}
  /\ \E s \in ups[p] : holder[s] # None /\ ~Runs(p, s)
  /\ Leaves(p)
  /\ UNCHANGED <<holder, data, world, faults>>

\* The container listed is gone: ContainerInspect fails, or "rm -f" does when
\* no other has its name (whether it does depends on the version of Docker).
Vanished(p) ==
  /\ \/ /\ pc[p] = "look"
        /\ \E s \in todo[p] : Stale(p, listed[p][s]) /\ holder[s] # listed[p][s]
     \/ pc[p] = "copy" /\ copies[p] = {} /\ holder[reclaim[p]] = None
  /\ Leaves(p)
  /\ UNCHANGED <<holder, data, world, faults>>

\* rm refuses "/to/.", cp is not run and Apply fails.  Docker has created the
\* destination if there was none, as empty as Compose would have.
CopyRefused(p) ==
  /\ pc[p] = "copy" /\ copies[p] # {} /\ ~clears
  /\ Leaves(p)
  /\ UNCHANGED <<holder, data, world, faults>>

\* A copy ends half way: its destination was cleared, and may be partly filled.
CopyBreaks(p) ==
  /\ pc[p] = "copy" /\ clears /\ faults < MaxFaults
  /\ \E v \in copies[p] : data' = [data EXCEPT ![p][v] = "partial"]
  /\ Leaves(p)
  /\ faults' = faults + 1
  /\ UNCHANGED <<holder, world>>

\* Any other command fails before it did anything, or the agent dies.
Break(p) ==
  /\ pc[p] \in {"list", "look", "copy"} /\ faults < MaxFaults
  /\ Leaves(p)
  /\ faults' = faults + 1
  /\ UNCHANGED <<holder, data, world>>

\* The older container of s is on its way to p: it was inspected, or a copy of
\* its volumes broke and is all the new ones hold.
Moving(p, s) ==
  \/ reclaim[p] = s
  \/ Stale(p, holder[s]) /\ \E v \in Mounts[s] : data[p][v] = "partial"

\* An operator takes an older deployment down, at any moment.
TakeDown(s) ==
  /\ holder[s] # None /\ holder[s].managed /\ holder[s].project \in Others
  /\ faults < MaxFaults /\ faults' = faults + 1
  /\ holder' = [holder EXCEPT ![s] = None]
  /\ due' = [due EXCEPT ![s] = None]
  /\ taken' = IF \E p \in Live : Moving(p, s) THEN taken \cup {s} ELSE taken
  /\ UNCHANGED <<data, applyVars, clears>>

Apply(p) ==
  \/ BeginApply(p) \/ List(p) \/ Leave(p) \/ Inspect(p) \/ Copy(p) \/ Remove(p)
  \/ Applied(p) \/ Conflict(p) \/ Vanished(p) \/ CopyRefused(p)
  \/ \E s \in Services : Up(p, s)

Next ==
  \/ \E p \in Live : Apply(p) \/ CopyBreaks(p) \/ Break(p)
  \/ \E s \in Services : TakeDown(s)

Spec == Init /\ [][Next]_vars

\* A call to Docker ends, and the watch loop enters the next cycle after a
\* failed one.
FairSpec == Spec /\ \A p \in Live : WF_vars(Apply(p))
-----------------------------------------------------------------------------
TypeOK ==
  /\ holder \in [Services -> Container \cup {None}]
  /\ data \in [Projects -> [Volumes -> Contents]]
  /\ pc \in [Live -> {"idle", "list", "look", "copy"}]
  /\ ups \in [Live -> SUBSET Services]
  /\ \A p \in Live : todo[p] \subseteq ups[p] /\ (reclaim[p] # None <=> pc[p] = "copy")
  /\ todo \in [Live -> SUBSET Services]
  /\ listed \in [Live -> [Services -> Container \cup {None}]]
  /\ reclaim \in [Live -> Services \cup {None}]
  /\ copies \in [Live -> SUBSET Volumes]
  /\ clears \in BOOLEAN
  /\ due \in [Services -> Container \cup {None}] /\ taken \subseteq Services
  /\ faults \in 0..MaxFaults

\* "A failed copy aborts reclaim so data is never silently dropped": whatever
\* failed before and however often Apply was entered, a service Accorda runs
\* has the data of the container it took over, never a volume that a broken copy
\* left and never an empty one.  The exception is the code's: an operator who
\* takes the older container down in the middle of the move leaves the next
\* Apply nothing stale to start again from, and it starts on what is there.
WholeVolumes ==
  \A p \in Live, s \in Services : Runs(p, s) => \A v \in Mounts[s] :
    \/ data[p][v] = "whole"
    \/ data[p][v] = "fresh" /\ \A x \in Services : v \in Mounts[x] => ~Stale(p, due[x])
    \/ \E x \in taken : v \in Mounts[x]

\* reclaimStaleContainers promises never to delete "a container it did not
\* create or that belongs to a different workload": a container leaves the
\* daemon only if Accorda made it for a project it no longer deploys.  Under a
\* name that an operator freed between inspection and removal the code does not
\* keep the promise: it removes by name.
OnlyStaleIsRemoved ==
  [][\A s \in Services \ taken : holder[s] # None /\ holder'[s] = None =>
       holder[s].managed /\ holder[s].project \notin Live]_vars

\* "Accorda autonomously heals name collisions from its own earlier
\* deployments" (DECISIONS #54): a project whose names nobody else holds gets
\* all of its services to run, whatever failed on the way.  Where rm refuses
\* "/to/." it heals those of containers without volumes and no others.
Unobstructed(p) ==
  \A s \in Services : holder[s] = None \/ Runs(p, s) \/ Stale(p, holder[s])
Movable(p) == clears \/ \A s \in Services : Stale(p, holder[s]) => Mounts[s] = {}
CollisionsHeal ==
  \A p \in Live : [](Unobstructed(p) /\ Movable(p)) => <>(\A s \in Services : Runs(p, s))
=============================================================================
