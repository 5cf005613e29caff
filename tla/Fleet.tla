--------------------------------- MODULE Fleet ---------------------------------
(****************************************************************************)
(* Several targets on one host: the units of every accorda process running  *)
(* there ("accorda sync", "sync --watch", "plan", "diff", "status"), over   *)
(* what they share: Git checkouts, rendered deploy files, deployment locks, *)
(* Compose projects and receipt journals.  An Ensemble runs one unit per    *)
(* project concurrently and starts the next cycle when all have ended; a    *)
(* Project runs its targets one after another (internal/core/reconcile,     *)
(* ensemble.go, project.go, loop.go).                                       *)
(*                                                                          *)
(* What Reconciler decides is left open here: whether a cycle remembers its *)
(* HEAD, what an unfinished checkpoint makes of a no-op, which containers   *)
(* are down.  What it does to the shared files is kept, one step per read   *)
(* or write of them.  Commits are numbered in the order they are pushed; 0  *)
(* is no commit.  Each changes the configuration every target declares, and *)
(* its image or not: an image is seen on the containers, a configuration    *)
(* is only ever compared with that of an earlier commit.                    *)
(****************************************************************************)
EXTENDS Naturals, Sequences, FiniteSets

CONSTANTS
  Fleets,     \* the sets of units to run: sequences of [agent, kind, jobs]
  MaxPushes,  \* bound on commits pushed to the tracked branch
  MaxFaults   \* bound on crashes, failed Git calls and failed Compose commands

Kinds == {"watch", "sync", "plan", "status"}  \* "diff" reads as "plan" does

ASSUME FleetAssumption ==
  /\ MaxPushes \in Nat /\ MaxFaults \in Nat
  /\ \A f \in Fleets : Len(f) \in Nat /\ DOMAIN f = 1..Len(f)
  /\ \A f \in Fleets : \A u \in DOMAIN f :
       /\ f[u].kind \in Kinds
       /\ Len(f[u].jobs) \in Nat \ {0} /\ DOMAIN f[u].jobs = 1..Len(f[u].jobs)

VARIABLES
  fleet,     \* the units that run: the configuration does not change under them
  images,    \* images[c]: the image commit c declares
  remote,    \* the tip of the tracked branch
  tree,      \* tree[c]: HEAD of checkout c, and the commit its Compose file is of
  rendered,  \* rendered[f]: the commit the deploy file beside f was rendered from
  holder,    \* holder[l]: the unit holding lock l, or 0
  running,   \* running[w]: the commit whose definitions Compose project w runs
  recorded,  \* recorded[j]: the commit of the last healthy receipt in journal j
  pc, at,    \* where unit u is, and at which of its jobs
  commit,    \* commit[u]: what its Fetch returned
  root,      \* root[u]: the tree Revision opened: "checkout" or "private"
  desired,   \* desired[u]: the commit whose definitions it loaded
  previous,  \* previous[u][i]: the deployment its i-th target compares with
  mode,      \* mode[u]: "deploy", or "rollback" after a failed deployment
  faults

host == <<fleet, images>>
vars == <<host, remote, tree, rendered, holder, running, recorded, pc, at, commit,
          root, desired, previous, mode, faults>>
local == <<commit, root, desired, previous, mode>>

Unit == DOMAIN fleet
AllJobs == UNION {{fleet[u].jobs[i] : i \in DOMAIN fleet[u].jobs} : u \in Unit}
J(u) == fleet[u].jobs[at[u]]
Agents == {fleet[u].agent : u \in Unit}
Of(a) == {u \in Unit : fleet[u].agent = a}

\* lastHealthyReceipt: the commit of the target's last healthy deployment, or 0.
LastHealthy(u) == recorded[J(u).journal]

\* r.previous: a commit, and the commit whose definitions were read for it, 0
\* while only its receipt was.
Deployment == [commit : Nat, services : Nat]
Nothing == [commit |-> 0, services |-> 0]
P(u) == previous[u][at[u]]

Image(c) == IF c = 0 THEN 0 ELSE images[c]

Deploys(u) == fleet[u].kind \in {"watch", "sync"}
TakesLock(u) == fleet[u].kind # "status"

Labels == {"rest", "lock", "fetch", "open", "load", "baseline", "plan", "render", "command",
           "applied", "failed", "record", "recheck", "resolve", "restore", "rewrite", "unlock"}

Init ==
  /\ fleet \in Fleets
  /\ images \in {i \in [1..(MaxPushes + 1) -> 1..(MaxPushes + 1)] : \A c \in DOMAIN i : i[c] <= c}
  /\ remote = 1
  /\ tree = [c \in {j.checkout : j \in AllJobs} |-> [head |-> 0, file |-> 0]]
  /\ rendered = [f \in {j.file : j \in AllJobs} |-> 0]
  /\ holder = [l \in {j.lock : j \in AllJobs} |-> 0]
  /\ running = [w \in {j.workload : j \in AllJobs} |-> 0]
  /\ recorded = [k \in {j.journal : j \in AllJobs} |-> 0]
  /\ pc = [u \in Unit |-> "rest"]
  /\ at = [u \in Unit |-> 1]
  /\ commit = [u \in Unit |-> 0]
  /\ root = [u \in Unit |-> "checkout"]
  /\ desired = [u \in Unit |-> 0]
  /\ previous = [u \in Unit |-> [i \in DOMAIN fleet[u].jobs |-> Nothing]]
  /\ mode = [u \in Unit |-> "deploy"]
  /\ faults = 0

Go(u, from, to) == pc[u] = from /\ pc' = [pc EXCEPT ![u] = to]

Fault == faults < MaxFaults /\ faults' = faults + 1
-----------------------------------------------------------------------------
(* The loop of a process, and the deployment lock of a target. *)

\* Run's tick, or a new one-shot process: every unit starts its first target.
Start(a) ==
  /\ \A u \in Of(a) : pc[u] = "rest"
  /\ pc' = [u \in Unit |-> IF u \in Of(a) THEN "lock" ELSE pc[u]]
  /\ UNCHANGED <<host, remote, tree, rendered, holder, running, recorded, at, local, faults>>

\* FileLocker.Lock, polled until the file lock is free; status takes no lock.
\* recoveryState: the last healthy deployment, if there is one, is the previous.
Lock(u) ==
  /\ Go(u, "lock", "fetch")
  /\ IF TakesLock(u)
     THEN /\ holder[J(u).lock] = 0
          /\ holder' = [holder EXCEPT ![J(u).lock] = u]
     ELSE UNCHANGED holder
  /\ previous' = IF Deploys(u) /\ LastHealthy(u) # 0
                 THEN [previous EXCEPT ![u][at[u]] = [commit |-> LastHealthy(u), services |-> 0]]
                 ELSE previous
  /\ UNCHANGED <<host, remote, tree, rendered, running, recorded, at, commit, root, desired, mode, faults>>

Watches(u) == u \in Unit /\ fleet[u].kind = "watch"

\* What a cycle held in local variables is gone, and r.previous unless the
\* process keeps its reconcilers.
Forget(us, kept) ==
  /\ commit' = [u \in Unit |-> IF u \in us THEN 0 ELSE commit[u]]
  /\ root' = [u \in Unit |-> IF u \in us THEN "checkout" ELSE root[u]]
  /\ desired' = [u \in Unit |-> IF u \in us THEN 0 ELSE desired[u]]
  /\ previous' = [u \in Unit |-> IF u \in us \ kept
                                  THEN [i \in DOMAIN fleet[u].jobs |-> Nothing] ELSE previous[u]]
  /\ mode' = [u \in Unit |-> IF u \in us THEN "deploy" ELSE mode[u]]

Released(u) ==
  IF holder[J(u).lock] = u THEN [holder EXCEPT ![J(u).lock] = 0] ELSE holder

\* Mutant: one target too many.
UnlockTooFar(u) ==
  /\ Go(u, "unlock", IF at[u] <= Len(fleet[u].jobs) THEN "lock" ELSE "rest")
  /\ at' = [at EXCEPT ![u] = IF at[u] <= Len(fleet[u].jobs) THEN at[u] + 1 ELSE 1]
  /\ Forget({u}, {v \in Unit : Watches(v)}) /\ holder' = Released(u)
  /\ UNCHANGED <<host, remote, tree, rendered, running, recorded, faults>>

\* The cycle of one target ends: the next target's, or the unit is done.
Unlock(u) ==
  /\ Go(u, "unlock", IF at[u] < Len(fleet[u].jobs) THEN "lock" ELSE "rest")
  /\ at' = [at EXCEPT ![u] = IF at[u] < Len(fleet[u].jobs) THEN at[u] + 1 ELSE 1]
  /\ Forget({u}, {v \in Unit : Watches(v)}) /\ holder' = Released(u)
  /\ UNCHANGED <<host, remote, tree, rendered, running, recorded, faults>>
-----------------------------------------------------------------------------
(* The Git source: one checkout per project, moved by whoever fetches. *)

\* The checkout is forced: local changes to tracked files are lost.
CheckedOut(u, c) == tree' = [tree EXCEPT ![J(u).checkout] = [head |-> c, file |-> c]]

\* Mutant: a checkout that exists is used as it is.
FetchOnce(u) ==
  LET c == IF tree[J(u).checkout].head # 0 THEN tree[J(u).checkout].head ELSE remote
  IN  /\ Go(u, "fetch", "open")
      /\ CheckedOut(u, c)
      /\ commit' = [commit EXCEPT ![u] = c]
      /\ UNCHANGED <<host, remote, rendered, holder, running, recorded, at, root, desired, previous, mode, faults>>

\* Clone or fetch, check the branch out, read HEAD.
Fetch(u) ==
  /\ Go(u, "fetch", "open")
  /\ CheckedOut(u, remote)
  /\ commit' = [commit EXCEPT ![u] = remote]
  /\ UNCHANGED <<host, remote, rendered, holder, running, recorded, at, root, desired, previous, mode, faults>>

\* Mutant: it is reconciled once more, whether another commit arrived or not.
RecheckAlways(u) ==
  /\ Go(u, "recheck", "fetch")
  /\ CheckedOut(u, remote)
  /\ UNCHANGED <<host, remote, rendered, holder, running, recorded, at, local, faults>>

\* The Fetch that ends a synced cycle: a commit that arrived meanwhile is
\* reconciled at once, under the same lock.
Recheck(u) ==
  /\ Go(u, "recheck", IF remote = commit[u] THEN "unlock" ELSE "fetch")
  /\ CheckedOut(u, remote)
  /\ UNCHANGED <<host, remote, rendered, holder, running, recorded, at, local, faults>>

\* A Git call fails: the cycle ends, and a status reports what it can.
SourceFails(u) ==
  /\ pc[u] \in {"fetch", "recheck", "restore"} /\ fleet[u].kind # "plan" /\ Fault
  /\ pc' = [pc EXCEPT ![u] = "unlock"]
  /\ UNCHANGED <<host, remote, tree, rendered, holder, running, recorded, at, local>>

\* A plan or a diff gives up, its later targets and projects with it.
GiveUp(u) ==
  /\ fleet[u].kind = "plan" /\ Go(u, "fetch", "rest") /\ Fault
  /\ at' = [at EXCEPT ![u] = 1]
  /\ Forget({u}, {}) /\ holder' = Released(u)
  /\ UNCHANGED <<host, remote, tree, rendered, running, recorded>>

\* Revision: the checkout itself when the commit is its HEAD, else a private
\* copy.  A status names no commit and gets the HEAD, whatever it has fetched.
Open(u) ==
  /\ Go(u, "open", "load")
  /\ root' = [root EXCEPT ![u] = IF tree[J(u).checkout].head = commit[u] \/ ~TakesLock(u)
                                 THEN "checkout" ELSE "private"]
  /\ UNCHANGED <<host, remote, tree, rendered, holder, running, recorded, at, commit, desired, previous, mode, faults>>

\* Target.Desired reads the Compose file under that root.
Load(u) ==
  /\ Go(u, "load", "baseline")
  /\ desired' = [desired EXCEPT ![u] = IF root[u] = "checkout"
                                       THEN tree[J(u).checkout].file ELSE commit[u]]
  /\ UNCHANGED <<host, remote, tree, rendered, holder, running, recorded, at, commit, root, previous, mode, faults>>

\* Mutant: the files of the checkout, whatever commit they are asked of.
DeclaredNow(u, c) == IF c = 0 THEN 0 ELSE tree[J(u).checkout].file

\* Another commit is read from a private copy, unless it is the HEAD.
DeclaredAt(u, c) == IF tree[J(u).checkout].head = c THEN tree[J(u).checkout].file ELSE c

\* hydratePrevious: what is loaded already serves when it is the same commit.
Hydrate(u) ==
  /\ Deploys(u) /\ Go(u, "baseline", "plan")
  /\ previous' = IF P(u).commit # 0 /\ P(u).services = 0
                 THEN [previous EXCEPT ![u][at[u]].services =
                         IF P(u).commit = commit[u] THEN desired[u] ELSE DeclaredAt(u, P(u).commit)]
                 ELSE previous
  /\ UNCHANGED <<host, remote, tree, rendered, holder, running, recorded, at, commit, root, desired, mode, faults>>

\* A plan or a diff reads the deployed side again, and prints.
Compare(u) ==
  /\ fleet[u].kind = "plan" /\ Go(u, "baseline", "plan")
  /\ previous' = [previous EXCEPT ![u][at[u]] =
                    [commit |-> LastHealthy(u), services |-> DeclaredAt(u, LastHealthy(u))]]
  /\ UNCHANGED <<host, remote, tree, rendered, holder, running, recorded, at, commit, root, desired, mode, faults>>

\* A status prints the commit of the last healthy receipt.
Collect(u) ==
  /\ fleet[u].kind = "status" /\ Go(u, "baseline", "plan")
  /\ previous' = [previous EXCEPT ![u][at[u]].commit = LastHealthy(u)]
  /\ UNCHANGED <<host, remote, tree, rendered, holder, running, recorded, at, commit, root, desired, mode, faults>>

\* resolvePrevDesired: a rollback reads the previous commit as a cycle reads its own.
Resolve(u) ==
  /\ Go(u, "resolve", "restore")
  /\ desired' = [desired EXCEPT ![u] = DeclaredAt(u, P(u).commit)]
  /\ UNCHANGED <<host, remote, tree, rendered, holder, running, recorded, at, commit, root, previous, mode, faults>>

\* Materialize: it checks that commit out before it rewrites the file.
Restore(u) ==
  /\ Go(u, "restore", "rewrite")
  /\ CheckedOut(u, P(u).commit)
  /\ UNCHANGED <<host, remote, rendered, holder, running, recorded, at, local, faults>>
-----------------------------------------------------------------------------
(* The deployment: the Compose file of the checkout is rendered beside      *)
(* itself, deployed from there and the copy removed.                        *)

\* DriftActions: the images differ from those that run, or the definitions from
\* those of the previous deployment, whatever the containers were made from.
Changes(u) ==
  \/ Image(running[J(u).workload]) # Image(desired[u])
  \/ P(u).services \notin {0, desired[u]}

\* The previous deployment of a cycle that ends SYNCED is its own.
Synced(u) ==
  previous' = [previous EXCEPT ![u][at[u]] = [commit |-> commit[u], services |-> desired[u]]]

\* A container that is down is also brought up.  A cycle that finds nothing to
\* change closes a checkpoint, ends SYNCED without a receipt, or stops early.
Plan(u) ==
  /\ \/ Deploys(u) /\ Go(u, "plan", "render") /\ UNCHANGED previous
     \/ Deploys(u) /\ ~Changes(u) /\ Go(u, "plan", "record") /\ UNCHANGED previous
     \/ Deploys(u) /\ ~Changes(u) /\ Go(u, "plan", "recheck") /\ Synced(u)
     \/ Deploys(u) /\ ~Changes(u) /\ Go(u, "plan", "unlock") /\ UNCHANGED previous
     \/ ~Deploys(u) /\ Go(u, "plan", "unlock") /\ UNCHANGED previous
  /\ UNCHANGED <<host, remote, tree, rendered, holder, running, recorded, at, commit, root, desired, mode, faults>>

\* ApplyDesired writes the previous services into the checkout's Compose file.
Rewrite(u) ==
  /\ Go(u, "rewrite", "render")
  /\ tree' = [tree EXCEPT ![J(u).checkout].file = desired[u]]
  /\ UNCHANGED <<host, remote, rendered, holder, running, recorded, at, local, faults>>

\* ApplyDesired plans against no previous deployment: with the image in place a
\* rollback has nothing to do but bring up a container that is down.
NothingToApply(u) ==
  mode[u] = "rollback" /\ Image(running[J(u).workload]) = Image(desired[u])

\* renderDeployFile reads the checkout, not what was loaded.
Render(u) ==
  /\ \/ Go(u, "render", "command")
     \/ NothingToApply(u) /\ Go(u, "render", "applied")
  /\ rendered' = [rendered EXCEPT ![J(u).file] = tree[J(u).checkout].file]
  /\ UNCHANGED <<host, remote, tree, holder, running, recorded, at, local, faults>>

Command(u) ==
  /\ Go(u, "command", "applied")
  /\ rendered[J(u).file] # 0
  /\ running' = [running EXCEPT ![J(u).workload] = rendered[J(u).file]]
  /\ UNCHANGED <<host, remote, tree, rendered, holder, recorded, at, local, faults>>

\* The command fails, having changed the project or not; it always does when
\* the deploy file has been removed under it.
CommandFails(u) ==
  /\ Go(u, "command", "failed")
  /\ \/ /\ rendered[J(u).file] # 0 /\ Fault
        /\ \E w \in {running[J(u).workload], rendered[J(u).file]} :
             running' = [running EXCEPT ![J(u).workload] = w]
     \/ rendered[J(u).file] = 0 /\ UNCHANGED <<running, faults>>
  /\ UNCHANGED <<host, remote, tree, rendered, holder, recorded, at, local>>

Removed(u) == rendered' = [rendered EXCEPT ![J(u).file] = 0]

\* cleanupDeployFile, after a success.
Applied(u) ==
  /\ Go(u, "applied", "record") /\ Removed(u)
  /\ UNCHANGED <<host, remote, tree, holder, running, recorded, at, local, faults>>

\* A deployment that fails is rolled back when there is a previous one to go
\* back to; the failure of a rollback stands.
RollBack(u) ==
  LET back == mode[u] = "deploy" /\ P(u).commit # 0
  IN  /\ pc' = [pc EXCEPT ![u] = IF back THEN "resolve" ELSE "unlock"]
      /\ mode' = [mode EXCEPT ![u] = IF back THEN "rollback" ELSE mode[u]]

\* ... cleanupDeployFile, after a failure.
Failed(u) ==
  /\ pc[u] = "failed" /\ Removed(u) /\ RollBack(u)
  /\ UNCHANGED <<host, remote, tree, holder, running, recorded, at, commit, root, desired, previous, faults>>

\* The health wait fails, after a deployment or in a cycle that changed nothing.
VerifyFails(u) ==
  /\ \/ pc[u] = "record" /\ mode[u] = "deploy"
     \/ pc[u] = "plan" /\ Deploys(u) /\ ~Changes(u)
  /\ Fault /\ RollBack(u)
  /\ UNCHANGED <<host, remote, tree, rendered, holder, running, recorded, at, commit, root, desired, previous>>

\* A healthy receipt names the commit that was fetched; a rollback's is no
\* healthy one, and leaves the last of those as it is.
Record(u) ==
  /\ IF mode[u] = "deploy"
     THEN /\ Go(u, "record", "recheck") /\ Synced(u)
          /\ recorded' = [recorded EXCEPT ![J(u).journal] = commit[u]]
     ELSE Go(u, "record", "unlock") /\ UNCHANGED <<recorded, previous>>
  /\ UNCHANGED <<host, remote, tree, rendered, holder, running, at, commit, root, desired, mode, faults>>
-----------------------------------------------------------------------------
(* The environment. *)

Push ==
  /\ remote <= MaxPushes
  /\ remote' = remote + 1
  /\ UNCHANGED <<host, tree, rendered, holder, running, recorded, pc, at, local, faults>>

\* A process is killed: the kernel frees its locks, its files stay.
Crash(a) ==
  /\ \E u \in Of(a) : pc[u] # "rest"
  /\ Fault
  /\ pc' = [u \in Unit |-> IF u \in Of(a) THEN "rest" ELSE pc[u]]
  /\ at' = [u \in Unit |-> IF u \in Of(a) THEN 1 ELSE at[u]]
  /\ holder' = [l \in DOMAIN holder |-> IF holder[l] \in Of(a) THEN 0 ELSE holder[l]]
  /\ Forget(Of(a), {})
  /\ UNCHANGED <<host, remote, tree, rendered, running, recorded>>

Reads(u) ==
  \/ Fetch(u) \/ Recheck(u) \/ Open(u) \/ Load(u) \/ Resolve(u) \/ Restore(u)
  \/ Hydrate(u) \/ Compare(u) \/ Collect(u)

Works(u) ==
  Plan(u) \/ Rewrite(u) \/ Render(u) \/ Command(u) \/ Applied(u) \/ Failed(u) \/ Record(u)

Step(u) ==
  Lock(u) \/ Unlock(u) \/ Reads(u) \/ Works(u) \/ SourceFails(u) \/ GiveUp(u)
  \/ CommandFails(u) \/ VerifyFails(u)

Next ==
  \/ \E u \in Unit : Step(u)
  \/ \E a \in Agents : Start(a) \/ Crash(a)
  \/ Push

Spec == Init /\ [][Next]_vars

\* Goroutines are scheduled, a watch process ticks for ever, and it polls for a
\* lock that stays free: a lock that others keep taking it may never meet free.
\* A one-shot command need never be run again.
Goes(u) ==
  \/ Unlock(u) \/ Reads(u) \/ Works(u)
  \/ Watches(u) /\ (Start(fleet[u].agent) \/ Lock(u))

AllUnits == UNION {DOMAIN f : f \in Fleets}

Fairness == \A u \in AllUnits : WF_vars(u \in Unit /\ Goes(u))

FairSpec == Spec /\ Fairness
-----------------------------------------------------------------------------
PreviousOK ==
  /\ DOMAIN previous = Unit
  /\ \A u \in Unit : previous[u] \in [DOMAIN fleet[u].jobs -> Deployment]

TypeOK ==
  /\ fleet \in Fleets /\ images \in [1..(MaxPushes + 1) -> Nat]
  /\ remote \in Nat /\ faults \in Nat
  /\ tree \in [{j.checkout : j \in AllJobs} -> [head : Nat, file : Nat]]
  /\ rendered \in [{j.file : j \in AllJobs} -> Nat]
  /\ holder \in [{j.lock : j \in AllJobs} -> Unit \cup {0}]
  /\ running \in [{j.workload : j \in AllJobs} -> Nat]
  /\ recorded \in [{j.journal : j \in AllJobs} -> Nat]
  /\ pc \in [Unit -> Labels]
  /\ at \in [Unit -> Nat] /\ \A u \in Unit : at[u] \in DOMAIN fleet[u].jobs
  /\ commit \in [Unit -> Nat] /\ desired \in [Unit -> Nat]
  /\ PreviousOK
  /\ root \in [Unit -> {"checkout", "private"}]
  /\ mode \in [Unit -> {"deploy", "rollback"}]

\* What two jobs may share without a lock in common.
Apart(j, k) ==
  /\ j.checkout # k.checkout /\ j.file # k.file
  /\ j.workload # k.workload /\ j.journal # k.journal

\* A host on which units that share anything meet on a lock, and a status is
\* read from a checkout of its own.
Isolated(f) ==
  \A u, v \in DOMAIN f : u # v =>
    \A j \in DOMAIN f[u].jobs, k \in DOMAIN f[v].jobs :
      LET a == f[u].jobs[j]
          b == f[v].jobs[k]
      IN  IF "status" \in {f[u].kind, f[v].kind}
          THEN a.checkout # b.checkout /\ a.file # b.file
          ELSE a.lock = b.lock \/ Apart(a, b)

\* When a deployment's commands are over, the Compose project runs the commit
\* that was fetched, down to its configuration; and when a receipt is about to be
\* written, also of a rollback or of a cycle that changed nothing, it names a
\* commit whose image runs: nobody moved the checkout or the deploy file between
\* what the cycle fetched, or goes back to, and what it deployed.
RecordsWhatRuns ==
  \A u \in Unit :
    LET runs  == running[J(u).workload]
        named == IF mode[u] = "deploy" THEN commit[u] ELSE P(u).commit
    IN  /\ pc[u] = "applied" /\ mode[u] = "deploy" => runs = commit[u]
        /\ pc[u] \in {"applied", "record"} => Image(runs) = Image(named)

\* What a cycle plans, and what a plan, a diff or a status prints, is of the
\* commit it names; and a plan compares it with the definitions of the very
\* deployment it takes for the previous one, the last the journal calls healthy
\* if there is one, not with whatever the checkout holds.
PlannedAsNamed ==
  \A u \in Unit : pc[u] = "plan" =>
    /\ desired[u] = commit[u]
    /\ TakesLock(u) => /\ P(u).services = P(u).commit
                       /\ LastHealthy(u) # 0 => P(u).commit = LastHealthy(u)

Deploying == {"plan", "render", "command", "applied", "failed", "record", "resolve", "restore",
              "rewrite"}

\* No two units are ever deploying the same Compose project.
OneDeployer ==
  \A u, v \in Unit :
    /\ Deploys(u) /\ Deploys(v) /\ pc[u] \in Deploying /\ pc[v] \in Deploying
    /\ J(u).workload = J(v).workload
    => u = v

\* A Compose project goes back to an older commit only by a rollback: a unit
\* that planned an old commit never overwrites what another deployed meanwhile.
OnlyRollbackGoesBack ==
  [][\A w \in DOMAIN running : running'[w] < running[w] =>
       \E u \in Unit : J(u).workload = w /\ mode[u] = "rollback"]_vars

\* Unit u has got the lock of its i-th target, or needs none.
Reconciles(u, i) == u \in Unit /\ i \in DOMAIN fleet[u].jobs /\ pc[u] = "fetch" /\ at[u] = i

\* What the i-th target of a watch unit runs has the image the branch declares.
UpToDate(u, i) ==
  Watches(u) /\ i \in DOMAIN fleet[u].jobs =>
    Image(running[fleet[u].jobs[i].workload]) = Image(remote)

MostJobs == CHOOSE n \in UNION {{Len(f[u].jobs) : u \in DOMAIN f} : f \in Fleets} :
              \A f \in Fleets : \A u \in DOMAIN f : Len(f[u].jobs) <= n

\* When pushes and faults have ended, a target a watch process gets to reconcile
\* again and again comes to run the image of the tip, and stays with it, whatever
\* other processes do; and although a plan that is empty may stand for a project
\* that runs another configuration.
TargetsConverge ==
  \A u \in AllUnits, i \in 1..MostJobs :
    []<>(Reconciles(u, i) /\ Watches(u)) => <>[]UpToDate(u, i)

\* Another process takes a lock the process of u may wait for.
Contended(u) ==
  \E v \in Unit, w \in Of(fleet[u].agent) :
    /\ fleet[v].agent # fleet[u].agent /\ TakesLock(v)
    /\ \E i \in DOMAIN fleet[v].jobs, k \in DOMAIN fleet[w].jobs :
         fleet[v].jobs[i].lock = fleet[w].jobs[k].lock

\* On a host where only its own members meet on its locks, a watch process comes
\* round to each of its targets again and again: no member waits for ever for
\* the lock of another, for the slowest of a tick or for a process that died.
TargetsComeRound ==
  \A u \in AllUnits, i \in 1..MostJobs :
    []<>(Watches(u) /\ i \in DOMAIN fleet[u].jobs /\ ~Contended(u) => Reconciles(u, i))
=============================================================================
