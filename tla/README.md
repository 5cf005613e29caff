# Accorda in TLA+

This directory is a verification development of Accorda, a GitOps agent that
keeps Docker Compose services at the state a Git branch declares. It holds TLA+
modules translated from the Go code, TLC instances that check them, and proofs
checked by TLAPS. Paths below are relative to `src/accorda/` in the repository;
`PROJECT.json` maps every definition to the lines it translates.

## The system

| Component | State it keeps | Operations | Hard part |
|---|---|---|---|
| Reconciliation lifecycle (`internal/core/reconcile`) | `previous`, `lastDesired`, `pending`, the cycle's locals | `Reconcile`, `Run`: fetch, validate, plan, checkpoint, apply, verify, compare, record, roll back, drift check and repair | crashes between any two steps, failures inside a deployment, commits arriving in flight |
| Planning and comparison (`core/plan`, `core/state`) | none | `DriftActions`, `Compare`, `Hash` | the runtime does not report a container's configuration |
| Deployment history (`core/history`) | the journal file | `Append`, `List`, `Unfinished` | what a crash leaves in the file; which receipt closes which |
| Deployment lock (`core/locking`) | an advisory lock on a file | `Lock`, unlock | freed by the kernel when its holder dies; polled without a queue |
| Compose target (`internal/targets/compose`) | containers, volumes, a rendered deploy file | `Plan`, `Apply`, `ApplyDesired`, `Current`, `Health`, reclaim and migration | a list of commands, any of which may fail |
| Image target (`internal/targets/image`) | one container | remove and run | failure or another process between the two |
| Docker adapters (`internal/docker`) | none | pull selection, health wait, merging of replicas | containers that change while they are inspected |
| Git source (`internal/sources/git`) | one working tree per project | `Fetch`, `Revision`, `Materialize` | shared by every target and by `accorda status` |
| Several targets (`reconcile/project.go`, `ensemble.go`) | members, a mutex | sequential and concurrent fan-out, the polling loop | what members share, and under which locks |
| Events, webhook (`core/events`, `internal/notifications/webhook`) | subscribers, delivery slots | `Publish`, `Handle`, retries | a bounded number in flight, lost answers |
| Configuration, command line (`internal/config`, `cmd/accorda`) | none | acceptance of a document, wiring of targets, the commands | five keys derived from different parts of a document |
| Secrets, output | none | redaction, printing | none that a model checker reaches |

A cycle of `Reconcile` takes the target's lock, reads the journal, fetches the
branch, and either looks for drift (the HEAD is the one it last reconciled) or
runs the lifecycle. The reconciler calls source, target, lock and receipt store
synchronously; events go to the bus, and from there to goroutines. Processes on
one host share locks, journals, checkouts, deploy files and containers.

What makes each component correct:

- *Lifecycle*: cycles of a target exclude each other; nothing is applied before
  its checkpoint is durable; what a crash interrupts is resumed or closed; a
  SYNCED report is true; a rollback restores; the loop converges.
- *History*: an acknowledged receipt is never lost from an answer; a deployment
  begins once, ends once, and one is under way at a time.
- *Planning and comparison*: what is reported as drift is what a repair acts on.
- *Several targets*: what a journal records is what runs, whoever else reads or
  moves the checkout; no target waits for ever for its own siblings.
- *Reclaiming*: data is never dropped, only stale containers go, name collisions
  heal; each of them with the exceptions the code makes. *Health wait*: it ends, with a verdict about what it read. *Webhook*: no
  loss is silent, no slot leaks. *Image target*: one process at a time replaces
  a container, and it comes back.

`PROJECT.json` lists the hazards behind these, each at its line.

## Modules

| Module | Models |
|---|---|
| `Manifests` | manifests, runtimes, `DriftActions`, pull selection, the commands of `Apply` and their outcomes, `Compare` |
| `Journal` | receipts, `Unfinished`, the baseline commit `deployedFromReceipts` finds |
| `Reconciler`, `MCReconciler` | the lifecycle of one target with its agents, lock, journal, containers and branch |
| `DeploymentLedger` | abstract: what the history promises about every deployment; `Reconciler` implements it |
| `FileStore` | the journal file: appends, syncs, kills, power loss, short writes, `List` |
| `ReceiptStore` | abstract: what a receipt store promises; `FileStore` implements it |
| `Wiring` | what a document makes of its targets: checkout, file, lock, Compose project, journal |
| `Fleet`, `MCFleet` | the units of all processes of a host over what they share |
| `Reclaim`, `MCReclaim` | reclaiming stale containers and moving their volumes, inside `Apply` |
| `HealthWait`, `MCHealthWait` | reading containers, merging replicas, waiting for health |
| `Delivery` | publication to the webhook and its deliveries |
| `ImageTarget`, `MCImageTarget` | the single-container driver under the reconciler's cycle |
| `ReconcilerProofs`, `LedgerProofs`, `FileStoreProofs`, `FleetProofs`, `ReclaimProofs`, `HealthProofs`, `DeliveryProofs`, `ImageProofs` | theorems |

`Reconciler` and `ImageTarget` extend `Manifests`; `MCFleet` puts `Wiring` and
`Fleet` together. `Fleet` leaves open what `Reconciler` decides (whether HEAD is
remembered, what an unfinished checkpoint makes of a no-op) and keeps what it
does to shared files; `Reconciler` takes the files for its own. Reclaiming and
the health wait are one step each in `Reconciler`, with every outcome their own
modules show.

### Reconciler

A process is an *agent*. `pc[a]` is its place in a cycle; a step runs from one
point where another actor can act to the next: a read of Git, of the journal or
of the runtime, one appended receipt, one `docker compose` command. The fields
of the Go `Reconciler` are the variables `lastDesired`, `previous` and
`pending`; the locals of a cycle are the record `cyc[a]`; the returned
`Result` is `result[a]`.

| Action | Code |
|---|---|
| `Begin`, `BeginFails` | `acquireLock`, `recoveryState` |
| `Fetch` | `fetch` and the unchanged-HEAD short cut |
| `Validate`, `InterruptFails` | `validate`, `hydratePrevious`, `prepareRecovery` |
| `Plan` | `plan`, the deployment ID, `recovering` |
| `Checkpoint`, `CheckpointFails` | `recordPending` |
| `Deploy`, `DeployFails` | `Target.Apply`, command by command |
| `Verify` | `verify`, `assessHealth` |
| `CompareDeployed`, `Close`, `InFlight` | `sync`, the healthy receipt, the last fetch of `Reconcile` |
| `RecordFailed`, `Restore`, `RollBack`, `RollBackFails`, `RecordRollBack` | `rollback` and what it calls |
| `DriftHealth`, `DriftCompare`, `RepairPlan`, `Repair`, `RepairFails` | `checkDrift`, `handleDrift`, `repairDrift` |
| `ReadFails` | every early return on an error before a mutation |
| `Crash` | the process dies and starts again |
| `MoveHead`, `Stop`, `Sicken`, `Heal` | pushes, and containers changing on their own |

A one-shot agent (`accorda sync`) forgets its memory at every `Begin`; a watch
agent keeps it.

Abstractions:

- A definition is a record of an image and "everything else". The canonical
  hash covers both, the runtime reports only the image; that is the distinction
  every configuration property depends on.
- Commits are a set with `Tree[c]`, the manifest declared at `c`. The branch may
  move to any commit, older ones included.
- A plan is its set of actions that are not no-ops. Commands run in the order of
  the code (pulls, services, removals); among services any order stands for the
  sorted one, as names are abstract.
- `up -d --remove-orphans` also brings every declared service to the deploy file,
  as the file stamps a new label on all of them. A container that comes up may
  be sick. Services that `depends_on` pulls in are not modelled.
- A failing command may have done its work or not; a failing `Append` may have
  reached the disk or not.
- Which images the engine already holds is not tracked: policy `missing` selects
  any set that depends on the image alone.
- `newDeploymentID` (64 random bits) returns an identifier no receipt carries.
  A cycle begins only while one is left; the runs say how many there are.
- The journal is the list `List` returns. That such a list exists, and is never
  shorter than acknowledged, is what `FileStore` is checked for; an unreadable
  journal is `BeginFails`.

### FileStore

`Append` is `Open`, `Write`, `Sync`, with `WriteShort`, `SyncFails` and `Kill`
as its failures. `file` is what a reader sees (the page cache), `durable` what
was synced. A line is a receipt or `Garbled`, with or without its newline; the
next write joins a line that has none, as `O_APPEND` does. A power loss keeps
the synced lines and any prefix of the bytes after them. `Oversized` receipts
are written like others, and `List`'s scanner refuses them.

### Wiring and Fleet

`Wiring` translates the functions that turn a document into targets: which
documents `ValidateEnsemble` and `ValidateTargets` accept, and for every target
its checkout (`buildSource`), Compose file, lock (`lockIdentityFromConfig`),
Compose project (`projectForContext`) and journal (`targetReceiptPath`). A name
is the sequence of its hyphen-separated parts, since that is where two names can
run together.

In `Fleet` a *unit* is the goroutine of one project, or one whole plan, diff or
status. Every step is one read or write of something shared: `Fetch` moves the
checkout, `Open` and `Load` are `Revision` and `Desired` (the checkout when the
commit is its HEAD, else a private copy), `Hydrate` reads the baseline, `Render`
writes the deploy file beside the source, `Command` deploys from it, `Applied`
and `Failed` remove it, `Record` appends the receipt, `Recheck` is the last fetch
of a cycle, `Resolve`, `Restore` and `Rewrite` are the rollback. `rendered`
survives a crash: an untracked file beside the source is assumed to survive a
forced checkout. A rollback's rewritten file keeps only services
(`write.go:21-25`); it is taken for the recorded commit's. Absolute paths, image
targets and sources read in place are left out.

A commit stands for the definitions it declares. Every commit changes the
configuration, and `images` says which of them change the image too; a run takes
all such branches. A cycle sees no more than the code does (`Changes`): the image
that runs, and the definitions of the deployment it takes for the previous one
(`previous`, which is `r.previous` with `services` 0 until it is hydrated). So a
plan may be empty while another configuration runs, and a rollback, which is
planned against no previous deployment, may have nothing to apply
(`NothingToApply`) and is recorded all the same. A health wait may fail after a
deployment or in a cycle that changed nothing (`VerifyFails`), and leads to a
rollback if there is a previous commit. `Plan` leaves open whether a container is
down, and so brings one up at will.

`status` takes no lock and yet fetches, and it names no commit to `Revision`, so
what it prints is the HEAD of the checkout whatever it fetched (`Open`). In the
directory of a watched project that is unsafe both ways, and `Fleet` has it: the
status moves the checkout between another unit's `Fetch` and `Render` as the plan
of `shared_tree` does. The hosts of `fleet` read the status from another
directory, where its checkout is its own. It prints the recorded commit without
loading it, so that `PlannedAsNamed` says less of it.

### Reclaim, HealthWait, Delivery

`Reclaim` is the part of `Apply` before and during the "up" of services with a
`container_name`: `List`, `Leave` or `Inspect` each name, `Copy` its volumes one
by one, `Remove`, `Up`. Containers are listed once, inspected by ID and removed by
name, as in the code, and anything may happen in between: another project takes
the name, or an operator takes an older deployment down (`TakeDown`, at any
moment). A copy is one container that clears its destination and fills it;
`CopyBreaks` leaves it `partial`. The command starts with `rm -rf /to/.`
(`reclaim.go:194`), which the `rm` of the pinned `busybox:1.36` refuses: then no
copy ever works (`CopyRefused`). `clears` says which of two worlds a behaviour is
in, that one or the one the comments and tests describe; a run takes both. That
busybox refuses is a fact about that image and not about this repository. A
container that runs beside its copy, and a copy container that outlives its
agent, are not modelled.

The history variables `due` (the older container of a name, whose volumes have
to move) and `taken` (names an operator freed in the middle of a move) serve the
properties. Under a taken name the code keeps none of its promises, and the
properties except just those names: see below.

`HealthWait` has one step per call to the engine, so containers change, vanish
and come up between the listing and each inspection; one that was listed and
vanished is gone for good, since it is inspected by its ID. Replicas merge
pairwise, by status and health; the image of the first is kept and those of the
others are not looked at. A service with one starting and one healthy replica
becomes `degraded`, whose health is "unknown", and ends the wait at once.

`Delivery` has the publisher, one goroutine per event, and the process, which is
interrupted or exits. A request the receiver processed may go unheard, so a
retry delivers twice; that is what at-least-once means and no property denies it.

### ImageTarget

The cycle of `Reconciler` again, without commits and with one container: what is
desired is the definition in `accorda.yaml` at every commit (`Target.Desired`),
the container is found by its label (`Current`) and replaced by name in two
commands, `RemoveOld` and `Run`. `Locks` is the lock identity the builder
registers. `Restore` plans the rollback, which for a target without
`ApplyDesired` is `Plan` against nothing. `recorded` stands for the journal, and
`TakeName` for somebody's own container under the name.

## Runs

| Run | Question | Bounds |
|---|---|---|
| `watch` | Do journal, recovery and rollback keep their promises for a watch agent under crashes, failing commands, sick and stopped containers and read errors, and does every step of a cycle take it on? | 1 agent, 4 ids, policy report |
| `two_agents` | Does the lock keep a watch agent and one-shot processes apart, and is a deployment one began closed by the other? | 2 agents, 3 ids, policy repair, hosts that already run something |
| `converges` | What survives a receipt store that loses writes, and does the loop reach the branch HEAD and close every deployment once faults end? | 1 agent, 5 ids, policy repair |
| `file_store` | Does the file keep the promise of a store? | 3 receipts (one oversized), 2 writers, 2 faults |
| `fleet` | Do journals record what runs, plans say what they compare, targets converge once they get their lock, and members come round to it, on hosts whose units share checkouts, files and locks? | six hosts, 1 push of a new image or a new configuration only, 2 faults; 588,279 states, the largest run (about 3 minutes) |
| `reclaim` | Is a renamed project's take-over safe, and does it end? | 2 live projects, an old and a foreign one, 2 services, one of them with 2 volumes, 2 faults, both kinds of `rm` |
| `health_wait` | Is the verdict about what was read, and does the wait end? | 3 containers, 2 of one service, 2 images, timeout of 1 interval |
| `delivery` | Are losses reported and slots returned, and is an answered event left alone? | 3 events, 2 slots, 2 retries |
| `image` | Do processes of one image target keep out of each other's way, and does the container come back? | a watch, a sync, an unrelated target of the same image, 2 faults |
| `false_synced`, `live_sibling`, `shared_tree` | Does the code do what its comments say? It does not; see below. | |

Every instance of `Reconciler` has two services, two images and two
configurations. Its commits are `base`, `config` (only a configuration changes),
`image` (an image changes, a service is dropped) and, in one run, `revert`
(declares again what `base` did). Two faults and two moves of the branch are
allowed: a crash and a failing command, or two crashes, within a history of
three heads, is the longest story a property needs (interrupted, superseded,
rolled back), and three services or a third fault multiply states without a new
kind of step. `fleet` needs one push to tell old from new (the first commit is
there from the start, and a fetch on either side of the push gives two cycles
with different commits), and a fault to roll back with one more to crash in it;
the trace of `false_synced`, a crash of the first deployment and a push of a
configuration, is within these bounds.
`reclaim` needs two live projects for one to meet the other's live containers,
two faults for a copy that breaks twice or breaks before the operator comes.
In `image` all processes have one definition: two files would need a second one
per process and multiply the states beyond what a run may take, and what is
claimed of two files is proved (`RightStays`). In `health_wait` one poll beyond the
first is enough for a deadline to fall between two. In `delivery` three events
against two slots is the least that drops one.

`CHECK_DEADLOCK FALSE` in the instances of `Reconciler`, which may run out of
identifiers or faults, of `file_store` (all receipts appended) and `delivery`
(the process exited). Elsewhere deadlock is checked.

Each property is stated in its module next to the code behaviour it is about,
and each has a mutant in `PROJECT.json`: a plausible bug that breaks it.

### Fairness

- `Reconciler`, `FairSpec`: weak fairness of `Step(a)` for watch agents: `Run`
  starts another cycle whatever the last one returned, and every step of a cycle
  is a call that returns. Nothing is assumed of one-shot processes, pushes,
  faults or healing. `converges` injects no sickness, since nothing obliges a
  sick container to recover. The liveness properties hold with five identifiers,
  so they do not hold because an instance ran out of them: they would fail there.
- `Fleet`: weak fairness, for each unit, of the steps of a cycle and, for watch
  units, of the next tick and of taking a lock. The lock is polled every 100 ms
  with no queue (`locking.go:55-74`), so a unit meets a lock that stays free, but
  one that others keep taking it may never meet free. Hence two properties, and
  none that says every target converges: `TargetsConverge` is about a target that
  gets its lock again and again, whoever else is on the host, and
  `TargetsComeRound` says that it does so where no other process uses its locks:
  members of a process that share a lock cannot starve each other, as none starts
  its next cycle before all have ended. With a second process starvation is
  possible, in the code and in the model. One-shot commands need never be run
  again. A failing call is never fair.
- `ImageTarget`: weak fairness of the steps of a cycle, strong fairness of taking
  the lock for the watch process. Here the strong one is an assumption the code
  does not enforce: other processes of the image are one-shot syncs, and they are
  taken to leave the lock alone at some poll.
- `Reclaim`: weak fairness of `Apply(p)`: calls to Docker end and the watch loop
  enters the next cycle.
- `HealthWait`: weak fairness of the poll. `Delivery`: weak fairness of each
  goroutine, whose request ends by an answer or by the client's timeout, and of
  the publisher.

### Where the code and its comments differ

Shown by a run:

- `false_synced`: `sync` compares the desired state with a record built from
  itself. After an interrupted configuration change superseded by another
  commit, SYNCED is reported with the interrupted configuration running.
  `CleanHistoryConverges` is the positive side: while every deployment ended
  healthy, SYNCED is true down to the configuration.
- `live_sibling`: a stale container is told from a live one by its directory.
  Two named targets of one Compose file share it, and each takes over the
  other's live container.
- `shared_tree`: plan and diff lock one target, the checkout belongs to the
  project: a plan of one target moves it while another is deployed from it.

Met while modelling, and shown by no run:

- A rollback is planned with no deployed state (`reconcile.go:917`,
  `target.go:641`), so it sees images only. If the failed commit changed just a
  configuration, nothing is applied, and the cycle reports and records a rollback,
  where `resolvePrevDesired` speaks of the complete service model. `Reconciler`
  and `Fleet` both have it; `RollbackRestoresImages` and the second part of
  `RecordsWhatRuns` say what remains true, which is about images.
- The same blindness outlives a crash: a first deployment that dies after its
  commands leaves no previous one to compare with, so a push that changes only
  the configuration may plan nothing for good. `TargetsConverge` and
  `EventuallyConverges` therefore speak of images.
- `status` loads the HEAD of the checkout and not the commit it has fetched
  (`status.go:190`), and moves that checkout without a lock (`status.go:163`).
- The volumes of a renamed project are never moved where the migration image
  refuses `rm -rf /to/.`, as the pinned one does (`reclaim.go:19`, `194`): `Apply`
  fails every time, and a name collision of a service with project volumes never
  heals, where `docs/DECISIONS.md` #54 says that Accorda heals it autonomously.
  `CollisionsHeal` holds of the other services, and of all where `rm` does not
  refuse; without `Movable` it fails.
- A stale container is inspected by ID (`reclaim.go:154`) and removed by name
  (`161`). If an operator removes it in between and another project comes up under
  the name, the live container of that project is removed, where
  `reclaim.go:67-68` promises never to delete a container of a different workload.
- An operator who removes the old container after a broken copy leaves nothing
  that is stale: the next `Apply` migrates nothing and starts the service on the
  half-filled volume. `WholeVolumes` and `OnlyStaleIsRemoved` except the names
  freed in the middle of a move (`taken`), and each fails without that exception.
- Replicas on different images are merged without a word (`runtime.go:68-73`), and
  the first one's image is told, where `target.go:336-339` says that per-replica
  drift is not hidden. An unhealthy replica beside a healthy one makes the service
  degraded, which fails nothing.
- The lock of an image target is its image, not its container
  (`image/builder.go:15`; `wire.go:296-301` says the service name): a process of
  the old `accorda.yaml` and one of the new, between which the image was changed,
  replace one container together. `OneReplacer` is about processes of one image.
- An edit of env or ports in `accorda.yaml` is not deployed by a process that
  finds the recorded commit unchanged: the desired state, which is the edited
  one, is taken for "the exact baseline" (`reconcile.go:402-403`), and SYNCED is
  reported.
- The rollback of an image target runs the image in `accorda.yaml`, the one that
  failed, and is recorded as rolled back.
- Policy `report` does not repair drift, unless the process restarts or a
  one-shot sync runs (`reconcile.go:58-59`).
- A no-op plan can reach the failure path (`reconcile.go:726-727`).
- A power loss in the middle of an append makes the journal unreadable until a
  person repairs it (`filestore.go:18-19` says crash-safe). It fails closed:
  `FailsClosed` shows that no readable answer lacks an acknowledged receipt.
- `ensemble.go:136-139` says a slow workload does not delay the others; each
  tick waits for all of them.
- Lock, Compose project and journal are derived from different fields: unrelated
  documents, and members with Compose directories of one name, may share a lock
  and run one after another; two unnamed Compose targets of one project share a
  Compose project under two locks; target `qa` of member `api` and a member
  `api-qa` have one project name; unnamed image targets share a container name;
  the journal of `.` is that of `default` everywhere.
- A watch process trusts the HEAD it remembers, which another process may have
  deployed away from. If a one-shot sync deploys a commit that differs in
  configuration and the branch then moves back, the watch sees an unchanged HEAD
  and right images, and reports SYNCED with the other configuration running.
- `HealthWait` ends at once on starting and healthy replicas of one service,
  though `reconcile.go:608-610` says Health waits.

## Proofs

TLAPS proves, for every value of the constants that satisfies the named
assumptions of the modules, however many agents, commits, services, receipts,
units, events and faults there are:

| Module | Theorems |
|---|---|
| `ReconcilerProofs` | `Typing`, `MutualExclusion`, `WriteAheadHolds`: `TypeOK`, `OneCycleAtATime`, `WriteAhead`; `RollbackRestores` (`RollbackRestoresImages`); `DriftIsWhatRepairPlans`: `Compare` reports drift for a commit against itself exactly when `DriftActions` has something to do; `CycleIsForward` (`CycleGoesForward`), `CycleIsNeverStuck` |
| `LedgerProofs` | `Implements`: every step is one of `DeploymentLedger` or a stutter, for both values of `Lossy`; `OneOpen`, `SyncedCloses` when the store keeps every receipt (`Lossless`); `CleanHistory` (`CleanHistoryConverges`) under `Fresh`, `Lossless` and `OneMind` |
| `FileStoreProofs` | `StoreTyping`, `NeverLess` (`FailsClosed`), `KeepsPromise` (`ImplementsStore`) |
| `FleetProofs` | `FleetTyping`, `FleetLocksInCycles`, `FleetCycleIsForward`; under `Isolation`, `FleetRecords`, `FleetPlans`, `FleetOneDeployer`, `FleetGoesBack`; `WiredIsolation`: when a document gives `Isolation` |
| `ReclaimProofs` | under `Apart`, `ReclaimTyping`, `ReclaimKeepsVolumes`, `ReclaimSpares`, `ReclaimKeepsRunning`, `ReclaimRunsOut`, `ReclaimUnblocks`, `ReclaimFinishes` |
| `HealthProofs` | `HealthTyping`, `HealthIsConclusive`, `HealthFailsForAReason`, `HealthHidesNothing`, `HealthWaitRunsOut` |
| `DeliveryProofs` | `DeliveryTyping`, `DeliverySlots`, `DeliveryIsTold`, `DeliveryRetries`, `DeliveryRunsOut` |
| `ImageProofs` | `Typing`, `ImageCycleIsForward`, `ImageCycleIsNeverStuck`, `ImagePlansAreOwn`; `OneAtATime` (`OneReplacer`) and `RightStays` (`RightIsLeftAlone`), of processes of any files |

None of the invariants of `Reconciler` is inductive alone. `Inv` is `TypeOK` and, for each
agent (`AgentInv`): inside a cycle it holds the lock (`HoldsLock`); it has a
commit, an identifier or a previous revision from the place in the cycle where
it gets them (`KnowsCommit`, `KnowsId`, `CanDraw`, `KnowsPrevious`); its plan
brings up declared services only (`PlanFits`); what it holds as pending is open
in the journal (`PendingIsOpen`), and what it deploys is what is pending
(`DeploysPending`). A step of one agent leaves the others idle, because it holds
the lock: `StepGood` treats the agent that moved, and the others are bound by
nothing. `LedgerInv` adds how the deployment of each agent stands in the journal
(`Standing`): it is pending exactly while the journal has it in progress, and
with nothing pending and no receipt lost nothing is open. From it every append
maps to the step of the ledger that its receipt names. The head of
`ReconcilerProofs` holds the lemmas about appending: which checkpoints stay open,
which outcome changes.

`RollbackRestores` rests on one more fact (`RollsBack`): the containers that the
rest of a rollback's plan leaves alone (`Left`) already have the image of the
commit it restores. `PlanLeaves` shows it of the plan, `CommandLeaves` of a
command; when the plan is empty, everything is left alone. Only the lock keeps
other agents from undoing it (`OthersRest`).

`CleanHistory` says what a SYNCED is worth. The runtime does not report its
configuration, so a cycle trusts what it remembers, and the theorem says when it
may: on a target no one used before (`Fresh`: adopted containers may have any
configuration), with a store that loses no receipt (`Lossless`: a lost one hides
a deployment), and with one memory (`OneMind`: a single watch process, or any
number of one-shot ones; see the false SYNCED above). The invariant, `CleanInv`,
follows a deployment that is interrupted: every container is as the last healthy
commit declares it or as the one open deployment does (`Mixed`); what an agent
takes for deployed and the HEAD it remembers are true in the same sense
(`Trusts`); what its plan leaves alone already runs as declared (`Owes`); and a
cycle without a deployment has shown that its commit declares what was deployed
(`Shown`). A plan that resumes an open deployment is sound although it knows only
the last healthy commit, because what it takes for unchanged is then either as
both commits declare it or already deployed (`PlanOwes`).

For the file, `FailsClosed` needs to know where an acknowledged receipt is.
`StoreInv` says: the synced lines, if they decode, hold every acknowledged
receipt (`SyncedTold`); the page cache still shows each synced line or has
spoilt it, and a spoilt line makes the whole file undecodable (`Kept`); a write
waiting for its sync is in the file (`WrittenTold`). `SurvivalLines` is the
heart of it: what a power loss leaves and still decodes is a beginning of the
file no shorter than what was synced.

The theorems about what `Fleet` records, plans and deploys hold of hosts on which units that share a checkout, a
deploy file, a Compose project or a journal meet on a lock, and a status reads a
checkout of its own. `Isolation` states it; the hosts of `fleet` satisfy it, and
`shared_tree` is a host that does not. The inductive invariant says that a unit
inside a cycle holds its lock (`Locked`) and, place by place (`Ready`), which way
it is heading (`InPlace`), how its checkout and what it loaded from there stand to
the commit it works on (`Read`), that what it compares with are the definitions
of the previous deployment, the last healthy one if there is one (`Compares`),
and what is rendered and runs (`Runs`). That commit is `Target`: the one fetched
or, in a rollback, the previous one; a rollback with nothing to apply is why
`Runs` speaks of its image only. A step of another unit touches nothing `Ready`
reads, as the lock keeps that unit out of whatever is shared: `Undisturbed`.
`FleetGoesBack` adds that nothing recorded, remembered, rendered or running is
ahead of what was fetched (`Behind`, `Ahead`).

`WiredIsolation` ties `Isolation` to the code: it holds for the units of one
process of any accepted document, and for those of any number of sync, watch,
plan and diff processes of a document whose projects have one target each;
beside them any number of statuses may read documents in directories of their
own (`Documented`). Five hosts of `fleet` are of one document, and the sixth
adds such a status; `shared_tree` is none. The argument is that two members share no checkout, file, journal or Compose project
(`MembersApart`). For the last, what `ValidateEnsemble` checks is not enough,
as a project is deployed under member and target name joined by a hyphen:
`Unambiguous` also asks that a member with named targets is not the beginning of
another member's name. `FlattenSeq` is recursive, so the theorem speaks of the
jobs of a host (`Located`, `IsOf`) and not of `FleetOf`, which lists them.

The theorems about `Reclaim` assume that no two deployed projects have one
directory (`Apart`), which `live_sibling` shows to be needed. Staleness goes away
and never comes back, as only deployed projects take names (`Antitone`), and they
also take the names that an operator freed in the middle of a move (`taken`), of
which the theorems say nothing. The
invariant: what an older deployment leaves to be moved is whole (`Untouched`); a
project that runs anything has no stale name left (`Settled`); what a broken
copy left is a volume of a name that is still stale, so that the next `Apply`
copies it again, or of one taken (`Salvaged`); the volumes of a name that was
freed by a removal have been copied (`Moved`); and an `Apply` under way knows the
stale names (`Knows`). It holds in both worlds of `clears`.
`HealthProofs` ties the status and health of a merged entry to the replicas
inspected so far (`Merged`), and a verdict to the entries (`Concluded`). `DeliveryProofs` says for each event
how its stage, requests, answer and report go together (`Kept`), and counts the
tokens in the channel.

For the image target, a process inside a cycle holds the lock of its image
(`Held`), and the one about to replace the container has found it wrong, and
nobody has put it right since (`Wrong`). A process of the same image is kept out
by the lock. One whose file has another image is not, but whatever it does leaves
the container wrong for the first, which may then still replace it: so
`RightStays` needs no assumption about the files. That two such processes take
turns at one container it does not exclude; the case is listed above.

Liveness is out of TLAPS's reach; what a liveness argument rests on is not, and
is proved for every value of the constants:

- *Every step takes the cycle on.* The places of a cycle have an order
  (`Course`; in `Fleet`, `Places` and `Attempts`). A step of a process, a failing one included, ends the cycle, goes
  to a later place or runs a command off the plan; it turns back only for a
  commit that arrived meanwhile (`CycleIsForward`, `ImageCycleIsForward`,
  `FleetCycleIsForward`). So nothing in a cycle is retried, and a cycle that no
  commit interrupts holds its lock for a number of steps its plans bound. The
  in-flight loop of `Reconciler` has no bound of its own, here as in the code:
  commits that keep arriving keep the lock taken.
- *Every delivery, wait and `Apply` runs out.* `DeliveryRunsOut` counts the steps
  a delivery has left, whatever the receiver does; `HealthWaitRunsOut` leads to
  the deadline, whatever containers do; `ReclaimRunsOut` has an `Apply` leave
  less to do with each step, whatever other projects do.
- *No place is a dead end.* The plan a cycle needs exists, its command has an
  outcome and the comparison one of the answers the code looks for
  (`CycleIsNeverStuck`, `ImageCycleIsNeverStuck`); an `Apply` has freed every
  stale name when it comes to its "up" (`ReclaimUnblocks`), keeps what earlier
  ones brought up (`ReclaimKeepsRunning`) and returns with all of it running
  (`ReclaimFinishes`), the taken names excepted. For this the invariant of `ImageTarget` says what its
  plans are made of, and that its driver never removes (`ImagePlansAreOwn`).
- *Nobody waits for a waiting unit.* A lock is held only by a unit inside a cycle
  that needs it, which takes no second one, whatever crashed before
  (`FleetLocksInCycles`).

What joins these to liveness, fairness and the ENABLED of a step, is left to
TLC: `EventuallyConverges`, `EveryDeploymentEnds`, `TargetsConverge`,
`TargetsComeRound`, `CollisionsHeal`, `WaitEnds`, `CapacityReturns` and `ComesBack`.

## Not modelled

- Cancellation of a context during a cycle: the failure path then runs with a
  cancelled context, and a Compose child may outlive its agent and lock.
- Sources read in place (`source.path`): nothing orders the user of a worktree
  against a cycle, so any property of what is deployed fails trivially.
- `depends_on` and the label every deployment stamps on all services.
- Authentication and the directory layout of the Git cache; wall-clock time
  other than the deadlines of `HealthWait` and the backoff of `Delivery`.
- The parsing and rendering of Compose and configuration files, redaction,
  output and the commands that only print (history, logs, inspect, doctor):
  data and presentation.

What a later extension could take up: cancellation in `Reconciler`, and a
`Wiring` of several documents on one host.
