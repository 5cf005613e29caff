-------------------------------- MODULE Wiring --------------------------------
(****************************************************************************)
(* How accorda.yaml becomes reconciliation units (internal/config,          *)
(* cmd/accorda/wire.go, internal/targets/compose/builder.go): for every     *)
(* target, the Git checkout it reads, the Compose file it renders, the lock *)
(* it takes, the Compose project it deploys and the journal it keeps.  The  *)
(* five keys are derived from different parts of the document, and what is  *)
(* safe to run together depends on which of them coincide.                  *)
(*                                                                          *)
(* A name is the sequence of its hyphen-separated parts (<<>> is no name),  *)
(* and is already normalized; a directory is the sequence of its elements.  *)
(* Targets are Compose targets with a file relative to the repository.      *)
(*   target   [name, dir]: targets[].name, and the directory of its file    *)
(*   project  [name, url, targets]                                          *)
(*   document [dir, given, projects]: the directory it was loaded from,     *)
(*            absolute, and as the command line gave it (<<>> is ".")       *)
(*   command  [kind, doc]: one accorda process                              *)
(****************************************************************************)
EXTENDS Naturals, Sequences, FiniteSets, SequencesExt

NoName == <<>>
Base(dir) == Last(dir)

\* Target.Identity: the name, or the type with the configured path.
Identity(t) == IF t.name # NoName THEN t.name ELSE t.dir

\* ValidateTargets: there are targets, and their identities are unique.
TargetsAccepted(p) ==
  p.targets # <<>> /\ IsInjective([j \in DOMAIN p.targets |-> Identity(p.targets[j])])

\* ValidateEnsemble: members are named and their names unique.
Accepted(doc) ==
  /\ doc.projects # <<>>
  /\ Len(doc.projects) > 1 => \A i \in DOMAIN doc.projects : doc.projects[i].name # NoName
  /\ IsInjective([i \in DOMAIN doc.projects |-> doc.projects[i].name])
  /\ \A i \in DOMAIN doc.projects : TargetsAccepted(doc.projects[i])
-----------------------------------------------------------------------------
Disambiguate(t, base) == base \o t.name

\* Mutant: the cache is keyed by the repository alone.
CheckoutOfURL(doc, p) == <<p.url>>

\* buildSource: the cache namespace is the document's directory and member name.
Checkout(doc, p) == <<p.url, IF p.name = NoName THEN doc.dir ELSE Append(doc.dir, p.name)>>

\* resolveComposePaths: the target's file within the checkout.
ComposeFile(doc, p, t) == <<Checkout(doc, p), t.dir>>

\* lockIdentityFromConfig: the Compose project name the file's directory would
\* give it beside accorda.yaml, whatever the member is called.
LockIdentity(doc, t) == Disambiguate(t, Base(doc.dir \o t.dir))

\* Mutant: every member deploys under the name of the document's directory.
WorkloadOfDir(doc, p, t) == Disambiguate(t, Base(doc.dir))

\* projectForContext: the member name, or the document's directory.
Workload(doc, p, t) ==
  Disambiguate(t, IF p.name # NoName THEN p.name ELSE Base(doc.dir))

\* targetReceiptPath: the directory as given, the member, and the target when
\* the project has several.
Journal(doc, p, t) ==
  <<IF doc.given = <<>> THEN <<<<"default">>>> ELSE doc.given, p.name,
    IF Len(p.targets) = 1 THEN <<>> ELSE Identity(t)>>

\* buildTargetReconciler: what one target's cycle works on.
Job(doc, p, t) ==
  [checkout |-> Checkout(doc, p),
   file     |-> ComposeFile(doc, p, t),
   lock     |-> LockIdentity(doc, t),
   workload |-> Workload(doc, p, t),
   journal  |-> Journal(doc, p, t)]

Jobs(doc, p) == [j \in DOMAIN p.targets |-> Job(doc, p, p.targets[j])]

\* sync runs a goroutine per project; plan, diff and status go through the
\* projects in a loop.
Units(command, agent) ==
  LET doc == command.doc
      all == [i \in DOMAIN doc.projects |-> Jobs(doc, doc.projects[i])]
      Unit(jobs) == [agent |-> agent, kind |-> command.kind, jobs |-> jobs]
  IN  IF command.kind \in {"watch", "sync"}
      THEN [i \in DOMAIN all |-> Unit(all[i])]
      ELSE <<Unit(FlattenSeq(all))>>

\* The units of several processes on one host.
FleetOf(commands) == FlattenSeq([a \in DOMAIN commands |-> Units(commands[a], a)])
=============================================================================
