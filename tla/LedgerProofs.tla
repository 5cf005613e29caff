----------------------------- MODULE LedgerProofs -----------------------------
(****************************************************************************)
(* Reconciler implements DeploymentLedger, and what follows from the same   *)
(* invariant when the store keeps every receipt it is given: one open       *)
(* deployment at most, none behind a SYNCED, and a SYNCED that is true down *)
(* to the configuration while every deployment ends healthy.                *)
(****************************************************************************)
EXTENDS ReconcilerProofs

Lossless == "journal" \notin FaultKinds

Stands(a) == OutcomeOf(journal, cyc[a].id)

(****************************************************************************)
(* The inductive invariant: what an agent knows of the journal without      *)
(* reading it again.  It holds its deployment as pending exactly while the  *)
(* journal has it in progress; with nothing pending, and no receipt lost,   *)
(* nothing is open.                                                         *)
(****************************************************************************)

\* A checkpoint of another commit does not outlive VALIDATING.
Resumable(a) ==
  pc[a] = "planning" /\ pending[a] # None => pending[a].commit = cyc[a].commit

\* The plan and the pending receipt agree on whether a receipt is due.
DuePending(a) ==
  /\ pc[a] = "checkpoint" => pending[a] = None /\ cyc[a].changed
  /\ pc[a] = "deploying" => cyc[a].changed
  /\ pc[a] \in {"verifying", "comparing"} =>
       (pending[a] # None <=> cyc[a].changed \/ cyc[a].recovering)
  /\ pc[a] = "closing" => pending[a] # None
  /\ pc[a] \in {"inflight", "driftHealth", "driftCompare"} => pending[a] = None

KnowsStanding(a) ==
  /\ pc[a] = "checkpoint" => Stands(a) = "none"
  /\ pc[a] \in {"deploying", "verifying", "comparing", "closing", "failing"} =>
       Stands(a) = IF pending[a] = None THEN "none" ELSE "in_progress"
  /\ pc[a] \in {"restoring", "rolling", "rolledback"} =>
       Stands(a) = "failed" \/ (~Lossless /\ Stands(a) \in {"none", "in_progress"})

NothingOpen(a) ==
  Lossless /\ pc[a] \in OnCourse \cup {"driftHealth", "driftCompare"} /\ pending[a] = None =>
    OpenIds(journal) = {}

Standing(a) == Resumable(a) /\ DuePending(a) /\ KnowsStanding(a) /\ NothingOpen(a)

LedgerInv ==
  /\ Inv
  /\ Lossless => OneOpenDeployment
  /\ \A a \in Agents : Standing(a)

THEOREM InitLedgerInv == Init => LedgerInv
<1> SUFFICES ASSUME Init PROVE LedgerInv
  OBVIOUS
<1>1. Inv
  BY InitInv
<1>2. OneOpenDeployment
  BY DEF Init, OneOpenDeployment, OpenIds, OpenAt
<1>3. \A a \in Agents : pc[a] = "idle"
  BY DEF Init
<1>4. \A a \in Agents : Standing(a)
  BY <1>3 DEF Standing, Resumable, DuePending, KnowsStanding, NothingOpen, OnCourse
<1> QED BY <1>1, <1>2, <1>4 DEF LedgerInv
-----------------------------------------------------------------------------
(* A step of one agent, as the ledger sees it. *)

Recorded == [Ledger!Next]_outcome

Accounts(a) == Standing(a)' /\ (Lossless => OneOpenDeployment') /\ Recorded

LEMMA IdleStandingNext ==
  ASSUME NEW a \in Agents, pc'[a] = "idle"
  PROVE  Standing(a)'
BY DEF Standing, Resumable, DuePending, KnowsStanding, NothingOpen, OnCourse

\* Nothing is written: the ledger stutters.
LEMMA QuietAccounts ==
  ASSUME LedgerInv, NEW a \in Agents, journal' = journal, Standing(a)'
  PROVE  Accounts(a)
<1>1. outcome' = outcome
  BY DEF outcome
<1>2. Lossless => OneOpenDeployment'
  BY DEF LedgerInv, OneOpenDeployment
<1> QED BY <1>1, <1>2 DEF Accounts, Recorded

LEMMA IdleAccounts ==
  ASSUME LedgerInv, NEW a \in Agents, journal' = journal, pc'[a] = "idle"
  PROVE  Accounts(a)
BY QuietAccounts, IdleStandingNext

\* One receipt is written: one deployment stands as the receipt says.
LEMMA AppendBecomes ==
  ASSUME journal \in Seq(Receipt), NEW r \in Receipt, journal' = Append(journal, r)
  PROVE  outcome' = [outcome EXCEPT ![r.id] = r.result]
<1>1. \A id \in DeploymentIDs : OutcomeOf(journal', id) =
                                IF id = r.id THEN r.result ELSE OutcomeOf(journal, id)
  BY AppendOutcome
<1> QED BY <1>1 DEF outcome

LEMMA OutcomeAt ==
  ASSUME NEW id \in DeploymentIDs
  PROVE  outcome[id] = OutcomeOf(journal, id)
BY DEF outcome

\* Which steps of the ledger a receipt stands for.
LEMMA EndRecorded ==
  ASSUME journal \in Seq(Receipt), NEW r \in Receipt, journal' = Append(journal, r),
         r.result \in {"healthy", "failed", "interrupted"},
         OutcomeOf(journal, r.id) = "in_progress"
  PROVE  Recorded
<1>1. r.id \in DeploymentIDs
  BY DEF Receipt
<1>2. Ledger!End(r.id)
  BY <1>1, AppendBecomes, OutcomeAt DEF Ledger!End, Ledger!Become
<1> QED BY <1>1, <1>2 DEF Recorded, Ledger!Next

LEMMA UnannouncedRecorded ==
  ASSUME journal \in Seq(Receipt), NEW r \in Receipt, journal' = Append(journal, r),
         r.result = "failed", OutcomeOf(journal, r.id) = "none"
  PROVE  Recorded
<1>1. r.id \in DeploymentIDs
  BY DEF Receipt
<1>2. Ledger!FailUnannounced(r.id)
  BY <1>1, AppendBecomes, OutcomeAt DEF Ledger!FailUnannounced, Ledger!Become
<1> QED BY <1>1, <1>2 DEF Recorded, Ledger!Next

LEMMA RollBackRecorded ==
  ASSUME journal \in Seq(Receipt), NEW r \in Receipt, journal' = Append(journal, r),
         r.result = "rolled_back",
         \/ OutcomeOf(journal, r.id) = "failed"
         \/ ~Lossless /\ OutcomeOf(journal, r.id) \in {"none", "in_progress"}
  PROVE  Recorded
<1>1. r.id \in DeploymentIDs
  BY DEF Receipt
<1>2. Ledger!RollBack(r.id)
  BY <1>1, AppendBecomes, OutcomeAt DEF Ledger!RollBack, Ledger!Become, Lossless
<1> QED BY <1>1, <1>2 DEF Recorded, Ledger!Next

LEMMA StartRecorded ==
  ASSUME journal \in Seq(Receipt), NEW r \in Receipt, journal' = Append(journal, r),
         r.result = "in_progress", OutcomeOf(journal, r.id) = "none",
         Lossless => OpenIds(journal) = {}
  PROVE  Recorded
<1>1. r.id \in DeploymentIDs
  BY DEF Receipt
<1>2. Lossless => Ledger!UnderWay = {}
  BY OpenIsInProgress, OutcomeAt DEF Ledger!UnderWay
<1>3. Ledger!Start(r.id)
  BY <1>1, <1>2, AppendBecomes, OutcomeAt DEF Ledger!Start, Ledger!Become, Lossless
<1> QED BY <1>1, <1>3 DEF Recorded, Ledger!Next

\* The deployment pending in a cycle on course is in progress.
LEMMA PendingInProgress ==
  ASSUME LedgerInv, NEW a \in Agents, pc[a] \in OnCourse, pending[a] # None
  PROVE  /\ pending[a] \in Receipt
         /\ pending[a].id \in OpenIds(journal)
         /\ OutcomeOf(journal, pending[a].id) = "in_progress"
<1>1. pending[a] \in Receipt /\ journal \in Seq(Receipt)
  BY DEF LedgerInv, Inv, TypeOK
<1>2. \E i \in OpenAt(journal) : journal[i] = pending[a]
  BY DEF LedgerInv, Inv, AgentInv, PendingIsOpen
<1>3. pending[a].id \in OpenIds(journal)
  BY <1>2 DEF OpenIds
<1> QED BY <1>1, <1>3, OpenIsInProgress

\* A terminal receipt opens nothing, and closes the only open deployment.
LEMMA ClosingOne ==
  ASSUME journal \in Seq(Receipt), NEW r \in Receipt, r.result # "in_progress",
         journal' = Append(journal, r), OneOpenDeployment
  PROVE  /\ OneOpenDeployment'
         /\ r.id \in OpenIds(journal) => OpenIds(journal') = {}
<1>1. OpenIds(journal') = OpenIds(journal) \ {r.id}
  BY AppendTerminal
<1> QED BY <1>1 DEF OneOpenDeployment

LEMMA BeginAccounts ==
  ASSUME LedgerInv, NEW a \in Agents, Begin(a)
  PROVE  Accounts(a)
<1>1. PICK r \in OrNone(Unfinished(journal)) : pending' = [pending EXCEPT ![a] = r]
  BY DEF Begin
<1>2. journal \in Seq(Receipt)
  BY DEF LedgerInv, Inv, TypeOK
<1>3. r = None => OpenIds(journal) = {}
  <2>1. ASSUME r \in Unfinished(journal) PROVE r # None
    BY <1>2, <2>1, UnfinishedIsOpen, ReconcilerAssumption DEF OpenAt
  <2> QED BY <1>2, <2>1, UnfinishedIsOpen DEF OrNone
<1>4. journal' = journal /\ pc'[a] = "fetching" /\ pending'[a] = r
  BY <1>1 DEF Begin, Goto, LedgerInv, Inv, TypeOK
<1>5. Standing(a)'
  BY <1>3, <1>4 DEF Standing, Resumable, DuePending, KnowsStanding, NothingOpen, OnCourse
<1> QED BY <1>4, <1>5, QuietAccounts

LEMMA FetchAccounts ==
  ASSUME LedgerInv, NEW a \in Agents, Fetch(a)
  PROVE  Accounts(a)
<1>1. journal' = journal
  BY DEF Fetch
<1>2. Standing(a)'
  BY DEF Fetch, Goto, memory, LedgerInv, Inv, TypeOK, Standing, Resumable,
         DuePending, KnowsStanding, Stands, NothingOpen, OnCourse
<1> QED BY <1>1, <1>2, QuietAccounts

LEMMA ValidateAccounts ==
  ASSUME LedgerInv, NEW a \in Agents, Validate(a)
  PROVE  Accounts(a)
<1> DEFINE closed == [pending[a] EXCEPT !.result = "interrupted"]
<1>1. pc[a] = "validating" /\ pc'[a] = "planning" /\ cyc' = cyc /\ journal \in Seq(Receipt)
  BY DEF Validate, Goto, LedgerInv, Inv, TypeOK
<1>2. CASE /\ pending[a] = None \/ pending[a].commit = cyc[a].commit
           /\ UNCHANGED <<journal, pending>>
  <2>1. Standing(a)'
    BY <1>1, <1>2 DEF LedgerInv, Inv, TypeOK, Standing, Resumable,
         DuePending, KnowsStanding, Stands, NothingOpen, OnCourse
  <2> QED BY <1>2, <2>1, QuietAccounts
<1>3. CASE /\ pending[a] # None
           /\ journal' = Append(journal, closed)
           /\ pending' = [pending EXCEPT ![a] = None]
  <2>1. /\ pending[a] \in Receipt /\ pending[a].id \in OpenIds(journal)
        /\ OutcomeOf(journal, pending[a].id) = "in_progress"
    BY <1>1, <1>3, PendingInProgress DEF OnCourse
  <2>2. closed \in Receipt /\ closed.id = pending[a].id /\ closed.result = "interrupted"
    BY <2>1, InterruptedType
  <2> HIDE DEF closed
  <2>3. Recorded
    BY <1>1, <1>3, <2>1, <2>2, EndRecorded
  <2>4. Lossless => OneOpenDeployment' /\ OpenIds(journal') = {}
    BY <1>1, <1>3, <2>1, <2>2, ClosingOne DEF LedgerInv
  <2>5. pending'[a] = None
    BY <1>3 DEF LedgerInv, Inv, TypeOK
  <2>6. Standing(a)'
    BY <1>1, <2>4, <2>5 DEF Standing, Resumable, DuePending, KnowsStanding, NothingOpen, OnCourse
  <2> QED BY <2>3, <2>4, <2>6 DEF Accounts
<1> QED BY <1>1, <1>2, <1>3 DEF Validate

LEMMA PlanAccounts ==
  ASSUME LedgerInv, NEW a \in Agents, Plan(a)
  PROVE  Accounts(a)
<1> DEFINE c == cyc[a].commit
           recovering == pending[a] # None /\ pending[a].commit = c
           id == IF recovering THEN pending[a].id ELSE NewId
           planned(plan) == Planned(cyc[a], id, recovering, Changed(plan), plan)
<1>1. /\ pc[a] = "planning" /\ journal \in Seq(Receipt) /\ cyc[a] \in Cycle
      /\ UNCHANGED <<journal, pending>>
  BY DEF Plan, LedgerInv, Inv, TypeOK, memory
<1>2. PICK plan : /\ cyc' = [cyc EXCEPT ![a] = planned(plan)]
                  /\ Goto(a, IF ~Changed(plan) THEN "verifying"
                             ELSE IF recovering THEN "deploying" ELSE "checkpoint")
  BY DEF Plan, Planned
<1>3. recovering <=> pending[a] # None
  BY <1>1 DEF LedgerInv, Standing, Resumable
<1>4. OutcomeOf(journal, id) = IF pending[a] = None THEN "none" ELSE "in_progress"
  <2>1. CASE pending[a] # None
    BY <1>1, <1>3, <2>1, PendingInProgress DEF OnCourse
  <2>2. CASE pending[a] = None
    <3>1. FreshIds # {}
      BY <1>1 DEF LedgerInv, Inv, AgentInv, CanDraw
    <3>2. NewId \notin UsedIds(journal)
      BY <3>1 DEF NewId, FreshIds
    <3> QED BY <1>1, <1>3, <2>2, <3>2, UnusedOutcome
  <2> QED BY <2>1, <2>2
<1> HIDE DEF id, recovering
<1>5. /\ planned(plan).id = id
      /\ planned(plan).changed <=> Changed(plan)
      /\ planned(plan).recovering <=> recovering
  BY <1>1 DEF Planned, Cycle
<1> HIDE DEF planned
<1>6. /\ cyc'[a] = planned(plan)
      /\ pc'[a] = IF ~Changed(plan) THEN "verifying"
                  ELSE IF recovering THEN "deploying" ELSE "checkpoint"
  BY <1>2 DEF Goto, LedgerInv, Inv, TypeOK
<1>7. Standing(a)'
  BY <1>1, <1>3, <1>4, <1>5, <1>6
     DEF LedgerInv, Standing, Resumable, DuePending, KnowsStanding, Stands, NothingOpen, OnCourse
<1> QED BY <1>1, <1>7, QuietAccounts

LEMMA CheckpointAccounts ==
  ASSUME LedgerInv, NEW a \in Agents, Checkpoint(a)
  PROVE  Accounts(a)
<1> DEFINE r == NewReceipt(cyc[a].id, cyc[a].commit, "in_progress")
<1>1. /\ pc[a] = "checkpoint" /\ pc'[a] = "deploying" /\ cyc' = cyc
      /\ journal \in Seq(Receipt) /\ journal' = Append(journal, r)
      /\ pending' = [pending EXCEPT ![a] = r] /\ pending'[a] = r
  BY DEF Checkpoint, Goto, LedgerInv, Inv, TypeOK
<1>2. r \in Receipt /\ r.result = "in_progress" /\ r.id = cyc[a].id
  BY <1>1, ReceiptType DEF LedgerInv, Inv, AgentInv, KnowsCommit, KnowsId, Deployment
<1> HIDE DEF r
<1>3. /\ OutcomeOf(journal, r.id) = "none" /\ cyc[a].changed
      /\ Lossless => OpenIds(journal) = {}
  BY <1>1, <1>2
     DEF LedgerInv, Standing, DuePending, KnowsStanding, Stands, NothingOpen, OnCourse
<1>4. Recorded
  BY <1>1, <1>2, <1>3, StartRecorded
<1>5. Lossless => OneOpenDeployment'
  BY <1>1, <1>2, <1>3, AppendCheckpoint DEF OneOpenDeployment
<1>6. OutcomeOf(journal', cyc[a].id) = "in_progress" /\ r # None
  BY <1>1, <1>2, AppendOutcome, ReconcilerAssumption
<1>7. Standing(a)'
  BY <1>1, <1>3, <1>6
     DEF Standing, Resumable, DuePending, KnowsStanding, Stands, NothingOpen, OnCourse
<1> QED BY <1>4, <1>5, <1>7 DEF Accounts

\* The store reports an error only where it may lose a receipt.
LEMMA LossyFails ==
  ASSUME NEW r, AppendFails(r)
  PROVE  ~Lossless /\ journal' \in {journal, Append(journal, r)}
BY DEF AppendFails, Fault, Lossless

LEMMA LossyDrops ==
  ASSUME NEW r, BestEffort(r)
  PROVE  \/ journal' = Append(journal, r)
         \/ ~Lossless /\ journal' = journal
BY DEF BestEffort, Fault, Lossless

LEMMA InterruptFailsAccounts ==
  ASSUME LedgerInv, NEW a \in Agents, InterruptFails(a)
  PROVE  Accounts(a)
<1> DEFINE closed == [pending[a] EXCEPT !.result = "interrupted"]
<1>1. pc[a] = "validating" /\ pending[a] # None /\ journal \in Seq(Receipt)
  BY DEF InterruptFails, LedgerInv, Inv, TypeOK
<1>2. pc'[a] = "idle"
  BY FailFacts DEF InterruptFails, LedgerInv, Inv
<1>3. ~Lossless /\ journal' \in {journal, Append(journal, closed)}
  BY LossyFails DEF InterruptFails
<1>4. CASE journal' = journal
  BY <1>2, <1>4, IdleAccounts
<1>5. CASE journal' = Append(journal, closed)
  <2>1. pending[a] \in Receipt /\ OutcomeOf(journal, pending[a].id) = "in_progress"
    BY <1>1, PendingInProgress DEF OnCourse
  <2>2. closed \in Receipt /\ closed.id = pending[a].id /\ closed.result = "interrupted"
    BY <2>1, InterruptedType
  <2> HIDE DEF closed
  <2>3. Recorded
    BY <1>1, <1>5, <2>1, <2>2, EndRecorded
  <2> QED BY <1>2, <1>3, <2>3, IdleStandingNext DEF Accounts
<1> QED BY <1>3, <1>4, <1>5

LEMMA CheckpointFailsAccounts ==
  ASSUME LedgerInv, NEW a \in Agents, CheckpointFails(a)
  PROVE  Accounts(a)
<1> DEFINE r == NewReceipt(cyc[a].id, cyc[a].commit, "in_progress")
<1>1. pc[a] = "checkpoint" /\ journal \in Seq(Receipt)
  BY DEF CheckpointFails, LedgerInv, Inv, TypeOK
<1>2. pc'[a] = "idle"
  BY FailFacts DEF CheckpointFails, LedgerInv, Inv
<1>3. r \in Receipt /\ r.result = "in_progress" /\ r.id = cyc[a].id
  BY <1>1, ReceiptType DEF LedgerInv, Inv, AgentInv, KnowsCommit, KnowsId, Deployment
<1>4. ~Lossless /\ journal' \in {journal, Append(journal, r)}
  BY LossyFails DEF CheckpointFails
<1> HIDE DEF r
<1>5. OutcomeOf(journal, r.id) = "none"
  BY <1>1, <1>3 DEF LedgerInv, Standing, KnowsStanding, Stands
<1>6. CASE journal' = journal
  BY <1>2, <1>6, IdleAccounts
<1>7. CASE journal' = Append(journal, r)
  <2>1. Recorded
    BY <1>1, <1>3, <1>4, <1>5, <1>7, StartRecorded
  <2> QED BY <1>2, <1>4, <2>1, IdleStandingNext DEF Accounts
<1> QED BY <1>4, <1>6, <1>7

LEMMA DeployAccounts ==
  ASSUME LedgerInv, NEW a \in Agents, Deploy(a)
  PROVE  Accounts(a)
<1>1. /\ pc[a] = "deploying" /\ pc'[a] \in {"deploying", "verifying"}
      /\ UNCHANGED <<journal, pending>>
  BY DEF Deploy, Goto, memory, LedgerInv, Inv, TypeOK
<1>2. PICK command \in Due(cyc[a].todo) : cyc' = [cyc EXCEPT ![a].todo = @ \ command]
  BY DEF Deploy
<1>3. cyc'[a].id = cyc[a].id /\ cyc'[a].changed = cyc[a].changed
  BY <1>2 DEF LedgerInv, Inv, TypeOK, Cycle
<1>4. cyc[a].changed /\ pending[a] # None
  BY <1>1 DEF LedgerInv, Inv, AgentInv, DeploysPending, Standing, DuePending
<1>5. Standing(a)'
  BY <1>1, <1>3, <1>4
     DEF LedgerInv, Standing, Resumable, DuePending, KnowsStanding, Stands, NothingOpen, OnCourse
<1> QED BY <1>1, <1>5, QuietAccounts

LEMMA DeployFailsAccounts ==
  ASSUME LedgerInv, NEW a \in Agents, DeployFails(a)
  PROVE  Accounts(a)
<1>1. /\ pc[a] = "deploying" /\ pc'[a] = "failing"
      /\ UNCHANGED <<journal, pending, cyc>>
  BY DEF DeployFails, Goto, memory, LedgerInv, Inv, TypeOK
<1>2. Standing(a)'
  BY <1>1
     DEF LedgerInv, Standing, Resumable, DuePending, KnowsStanding, Stands, NothingOpen, OnCourse
<1> QED BY <1>1, <1>2, QuietAccounts

LEMMA VerifyAccounts ==
  ASSUME LedgerInv, NEW a \in Agents, Verify(a)
  PROVE  Accounts(a)
<1>1. /\ pc[a] = "verifying" /\ pc'[a] \in {"comparing", "failing"}
      /\ UNCHANGED <<journal, pending, cyc>>
  BY DEF Verify, Goto, memory, LedgerInv, Inv, TypeOK
<1>2. Standing(a)'
  BY <1>1
     DEF LedgerInv, Standing, Resumable, DuePending, KnowsStanding, Stands, NothingOpen, OnCourse
<1> QED BY <1>1, <1>2, QuietAccounts

LEMMA CompareDeployedAccounts ==
  ASSUME LedgerInv, NEW a \in Agents, CompareDeployed(a)
  PROVE  Accounts(a)
<1>1. pc[a] = "comparing" /\ UNCHANGED <<journal, pending>>
  BY DEF CompareDeployed
<1>2. CASE Return(a, Report("healthy", cyc[a].commit, None))
  <2>1. pc'[a] = "idle"
    BY <1>2 DEF Return, Goto, LedgerInv, Inv, TypeOK
  <2> QED BY <1>1, <2>1, IdleAccounts
<1>3. CASE Goto(a, "repairPlan")
  <2>1. pc'[a] = "repairPlan"
    BY <1>3 DEF Goto, LedgerInv, Inv, TypeOK
  <2>2. Standing(a)'
    BY <2>1 DEF Standing, Resumable, DuePending, KnowsStanding, NothingOpen, OnCourse
  <2> QED BY <1>1, <2>2, QuietAccounts
<1>4. CASE /\ Goto(a, IF cyc[a].changed \/ cyc[a].recovering THEN "closing" ELSE "inflight")
           /\ UNCHANGED cyc
  <2>1. pc'[a] = IF cyc[a].changed \/ cyc[a].recovering THEN "closing" ELSE "inflight"
    BY <1>4 DEF Goto, LedgerInv, Inv, TypeOK
  <2>2. Standing(a)'
    BY <1>1, <1>4, <2>1
       DEF LedgerInv, Standing, Resumable, DuePending, KnowsStanding, Stands, NothingOpen, OnCourse
  <2> QED BY <1>1, <2>2, QuietAccounts
<1> QED BY <1>2, <1>3, <1>4 DEF CompareDeployed

LEMMA CloseAccounts ==
  ASSUME LedgerInv, NEW a \in Agents, Close(a)
  PROVE  Accounts(a)
<1> DEFINE r == NewReceipt(cyc[a].id, cyc[a].commit, "healthy")
<1>1. /\ pc[a] = "closing" /\ pc'[a] = "inflight" /\ journal \in Seq(Receipt)
      /\ pending'[a] = None
  BY DEF Close, Goto, LedgerInv, Inv, TypeOK
<1>2. r \in Receipt /\ r.result = "healthy" /\ r.id = cyc[a].id
  BY <1>1, ReceiptType DEF LedgerInv, Inv, AgentInv, KnowsCommit, KnowsId, Deployment, Terminal
<1>3. journal' = Append(journal, r) \/ (~Lossless /\ journal' = journal)
  BY LossyDrops DEF Close
<1> HIDE DEF r
<1>4. OutcomeOf(journal, r.id) = "in_progress"
  BY <1>1, <1>2 DEF LedgerInv, Standing, DuePending, KnowsStanding, Stands
<1>5. CASE journal' = Append(journal, r)
  <2>1. Recorded
    BY <1>1, <1>2, <1>4, <1>5, EndRecorded
  <2>2. r.id \in OpenIds(journal)
    BY <1>1, <1>4, OpenIsInProgress
  <2>3. Lossless => OneOpenDeployment' /\ OpenIds(journal') = {}
    BY <1>1, <1>2, <1>5, <2>2, ClosingOne DEF LedgerInv
  <2>4. Standing(a)'
    BY <1>1, <2>3 DEF Standing, Resumable, DuePending, KnowsStanding, NothingOpen, OnCourse
  <2> QED BY <2>1, <2>3, <2>4 DEF Accounts
<1>6. CASE ~Lossless /\ journal' = journal
  <2>1. Standing(a)'
    BY <1>1, <1>6 DEF Standing, Resumable, DuePending, KnowsStanding, NothingOpen, OnCourse, Lossless
  <2> QED BY <1>6, <2>1, QuietAccounts
<1> QED BY <1>3, <1>5, <1>6

LEMMA InFlightAccounts ==
  ASSUME LedgerInv, NEW a \in Agents, InFlight(a)
  PROVE  Accounts(a)
<1>1. pc[a] = "inflight" /\ UNCHANGED <<journal, pending>>
  BY DEF InFlight, memory
<1>2. pc'[a] \in {"idle", "fetching"}
  BY DEF InFlight, Return, Goto, LedgerInv, Inv, TypeOK
<1>3. Standing(a)'
  BY <1>1, <1>2
     DEF LedgerInv, Standing, Resumable, DuePending, KnowsStanding, NothingOpen, OnCourse
<1> QED BY <1>1, <1>3, QuietAccounts

LEMMA RecordFailedAccounts ==
  ASSUME LedgerInv, NEW a \in Agents, RecordFailed(a)
  PROVE  Accounts(a)
<1> DEFINE r == NewReceipt(cyc[a].id, cyc[a].commit, "failed")
<1>1. pc[a] = "failing" /\ journal \in Seq(Receipt)
  BY DEF RecordFailed, LedgerInv, Inv, TypeOK
<1>2. pc'[a] = "idle" \/ (pc'[a] = "restoring" /\ cyc' = cyc)
  BY FailFacts DEF RecordFailed, Goto, LedgerInv, Inv, TypeOK
<1>3. r \in Receipt /\ r.result = "failed" /\ r.id = cyc[a].id
  BY <1>1, ReceiptType DEF LedgerInv, Inv, AgentInv, KnowsCommit, KnowsId, Deployment, Terminal
<1>4. journal' = Append(journal, r) \/ (~Lossless /\ journal' = journal)
  BY LossyDrops DEF RecordFailed
<1> HIDE DEF r
<1>5. OutcomeOf(journal, r.id) \in {"none", "in_progress"}
  BY <1>1, <1>3 DEF LedgerInv, Standing, KnowsStanding, Stands
<1>6. CASE journal' = Append(journal, r)
  <2>1. Recorded
    BY <1>1, <1>3, <1>5, <1>6, EndRecorded, UnannouncedRecorded
  <2>2. Lossless => OneOpenDeployment'
    BY <1>1, <1>3, <1>6, ClosingOne DEF LedgerInv
  <2>3. OutcomeOf(journal', cyc[a].id) = "failed"
    BY <1>1, <1>3, <1>6, AppendOutcome
  <2>4. Standing(a)'
    BY <1>2, <2>3
       DEF Standing, Resumable, DuePending, KnowsStanding, Stands, NothingOpen, OnCourse
  <2> QED BY <2>1, <2>2, <2>4 DEF Accounts
<1>7. CASE ~Lossless /\ journal' = journal
  <2>1. Standing(a)'
    BY <1>2, <1>3, <1>5, <1>7
       DEF Standing, Resumable, DuePending, KnowsStanding, Stands, NothingOpen, OnCourse, Lossless
  <2> QED BY <1>7, <2>1, QuietAccounts
<1> QED BY <1>4, <1>6, <1>7

\* The rollback itself: the deployment it undoes stands as it did.
LEMMA RollingAccounts ==
  ASSUME LedgerInv, NEW a \in Agents, pc[a] \in {"restoring", "rolling"},
         pc'[a] \in {"rolling", "rolledback"}, journal' = journal, cyc'[a].id = cyc[a].id
  PROVE  Accounts(a)
<1>1. Standing(a)'
  BY DEF LedgerInv, Standing, Resumable, DuePending, KnowsStanding, Stands, NothingOpen,
         OnCourse, Lossless
<1> QED BY <1>1, QuietAccounts

LEMMA RestoreAccounts ==
  ASSUME LedgerInv, NEW a \in Agents, Restore(a)
  PROVE  Accounts(a)
<1>1. PICK plan : /\ cyc' = [cyc EXCEPT ![a].todo = plan]
                  /\ Goto(a, IF Changed(plan) THEN "rolling" ELSE "rolledback")
  BY DEF Restore
<1>2. pc'[a] \in {"rolling", "rolledback"} /\ cyc'[a].id = cyc[a].id
  BY <1>1 DEF Goto, LedgerInv, Inv, TypeOK, Cycle
<1> QED BY <1>2, RollingAccounts DEF Restore

LEMMA RollBackAccounts ==
  ASSUME LedgerInv, NEW a \in Agents, RollBack(a)
  PROVE  Accounts(a)
<1>1. PICK command : cyc' = [cyc EXCEPT ![a].todo = @ \ command]
  BY DEF RollBack
<1>2. pc'[a] \in {"rolling", "rolledback"} /\ cyc'[a].id = cyc[a].id
  BY <1>1 DEF RollBack, Goto, LedgerInv, Inv, TypeOK, Cycle
<1> QED BY <1>2, RollingAccounts DEF RollBack

LEMMA RecordRollBackAccounts ==
  ASSUME LedgerInv, NEW a \in Agents, RecordRollBack(a)
  PROVE  Accounts(a)
<1> DEFINE r == NewReceipt(cyc[a].id, previous[a], "rolled_back")
<1>1. pc[a] = "rolledback" /\ journal \in Seq(Receipt)
  BY DEF RecordRollBack, LedgerInv, Inv, TypeOK
<1>2. pc'[a] = "idle"
  BY DEF RecordRollBack, Return, Goto, LedgerInv, Inv, TypeOK
<1>3. r \in Receipt /\ r.result = "rolled_back" /\ r.id = cyc[a].id
  BY <1>1, ReceiptType DEF LedgerInv, Inv, AgentInv, KnowsPrevious, KnowsId, Deployment, Terminal
<1>4. journal' = Append(journal, r) \/ (~Lossless /\ journal' = journal)
  BY LossyDrops DEF RecordRollBack
<1> HIDE DEF r
<1>5. \/ OutcomeOf(journal, r.id) = "failed"
      \/ ~Lossless /\ OutcomeOf(journal, r.id) \in {"none", "in_progress"}
  BY <1>1, <1>3 DEF LedgerInv, Standing, KnowsStanding, Stands
<1>6. CASE journal' = Append(journal, r)
  <2>1. Recorded
    BY <1>1, <1>3, <1>5, <1>6, RollBackRecorded
  <2>2. Lossless => OneOpenDeployment'
    BY <1>1, <1>3, <1>6, ClosingOne DEF LedgerInv
  <2> QED BY <1>2, <2>1, <2>2, IdleStandingNext DEF Accounts
<1>7. CASE journal' = journal
  BY <1>2, <1>7, IdleAccounts
<1> QED BY <1>4, <1>6, <1>7

\* Drift checks and repairs are no deployments: the history does not hear of them.
LEMMA DriftHealthAccounts ==
  ASSUME LedgerInv, NEW a \in Agents, DriftHealth(a)
  PROVE  Accounts(a)
<1>1. /\ pc[a] = "driftHealth" /\ pc'[a] = "driftCompare" /\ UNCHANGED <<journal, pending>>
  BY DEF DriftHealth, Goto, memory, LedgerInv, Inv, TypeOK
<1>2. Standing(a)'
  BY <1>1
     DEF LedgerInv, Standing, Resumable, DuePending, KnowsStanding, NothingOpen, OnCourse
<1> QED BY <1>1, <1>2, QuietAccounts

LEMMA RepairingAccounts ==
  ASSUME LedgerInv, NEW a \in Agents, pc'[a] \in {"idle", "repairPlan", "repairing"},
         journal' = journal
  PROVE  Accounts(a)
<1>1. Standing(a)'
  BY DEF Standing, Resumable, DuePending, KnowsStanding, NothingOpen, OnCourse
<1> QED BY <1>1, QuietAccounts

LEMMA DriftAccounts ==
  ASSUME LedgerInv, NEW a \in Agents, DriftCompare(a) \/ RepairPlan(a) \/ Repair(a)
  PROVE  Accounts(a)
<1>1. CASE DriftCompare(a)
  <2>1. pc'[a] \in {"idle", "repairPlan"}
    BY <1>1 DEF DriftCompare, Unrepaired, Return, Goto, LedgerInv, Inv, TypeOK
  <2> QED BY <1>1, <2>1, RepairingAccounts DEF DriftCompare
<1>2. CASE RepairPlan(a)
  <2>1. pc'[a] \in {"idle", "repairing"}
    BY <1>2 DEF RepairPlan, Return, Goto, LedgerInv, Inv, TypeOK
  <2> QED BY <1>2, <2>1, RepairingAccounts DEF RepairPlan
<1>3. CASE Repair(a)
  <2>1. pc'[a] \in {"idle", "repairing"}
    BY <1>3 DEF Repair, Return, Goto, LedgerInv, Inv, TypeOK
  <2> QED BY <1>3, <2>1, RepairingAccounts DEF Repair
<1> QED BY <1>1, <1>2, <1>3

\* Failures that write nothing end the cycle.
LEMMA QuietFailureAccounts ==
  ASSUME LedgerInv, NEW a \in Agents,
         BeginFails(a) \/ ReadFails(a) \/ RollBackFails(a) \/ RepairFails(a) \/ Crash(a)
  PROVE  Accounts(a)
<1>1. CASE BeginFails(a)
  <2>1. journal' = journal /\ pc'[a] = "idle"
    BY <1>1 DEF BeginFails
  <2> QED BY <2>1, IdleAccounts
<1>2. CASE ReadFails(a) \/ RollBackFails(a)
  <2>1. journal' = journal /\ Fail(a)
    BY <1>2 DEF ReadFails, RollBackFails
  <2> QED BY <2>1, FailFacts, IdleAccounts DEF LedgerInv, Inv
<1>3. CASE RepairFails(a)
  <2>1. journal' = journal /\ pc'[a] = "idle"
    BY <1>3 DEF RepairFails, Unrepaired, Return, Goto, LedgerInv, Inv, TypeOK
  <2> QED BY <2>1, IdleAccounts
<1>4. CASE Crash(a)
  <2>1. journal' = journal /\ pc'[a] = "idle"
    BY <1>4 DEF Crash, Goto, LedgerInv, Inv, TypeOK
  <2> QED BY <2>1, IdleAccounts
<1> QED BY <1>1, <1>2, <1>3, <1>4

LEMMA AgentAccounts ==
  ASSUME LedgerInv, NEW a \in Agents, Step(a) \/ Failure(a)
  PROVE  Accounts(a)
BY BeginAccounts, FetchAccounts, ValidateAccounts, PlanAccounts, CheckpointAccounts,
   InterruptFailsAccounts, CheckpointFailsAccounts, DeployAccounts, DeployFailsAccounts,
   VerifyAccounts, CompareDeployedAccounts, CloseAccounts, InFlightAccounts,
   RecordFailedAccounts, RestoreAccounts, RollBackAccounts, RecordRollBackAccounts,
   DriftHealthAccounts, DriftAccounts, QuietFailureAccounts
   DEF Step, Failure
-----------------------------------------------------------------------------
(* The theorems. *)

\* While one agent works, the others are idle and their standing is void.
LEMMA ApartStanding ==
  ASSUME LedgerInv, NEW a \in Agents, Step(a) \/ Failure(a), NEW b \in Agents \ {a}
  PROVE  Standing(b)'
<1>1. Apart(a)
  BY StepGood DEF LedgerInv, Good
<1>2. CASE pc[b] = "idle"
  BY <1>1, <1>2, IdleStandingNext DEF Apart
<1>3. CASE pc[b] # "idle"
  <2>1. lock = b /\ lock # a
    BY <1>3 DEF LedgerInv, Inv, AgentInv, HoldsLock
  <2>2. pc[a] = "idle"
    BY <2>1 DEF LedgerInv, Inv, AgentInv, HoldsLock
  <2>3. journal' = journal
    BY <1>1, <2>2 DEF Apart
  <2> QED BY <1>1, <2>3 DEF Apart, LedgerInv, Standing, Resumable, DuePending, KnowsStanding,
                            Stands, NothingOpen, Lossless
<1> QED BY <1>2, <1>3

\* Pushes, people and containers write no receipt.
LEMMA StillLedger ==
  ASSUME LedgerInv, UNCHANGED <<journal, pc, pending, cyc>>, Inv'
  PROVE  LedgerInv' /\ Recorded
<1>1. \A a \in Agents : Standing(a)'
  BY DEF LedgerInv, Standing, Resumable, DuePending, KnowsStanding, Stands, NothingOpen, Lossless
<1>2. (Lossless => OneOpenDeployment)'
  BY DEF LedgerInv, OneOpenDeployment, Lossless
<1>3. Recorded
  BY DEF outcome, Recorded
<1> QED BY <1>1, <1>2, <1>3 DEF LedgerInv

THEOREM StepLedgerInv == LedgerInv /\ [Next]_vars => LedgerInv' /\ Recorded
<1> SUFFICES ASSUME LedgerInv, [Next]_vars PROVE LedgerInv' /\ Recorded
  OBVIOUS
<1>1. Inv'
  BY StepInv DEF LedgerInv
<1>2. CASE Environment \/ UNCHANGED vars
  <2>1. UNCHANGED <<journal, pc, pending, cyc>>
    BY <1>2 DEF Environment, MoveHead, Stop, Sicken, Heal, memory, vars
  <2> QED BY <1>1, <2>1, StillLedger
<1>3. ASSUME NEW a \in Agents, Step(a) \/ Failure(a) PROVE LedgerInv' /\ Recorded
  <2>1. Accounts(a)
    BY <1>3, AgentAccounts
  <2>2. \A b \in Agents \ {a} : Standing(b)'
    BY <1>3, ApartStanding
  <2>3. \A b \in Agents : Standing(b)'
    BY <2>1, <2>2 DEF Accounts
  <2>4. (Lossless => OneOpenDeployment)'
    BY <2>1 DEF Accounts, Lossless
  <2> QED BY <1>1, <2>1, <2>3, <2>4 DEF LedgerInv, Accounts
<1> QED BY <1>2, <1>3 DEF Next

LEMMA InitLedger == Init => Ledger!Init
<1> SUFFICES ASSUME Init PROVE Ledger!Init
  OBVIOUS
<1>1. journal = <<>> /\ <<>> \in Seq(Receipt) /\ UsedIds(<<>>) = {}
  BY DEF Init, UsedIds
<1>2. \A id \in DeploymentIDs : OutcomeOf(journal, id) = "none"
  BY <1>1, UnusedOutcome
<1> QED BY <1>2 DEF Ledger!Init, outcome

\* The reconciler keeps the promises of the deployment history: every receipt
\* it writes is a step of DeploymentLedger, whatever fails, crashes or is lost.
THEOREM Implements == Spec => ImplementsLedger
<1>1. LedgerInv /\ [Next]_vars => LedgerInv' /\ [Ledger!Next]_outcome
  BY StepLedgerInv DEF Recorded
<1> QED BY <1>1, InitLedgerInv, InitLedger, PTL DEF Spec, ImplementsLedger, Ledger!Spec

\* A store that keeps every receipt never holds two open deployments: what
\* Unfinished resumes is all there is to resume.
THEOREM OneOpen == Lossless => (Spec => []OneOpenDeployment)
<1> SUFFICES ASSUME Lossless PROVE Spec => []OneOpenDeployment
  OBVIOUS
<1>1. LedgerInv => OneOpenDeployment
  BY DEF LedgerInv
<1>2. Spec => []LedgerInv
  BY InitLedgerInv, StepLedgerInv, PTL DEF Spec
<1> QED BY <1>1, <1>2, PTL

\* Only the last fetch of a cycle and a clean drift check report SYNCED.
SaysOther(a) ==
  result' = result \/ \E r \in Result : r.phase # "synced" /\ result' = [result EXCEPT ![a] = r]

LEMMA ReturnSaysOther ==
  ASSUME TypeOK, NEW a \in Agents, NEW phase \in {"failed", "healthy"},
         NEW c \in Commits \cup {None}, NEW back \in Commits \cup {None},
         Return(a, Report(phase, c, back))
  PROVE  SaysOther(a)
<1>1. Report(phase, c, back) \in Result /\ Report(phase, c, back).phase # "synced"
  BY DEF Report, Result
<1> QED BY <1>1 DEF Return, SaysOther

LEMMA OtherSteps ==
  ASSUME Inv, NEW a \in Agents, Step(a) \/ Failure(a), ~InFlight(a), ~DriftCompare(a)
  PROVE  SaysOther(a)
<1>1. TypeOK /\ cyc[a].commit \in Commits \cup {None} /\ previous[a] \in Commits \cup {None}
  BY DEF Inv, TypeOK, Cycle
<1>2. CASE UNCHANGED result
  BY <1>2 DEF SaysOther
<1>3. NoResult \in Result /\ NoResult.phase # "synced"
  BY DEF NoResult, Report, Result
<1>4. CASE result' = [result EXCEPT ![a] = NoResult]
  BY <1>3, <1>4 DEF SaysOther
<1>5. CASE result' = [result EXCEPT ![a] = Report("failed", None, None)]
  <2>1. Report("failed", None, None) \in Result /\ Report("failed", None, None).phase # "synced"
    BY DEF Report, Result
  <2> QED BY <1>5, <2>1 DEF SaysOther
<1>6. CASE Fail(a)
  BY <1>1, <1>6, ReturnSaysOther DEF Fail
<1>7. CASE Return(a, Report("healthy", cyc[a].commit, None))
  BY <1>1, <1>7, ReturnSaysOther
<1>8. CASE Return(a, Report("failed", cyc[a].commit, previous[a]))
  BY <1>1, <1>8, ReturnSaysOther
<1>9. CASE Unrepaired(a)
  BY <1>1, <1>9, ReturnSaysOther DEF Unrepaired
<1>10. \/ UNCHANGED result
       \/ result' = [result EXCEPT ![a] = NoResult]
       \/ result' = [result EXCEPT ![a] = Report("failed", None, None)]
       \/ Fail(a)
       \/ Return(a, Report("healthy", cyc[a].commit, None))
       \/ Return(a, Report("failed", cyc[a].commit, previous[a]))
       \/ Unrepaired(a)
  <2>1. CASE Step(a)
    BY <2>1 DEF Step, Begin, Fetch, Validate, Plan, Checkpoint, Deploy, Verify, CompareDeployed,
         Close, RecordFailed, Restore, RollBack, RecordRollBack, DriftHealth, RepairPlan, Repair
  <2>2. CASE Failure(a)
    BY <2>2 DEF Failure, BeginFails, ReadFails, InterruptFails, CheckpointFails, DeployFails,
         RollBackFails, RepairFails, Crash
  <2> QED BY <2>1, <2>2
<1> QED BY <1>2, <1>4, <1>5, <1>6, <1>7, <1>8, <1>9, <1>10

LEMMA StepCloses ==
  ASSUME Lossless, LedgerInv, NEW a \in Agents, Step(a) \/ Failure(a),
         NEW b \in Agents, Reports(b), result'[b].phase = "synced"
  PROVE  OpenIds(journal') = {}
<1>1. result \in [Agents -> Result]
  BY DEF LedgerInv, Inv, TypeOK
<1>2. InFlight(a) \/ DriftCompare(a)
  <2> SUFFICES ASSUME ~InFlight(a), ~DriftCompare(a) PROVE FALSE
    OBVIOUS
  <2>1. SaysOther(a)
    BY OtherSteps DEF LedgerInv
  <2> QED BY <1>1, <2>1 DEF SaysOther, Reports
<1>3. pc[a] \in {"inflight", "driftCompare"} /\ journal' = journal
  BY <1>2 DEF InFlight, DriftCompare
<1>4. pending[a] = None
  BY <1>3 DEF LedgerInv, Standing, DuePending
<1> QED BY <1>3, <1>4 DEF LedgerInv, Standing, NothingOpen, OnCourse

\* A cycle that reports SYNCED leaves nothing to resume, neither its own
\* deployment nor one it inherited from a process that died.
THEOREM SyncedCloses == Lossless => (Spec => SyncedClosesJournal)
<1> SUFFICES ASSUME Lossless PROVE Spec => SyncedClosesJournal
  OBVIOUS
<1>1. ASSUME LedgerInv, [Next]_vars
      PROVE  [\A a \in Agents :
                Reports(a) /\ result'[a].phase = "synced" => OpenIds(journal') = {}]_vars
  <2>1. CASE Environment
    BY <2>1 DEF Environment, MoveHead, Stop, Sicken, Heal, Reports
  <2>2. CASE \E a \in Agents : Step(a) \/ Failure(a)
    BY <1>1, <2>2, StepCloses
  <2> QED BY <1>1, <2>1, <2>2 DEF Next
<1>2. Spec => []LedgerInv
  BY InitLedgerInv, StepLedgerInv, PTL DEF Spec
<1> QED BY <1>1, <1>2, PTL DEF Spec, SyncedClosesJournal
-----------------------------------------------------------------------------
(****************************************************************************)
(* What a SYNCED is worth.  The runtime does not report its configuration,  *)
(* so a cycle trusts what it remembers.  On a target no one has used before *)
(* (Fresh), with a store that keeps every receipt (Lossless), and one       *)
(* memory at most (OneMind), its trust is justified for as long as every    *)
(* deployment has ended healthy.  Each of the three is needed: adopted      *)
(* containers may have another configuration, a lost receipt hides a        *)
(* deployment, and what a watch process remembers is stale once another     *)
(* process has deployed and the branch was moved back.                      *)
(****************************************************************************)

Fresh   == \A rt \in Found : Present(rt) = {}
OneMind == \A a \in Agents \ OneShot : Agents = {a}

Deployed(c) == IF c = None THEN NoServices ELSE Tree[c]

OpenFor(c, j) == \E i \in OpenAt(j) : j[i].commit = c

\* Every container is as m defines it, or as a deployment under way does.
Mix(m, rt, j) ==
  \A s \in Present(rt) : \/ rt[s].def = m[s]
                         \/ \E i \in OpenAt(j) : rt[s].def = Tree[j[i].commit][s]

\* Bringing a service to commit c keeps a mix with m one.
Like(c, m, j) == OpenFor(c, j) \/ \A s \in Declared(Tree[c]) : m[s] = Tree[c][s]

\* What the rest of a plan leaves alone is as the manifest says.
RunsAs(m, rt, todo) == \A s \in Left(rt, todo) : s \in Declared(m) /\ rt[s].def = m[s]

\* What an agent takes for deployed, and the commit it last saw deployed, are
\* true of the containers up to a deployment under way; and so is the journal's.
Heeds(a) == pc[a] # "idle" \/ (a \notin OneShot /\ previous[a] # None)

Remembers(a) == lastDesired[a] # None /\ (pc[a] # "idle" \/ a \notin OneShot)

Mixed == \A d \in Baseline(journal, None) : Mix(Deployed(d), runtime, journal)

Trusts(a) ==
  /\ Heeds(a) => Mix(Deployed(previous[a]), runtime, journal)
  /\ Heeds(a) /\ lastDesired[a] # None => Like(lastDesired[a], Deployed(previous[a]), journal)
  /\ Remembers(a) =>
       \A d \in Baseline(journal, None) : Like(lastDesired[a], Deployed(d), journal)

\* Place by place in the cycle: what the plan still owes, what a no-op plan has
\* shown, and what the cycle has come to remember.
Owes(a) ==
  LET m == Tree[cyc[a].commit]
  IN  /\ pc[a] \in {"checkpoint", "deploying"} => RunsAs(m, runtime, cyc[a].todo)
      /\ pc[a] \in {"verifying", "comparing", "closing", "inflight"} => RunsAs(m, runtime, {})

Shown(a) ==
  pc[a] \in {"verifying", "comparing"} /\ pending[a] = None =>
    /\ Like(cyc[a].commit, Deployed(previous[a]), journal)
    /\ \A d \in Baseline(journal, None) : Like(cyc[a].commit, Deployed(d), journal)

Recalls(a) ==
  /\ pc[a] = "closing" => lastDesired[a] = cyc[a].commit /\ previous[a] = cyc[a].commit
  /\ pc[a] \in {"driftHealth", "driftCompare", "repairPlan", "repairing"} =>
       lastDesired[a] = cyc[a].commit

Sound(a) == Trusts(a) /\ Owes(a) /\ Shown(a) /\ Recalls(a)

\* Two facts that need no clean history.
OneOpenAt == \A i, k \in OpenAt(journal) : i = k

PendingIsOwn(a) ==
  pc[a] \in {"verifying", "comparing", "closing"} /\ pending[a] # None =>
    pending[a].commit = cyc[a].commit

CleanInv ==
  /\ LedgerInv /\ OneOpenAt
  /\ \A a \in Agents : PendingIsOwn(a)
  /\ Untroubled => Mixed /\ \A a \in Agents : Sound(a)

THEOREM InitCleanInv == Fresh => (Init => CleanInv)
<1> SUFFICES ASSUME Fresh, Init PROVE CleanInv
  OBVIOUS
<1>1. LedgerInv
  BY InitLedgerInv
<1>2. OneOpenAt
  BY DEF Init, OneOpenAt, OpenAt
<1>3. Present(runtime) = {}
  BY DEF Init, Fresh
<1>4. Mixed
  BY <1>3 DEF Mixed, Mix
<1>5. ASSUME NEW a \in Agents PROVE PendingIsOwn(a) /\ Sound(a)
  <2>1. pc[a] = "idle" /\ lastDesired[a] = None /\ previous[a] = None
    BY DEF Init
  <2> QED BY <2>1 DEF PendingIsOwn, Sound, Trusts, Heeds, Remembers, Owes, Shown, Recalls
<1> QED BY <1>1, <1>2, <1>4, <1>5 DEF CleanInv
-----------------------------------------------------------------------------
(* What receipts, commands and plans do to a mix. *)

\* A healthy receipt is the baseline from then on; any other leaves it.
LEMMA AppendBaseline ==
  ASSUME NEW j \in Seq(Receipt), NEW r \in Receipt, NEW held
  PROVE  Baseline(Append(j, r), held) =
           IF r.result = "healthy" THEN {r.commit} ELSE Baseline(j, held)
<1> DEFINE k == Append(j, r)
<1>1. CASE r.result = "healthy"
  <2>1. Newest(HealthyAt(k)) = {Len(j) + 1} /\ HealthyAt(k) # {}
    BY <1>1, AppendFacts DEF Newest, HealthyAt
  <2>2. k[Len(j) + 1] = r
    BY AppendFacts
  <2> HIDE DEF k
  <2>3. Baseline(k, held) = {k[Len(j) + 1].commit}
    BY <2>1 DEF Baseline
  <2> QED BY <1>1, <2>2, <2>3 DEF k
<1>2. CASE r.result # "healthy"
  <2>1. HealthyAt(k) = HealthyAt(j)
    BY <1>2, AppendFacts DEF HealthyAt
  <2>2. \A i \in Newest(HealthyAt(j)) : k[i] = j[i]
    BY AppendFacts DEF Newest, HealthyAt
  <2> HIDE DEF k
  <2>3. Baseline(k, held) = Baseline(j, held)
    BY <2>1, <2>2 DEF Baseline
  <2> QED BY <1>2, <2>3 DEF k
<1> QED BY <1>1, <1>2

\* recoveryState: the journal's baseline, or what is held when it has none.
LEMMA BaselineHeld ==
  ASSUME NEW j, NEW held, NEW c \in Baseline(j, held)
  PROVE  \/ c \in Baseline(j, None)
         \/ Baseline(j, None) = {None} /\ c = held
BY DEF Baseline

\* A clean history stays clean only by checkpoints and healthy receipts.
LEMMA AppendUntroubled ==
  ASSUME journal \in Seq(Receipt), NEW r \in Receipt, journal' = Append(journal, r), Untroubled'
  PROVE  Untroubled /\ r.result \in {"in_progress", "healthy"}
<1>1. \A i \in 1..Len(journal) : journal'[i] = journal[i]
  BY AppendFacts
<1>2. journal'[Len(journal) + 1] = r /\ DOMAIN journal' = 1..(Len(journal) + 1)
  BY AppendFacts
<1>3. Len(journal) \in Nat /\ DOMAIN journal = 1..Len(journal)
  BY AppendFacts
<1> QED BY <1>1, <1>2, <1>3 DEF Untroubled

\* A container that stops, goes or turns sick leaves a mix.
LEMMA MixSteady ==
  ASSUME NEW m, NEW rt, NEW after, NEW j, Mix(m, rt, j),
         \A s \in Present(after) : s \in Present(rt) /\ after[s].def = rt[s].def
  PROVE  Mix(m, after, j)
BY DEF Mix

LEMMA RunsAsSteady ==
  ASSUME NEW m, NEW rt, NEW after, NEW todo, RunsAs(m, rt, todo),
         \A s \in Present(after) : s \in Present(rt) /\ after[s].def = rt[s].def
  PROVE  RunsAs(m, after, todo)
BY DEF RunsAs, Left

LEMMA MixCommand ==
  ASSUME NEW m, NEW rt \in Runtime, NEW j, NEW c \in Commits, NEW todo \in SUBSET Action,
         Mix(m, rt, j), Like(c, m, j), Fits(todo, Tree[c]),
         NEW command \in Due(todo), NEW after \in Outcomes(command, Tree[c], rt)
  PROVE  Mix(m, after, j)
<1> SUFFICES ASSUME NEW s \in Present(after)
             PROVE  \/ after[s].def = m[s]
                    \/ \E i \in OpenAt(j) : after[s].def = Tree[j[i].commit][s]
  BY DEF Mix
<1> DEFINE t == Tree[c]
<1>1. t \in Manifest /\ Fits(todo, t) /\ after \in Outcomes(command, t, rt)
  BY ManifestType
<1>2. \/ s \in Declared(t) /\ after[s].def = t[s]
      \/ s \in Present(rt) /\ after[s] = rt[s]
  <2> HIDE DEF t
  <2> QED BY <1>1, CommandEffect
<1>3. CASE s \in Declared(Tree[c]) /\ after[s].def = Tree[c][s]
  BY <1>3 DEF Like, OpenFor
<1>4. CASE s \in Present(rt) /\ after[s] = rt[s]
  BY <1>4 DEF Mix
<1> QED BY <1>2, <1>3, <1>4

LEMMA RunsAsCommand ==
  ASSUME NEW m \in Manifest, NEW rt \in Runtime, NEW todo \in SUBSET Action, Fits(todo, m),
         RunsAs(m, rt, todo), NEW command \in Due(todo), NEW after \in Outcomes(command, m, rt)
  PROVE  RunsAs(m, after, todo \ command)
BY CommandLeaves DEF RunsAs

\* A plan made against what may be deployed owes everything that differs.
LEMMA PlanOwes ==
  ASSUME NEW c \in Commits, NEW base, NEW rt \in Runtime, NEW j,
         Mix(base, rt, j), \A i \in OpenAt(j) : j[i].commit = c,
         NEW plan \in Plans(Tree[c], base, rt)
  PROVE  RunsAs(Tree[c], rt, plan)
<1> SUFFICES ASSUME NEW s \in Left(rt, plan)
             PROVE  s \in Declared(Tree[c]) /\ rt[s].def = Tree[c][s]
  BY DEF RunsAs
<1>1. s \in Declared(Tree[c]) /\ (s \in Declared(base) => base[s] = Tree[c][s])
  BY PlanLeaves
<1>2. s \in Present(rt) /\ s \in Services /\ rt[s].def # Undeclared
  BY ReconcilerAssumption DEF Left, Present, Runtime, Container
<1>3. rt[s].def = base[s] \/ rt[s].def = Tree[c][s]
  BY <1>2 DEF Mix
<1> QED BY <1>1, <1>2, <1>3 DEF Declared

\* A plan with nothing to do has found every declared service.
LEMMA NoOpFinds ==
  ASSUME NEW m, NEW base, NEW rt, {} \in Plans(m, base, rt)
  PROVE  Declared(m) \subseteq Present(rt)
<1>1. DriftActions(m, base, rt) = {}
  BY DEF Plans
<1>2. ASSUME NEW s \in Declared(m), s \notin Present(rt) PROVE FALSE
  <2>1. CASE s \in Declared(base)
    <3>1. s \in Started(m, base, rt)
      BY <1>2, <2>1 DEF Started
    <3>2. [kind |-> "start", service |-> s] \in DriftActions(m, base, rt)
      BY <3>1 DEF DriftActions, Tagged
    <3> QED BY <1>1, <3>2
  <2>2. CASE s \notin Declared(base)
    <3>1. s \in Created(m, base, rt)
      BY <1>2, <2>2 DEF Created
    <3>2. [kind |-> "create", service |-> s] \in DriftActions(m, base, rt)
      BY <3>1 DEF DriftActions, Tagged
    <3> QED BY <1>1, <3>2
  <2> QED BY <2>1, <2>2
<1> QED BY <1>2

\* What runs as c declares, all of it, is like every mix it is.
LEMMA FoundIsLike ==
  ASSUME NEW c \in Commits, NEW m, NEW rt, NEW j, OpenAt(j) = {}, Mix(m, rt, j),
         RunsAs(Tree[c], rt, {}), Declared(Tree[c]) \subseteq Present(rt)
  PROVE  Like(c, m, j)
BY DEF Like, Mix, RunsAs, Left

\* One open deployment less leaves a mix only of what runs through and through.
LEMMA RunsIsMix ==
  ASSUME NEW m, NEW rt, NEW j, RunsAs(m, rt, {})
  PROVE  Mix(m, rt, j)
BY DEF RunsAs, Left, Mix
-----------------------------------------------------------------------------
(* A step of one agent, as long as the history stays clean. *)

Cleanly(a) == OneOpenAt' /\ PendingIsOwn(a)' /\ (Untroubled' => Mixed' /\ Sound(a)')

\* The containers are those there were, or fewer, and none was redefined.
Steady ==
  \A s \in Present(runtime') : s \in Present(runtime) /\ runtime'[s].def = runtime[s].def

LEMMA KeepsTrust ==
  ASSUME CleanInv, Untroubled, NEW a \in Agents, UNCHANGED <<journal, memory>>, Steady,
         pc'[a] # "idle" => pc[a] # "idle"
  PROVE  Mixed' /\ Trusts(a)'
<1>1. Mixed /\ Trusts(a)
  BY DEF CleanInv, Sound
<1>2. \A m : Mix(m, runtime, journal) => Mix(m, runtime', journal)
  BY DEF Mix, Steady
<1>3. Mixed'
  BY <1>1, <1>2 DEF Mixed
<1>4. Heeds(a)' => Heeds(a)
  BY DEF Heeds, memory
<1>5. Remembers(a)' => Remembers(a)
  BY DEF Remembers, memory
<1>6. Trusts(a)'
  BY <1>1, <1>2, <1>4, <1>5 DEF Trusts, memory
<1> QED BY <1>3, <1>6

LEMMA QuietClean ==
  ASSUME CleanInv, NEW a \in Agents, UNCHANGED <<journal, memory>>, Steady,
         pc'[a] # "idle" => pc[a] # "idle", PendingIsOwn(a)',
         Untroubled => Owes(a)' /\ Shown(a)' /\ Recalls(a)'
  PROVE  Cleanly(a)
<1>1. OneOpenAt' /\ (Untroubled' => Untroubled)
  BY DEF CleanInv, OneOpenAt, Untroubled
<1>2. Untroubled => Mixed' /\ Trusts(a)'
  BY KeepsTrust
<1> QED BY <1>1, <1>2 DEF Cleanly, Sound

LEMMA EndsClean ==
  ASSUME CleanInv, NEW a \in Agents, UNCHANGED <<journal, memory>>, Steady, pc'[a] = "idle"
  PROVE  Cleanly(a)
<1>1. PendingIsOwn(a)' /\ Owes(a)' /\ Shown(a)' /\ Recalls(a)'
  BY DEF PendingIsOwn, Owes, Shown, Recalls
<1> QED BY <1>1, QuietClean

\* A receipt of any failure ends what a clean history promises.
LEMMA TroubledClean ==
  ASSUME CleanInv, NEW a \in Agents, NEW r \in Receipt, journal' = Append(journal, r),
         r.result \notin {"in_progress", "healthy"}, PendingIsOwn(a)'
  PROVE  Cleanly(a)
<1>1. journal \in Seq(Receipt)
  BY DEF CleanInv, LedgerInv, Inv, TypeOK
<1>2. ~Untroubled'
  BY <1>1, AppendUntroubled
<1>3. OpenAt(journal') \subseteq OpenAt(journal)
  BY <1>1, AppendTerminal
<1> QED BY <1>2, <1>3 DEF Cleanly, CleanInv, OneOpenAt

\* A rollback under way has its failed deployment in the journal.
LEMMA RollingTroubled ==
  ASSUME Lossless, LedgerInv, NEW a \in Agents, pc[a] \in {"restoring", "rolling", "rolledback"}
  PROVE  ~Untroubled
<1> DEFINE its == {i \in DOMAIN journal : journal[i].id = cyc[a].id}
           last == CHOOSE i \in Newest(its) : TRUE
<1>1. OutcomeOf(journal, cyc[a].id) = "failed"
  BY DEF LedgerInv, Standing, KnowsStanding, Stands
<1>2. OutcomeOf(journal, cyc[a].id) = IF its = {} THEN "none" ELSE journal[last].result
  BY Zenon DEF OutcomeOf
<1>3. its \in SUBSET (1..Len(journal)) /\ Len(journal) \in Nat
  BY DEF LedgerInv, Inv, TypeOK
<1>4. its # {} => last \in its
  <2>1. its # {} => Newest(its) # {}
    BY <1>3, NewestExists
  <2>2. its # {} => last \in Newest(its)
    BY <2>1, Zenon
  <2> QED BY <2>2 DEF Newest
<1> HIDE DEF last
<1> QED BY <1>1, <1>2, <1>4 DEF Untroubled

LEMMA RollingClean ==
  ASSUME Lossless, CleanInv, NEW a \in Agents,
         Restore(a) \/ RollBack(a) \/ RollBackFails(a) \/ RecordRollBack(a)
  PROVE  Cleanly(a)
<1>1. pc[a] \in {"restoring", "rolling", "rolledback"} /\ LedgerInv
  BY DEF CleanInv, Restore, RollBack, RollBackFails, RecordRollBack
<1>2. ~Untroubled /\ pc[a] # "idle" /\ TypeOK
  BY <1>1, RollingTroubled DEF LedgerInv, Inv
<1>3. pc'[a] \in {"idle", "rolling", "rolledback"}
  BY <1>2, FailFacts DEF TypeOK, Restore, RollBack, RollBackFails, RecordRollBack, Return, Goto
<1>4. PendingIsOwn(a)'
  BY <1>3 DEF PendingIsOwn
<1>5. CASE journal' = journal
  BY <1>2, <1>4, <1>5 DEF Cleanly, CleanInv, OneOpenAt, Untroubled
<1>6. CASE RecordRollBack(a)
  <2> DEFINE r == NewReceipt(cyc[a].id, previous[a], "rolled_back")
  <2>1. r \in Receipt /\ r.result = "rolled_back"
    BY <1>6, ReceiptType DEF RecordRollBack, LedgerInv, CleanInv, Inv, AgentInv, KnowsId,
       KnowsPrevious, Deployment, Terminal
  <2>2. journal' = Append(journal, r)
    BY <1>6, LossyDrops DEF RecordRollBack
  <2> HIDE DEF r
  <2> QED BY <1>4, <2>1, <2>2, TroubledClean
<1> QED BY <1>5, <1>6 DEF Restore, RollBack, RollBackFails

LEMMA BeginClean ==
  ASSUME CleanInv, NEW a \in Agents, Begin(a)
  PROVE  Cleanly(a)
<1> DEFINE held == IF a \in OneShot THEN None ELSE previous[a]
<1>1. PICK p \in Baseline(journal, held) : previous' = [previous EXCEPT ![a] = p]
  BY DEF Begin
<1>2. /\ pc[a] = "idle" /\ pc'[a] = "fetching" /\ previous'[a] = p
      /\ lastDesired'[a] = IF a \in OneShot THEN None ELSE lastDesired[a]
      /\ UNCHANGED <<journal, runtime>>
  BY <1>1 DEF Begin, Goto, CleanInv, LedgerInv, Inv, TypeOK
<1>3. \/ p \in Baseline(journal, None)
      \/ p = previous[a] /\ a \notin OneShot /\ p # None
  <2>1. p \in Baseline(journal, None) \/ (Baseline(journal, None) = {None} /\ p = held)
    BY <1>1, BaselineHeld
  <2> QED BY <2>1
<1>4. ASSUME Untroubled PROVE Trusts(a)'
  <2>1. Mixed /\ Trusts(a)
    BY <1>4 DEF CleanInv, Sound
  <2>2. Mix(Deployed(p), runtime, journal)
    BY <1>2, <1>3, <2>1 DEF Mixed, Trusts, Heeds
  <2>3. ASSUME lastDesired'[a] # None
        PROVE  /\ lastDesired'[a] = lastDesired[a]
               /\ \A d \in Baseline(journal, None) : Like(lastDesired[a], Deployed(d), journal)
    BY <1>2, <2>1, <2>3 DEF Trusts, Remembers
  <2>4. lastDesired'[a] # None => Like(lastDesired'[a], Deployed(p), journal)
    BY <1>2, <1>3, <2>1, <2>3 DEF Trusts, Heeds
  <2>5. (Heeds(a) => Mix(Deployed(previous[a]), runtime, journal))'
    BY <1>2, <2>2
  <2>6. (Heeds(a) /\ lastDesired[a] # None =>
           Like(lastDesired[a], Deployed(previous[a]), journal))'
    BY <1>2, <2>4
  <2>7. (Remembers(a) => \A d \in Baseline(journal, None) :
                            Like(lastDesired[a], Deployed(d), journal))'
    BY <1>2, <2>3 DEF Remembers
  <2> QED BY <2>5, <2>6, <2>7 DEF Trusts
<1>5. Untroubled' = Untroubled /\ Mixed' = Mixed /\ OneOpenAt' = OneOpenAt
  BY <1>2 DEF Untroubled, Mixed, OneOpenAt
<1>6. PendingIsOwn(a)' /\ Owes(a)' /\ Shown(a)' /\ Recalls(a)'
  BY <1>2 DEF PendingIsOwn, Owes, Shown, Recalls
<1> QED BY <1>4, <1>5, <1>6 DEF Cleanly, CleanInv, Sound

LEMMA FetchClean ==
  ASSUME CleanInv, NEW a \in Agents, Fetch(a)
  PROVE  Cleanly(a)
<1>1. /\ pc[a] = "fetching" /\ UNCHANGED <<journal, memory, runtime>>
      /\ pc'[a] \in {"driftHealth", "validating"}
      /\ pc'[a] = "driftHealth" => lastDesired[a] = cyc'[a].commit
  BY DEF Fetch, Goto, CleanInv, LedgerInv, Inv, TypeOK, NoCycle, Cycle
<1>2. PendingIsOwn(a)' /\ Owes(a)' /\ Shown(a)' /\ Recalls(a)'
  BY <1>1 DEF PendingIsOwn, Owes, Shown, Recalls, memory
<1> QED BY <1>1, <1>2, QuietClean DEF Steady

LEMMA ValidateClean ==
  ASSUME CleanInv, NEW a \in Agents, Validate(a)
  PROVE  Cleanly(a)
<1> DEFINE closed == [pending[a] EXCEPT !.result = "interrupted"]
<1>1. pc[a] = "validating" /\ pc'[a] = "planning"
  BY DEF Validate, Goto, CleanInv, LedgerInv, Inv, TypeOK
<1>2. PendingIsOwn(a)' /\ Owes(a)' /\ Shown(a)' /\ Recalls(a)'
  BY <1>1 DEF PendingIsOwn, Owes, Shown, Recalls
<1>3. CASE UNCHANGED <<journal, pending>>
  <2>1. UNCHANGED <<journal, memory, runtime>>
    BY <1>3 DEF Validate, memory
  <2> QED BY <1>1, <1>2, <2>1, QuietClean DEF Steady
<1>4. CASE pending[a] # None /\ journal' = Append(journal, closed)
  <2>1. pending[a] \in Receipt
    BY <1>4 DEF CleanInv, LedgerInv, Inv, TypeOK
  <2>2. closed \in Receipt /\ closed.result = "interrupted"
    BY <2>1, InterruptedType
  <2> HIDE DEF closed
  <2> QED BY <1>2, <1>4, <2>2, TroubledClean
<1> QED BY <1>3, <1>4 DEF Validate

\* With nothing pending nothing is open; what is pending is all that is open.
LEMMA OpenIsPending ==
  ASSUME Lossless, CleanInv, NEW a \in Agents, pc[a] \in OnCourse \cup {"driftHealth", "driftCompare"}
  PROVE  /\ pending[a] = None => OpenAt(journal) = {}
         /\ pending[a] # None /\ pc[a] \in OnCourse =>
              /\ \A i \in OpenAt(journal) : journal[i].commit = pending[a].commit
              /\ OpenFor(pending[a].commit, journal)
<1>1. ASSUME pending[a] = None PROVE OpenAt(journal) = {}
  <2>1. OpenIds(journal) = {}
    BY <1>1 DEF CleanInv, LedgerInv, Standing, NothingOpen
  <2> QED BY <2>1 DEF OpenIds
<1>2. ASSUME pending[a] # None, pc[a] \in OnCourse
      PROVE  /\ \A i \in OpenAt(journal) : journal[i].commit = pending[a].commit
             /\ OpenFor(pending[a].commit, journal)
  <2>1. PICK i \in OpenAt(journal) : journal[i] = pending[a]
    BY <1>2 DEF CleanInv, LedgerInv, Inv, AgentInv, PendingIsOpen
  <2> QED BY <2>1 DEF CleanInv, OneOpenAt, OpenFor
<1> QED BY <1>1, <1>2

LEMMA PlanClean ==
  ASSUME Lossless, CleanInv, NEW a \in Agents, Plan(a)
  PROVE  Cleanly(a)
<1> DEFINE c == cyc[a].commit
           base == Deployed(previous[a])
           recovering == pending[a] # None /\ pending[a].commit = c
           id == IF recovering THEN pending[a].id ELSE NewId
           planned(plan) == Planned(cyc[a], id, recovering, Changed(plan), plan)
<1>1. /\ pc[a] = "planning" /\ c \in Commits /\ runtime \in Runtime /\ cyc[a] \in Cycle
      /\ UNCHANGED <<journal, memory, runtime>>
  BY DEF Plan, CleanInv, LedgerInv, Inv, TypeOK, AgentInv, KnowsCommit
<1>2. PICK plan \in Plans(Tree[c], base, runtime) :
         /\ cyc' = [cyc EXCEPT ![a] = planned(plan)]
         /\ Goto(a, IF ~Changed(plan) THEN "verifying"
                    ELSE IF recovering THEN "deploying" ELSE "checkpoint")
  BY DEF Plan, Planned, Deployed
<1>3. planned(plan).commit = c /\ planned(plan).todo = plan
  BY <1>1 DEF Planned, Cycle
<1> HIDE DEF planned, base
<1>4. /\ cyc'[a].commit = c /\ cyc'[a].todo = plan
      /\ pc'[a] \in {"verifying", "deploying", "checkpoint"}
      /\ pc'[a] = "verifying" => plan = {}
  BY <1>2, <1>3 DEF Goto, Changed, CleanInv, LedgerInv, Inv, TypeOK
<1>5. /\ pending[a] = None => OpenAt(journal) = {}
      /\ pending[a] # None => pending[a].commit = c
      /\ \A i \in OpenAt(journal) : journal[i].commit = c
  <2>1. pending[a] # None => pending[a].commit = c
    BY <1>1 DEF CleanInv, LedgerInv, Standing, Resumable
  <2> QED BY <1>1, <2>1, OpenIsPending DEF OnCourse
<1>6. PendingIsOwn(a)'
  BY <1>1, <1>4, <1>5 DEF PendingIsOwn, memory
<1>7. ASSUME Untroubled PROVE Owes(a)' /\ Shown(a)' /\ Recalls(a)'
  <2>1. /\ Mix(base, runtime, journal)
        /\ \A d \in Baseline(journal, None) : Mix(Deployed(d), runtime, journal)
    BY <1>1, <1>7 DEF base, CleanInv, Sound, Trusts, Heeds, Mixed
  <2>2. RunsAs(Tree[c], runtime, plan)
    BY <1>1, <1>5, <2>1, PlanOwes
  <2>3. ASSUME plan = {}, pending[a] = None
        PROVE  /\ Like(c, base, journal)
               /\ \A d \in Baseline(journal, None) : Like(c, Deployed(d), journal)
    <3>1. Declared(Tree[c]) \subseteq Present(runtime)
      BY <2>3, NoOpFinds
    <3>2. RunsAs(Tree[c], runtime, {})
      BY <2>2, <2>3
    <3> QED BY <1>1, <1>5, <2>1, <2>3, <3>1, <3>2, FoundIsLike
  <2>4. Owes(a)'
    BY <1>1, <1>4, <2>2 DEF Owes
  <2>5. Shown(a)'
    BY <1>1, <1>4, <2>3 DEF Shown, memory, base
  <2>6. Recalls(a)'
    BY <1>4 DEF Recalls
  <2> QED BY <2>4, <2>5, <2>6
<1> QED BY <1>1, <1>4, <1>6, <1>7, QuietClean DEF Steady

\* A command on behalf of a commit that is being deployed, or that the agent
\* remembers as deployed, mixes in nothing new.
LEMMA KeepsTrustCommand ==
  ASSUME CleanInv, Untroubled, NEW a \in Agents, pc[a] # "idle", UNCHANGED <<journal, memory>>,
         NEW c \in Commits, OpenFor(c, journal) \/ lastDesired[a] = c,
         NEW todo \in SUBSET Action, Fits(todo, Tree[c]), NEW command \in Due(todo),
         runtime' \in {runtime} \cup Outcomes(command, Tree[c], runtime)
  PROVE  Mixed' /\ Trusts(a)'
<1>1. Mixed /\ Trusts(a) /\ runtime \in Runtime
  BY DEF CleanInv, Sound, LedgerInv, Inv, TypeOK
<1>2. ASSUME NEW m, Mix(m, runtime, journal), Like(c, m, journal)
      PROVE  Mix(m, runtime', journal)
  <2>1. CASE runtime' = runtime
    BY <1>2, <2>1
  <2>2. CASE runtime' \in Outcomes(command, Tree[c], runtime)
    BY <1>1, <1>2, <2>2, MixCommand
  <2> QED BY <2>1, <2>2
<1>3. Heeds(a) /\ (lastDesired[a] = c => Remembers(a) /\ lastDesired[a] # None)
  BY ReconcilerAssumption DEF Heeds, Remembers
<1>4. /\ Like(c, Deployed(previous[a]), journal)
      /\ \A d \in Baseline(journal, None) : Like(c, Deployed(d), journal)
  BY <1>1, <1>3 DEF Trusts, Like
<1>5. Mixed'
  BY <1>1, <1>2, <1>4 DEF Mixed
<1>6. Mix(Deployed(previous[a]), runtime', journal)
  BY <1>1, <1>2, <1>3, <1>4 DEF Trusts
<1>7. Remembers(a)' => Remembers(a)
  BY DEF Remembers, memory
<1>8. Trusts(a)'
  BY <1>1, <1>3, <1>6, <1>7 DEF Trusts, memory
<1> QED BY <1>5, <1>8

LEMMA CommandClean ==
  ASSUME CleanInv, NEW a \in Agents, pc[a] # "idle", UNCHANGED <<journal, memory>>,
         NEW c \in Commits, Untroubled => OpenFor(c, journal) \/ lastDesired[a] = c,
         NEW todo \in SUBSET Action, Fits(todo, Tree[c]), NEW command \in Due(todo),
         runtime' \in {runtime} \cup Outcomes(command, Tree[c], runtime),
         PendingIsOwn(a)', Untroubled => Owes(a)' /\ Shown(a)' /\ Recalls(a)'
  PROVE  Cleanly(a)
<1>1. OneOpenAt' /\ (Untroubled' => Untroubled)
  BY DEF CleanInv, OneOpenAt, Untroubled
<1>2. Untroubled => Mixed' /\ Trusts(a)'
  BY KeepsTrustCommand
<1> QED BY <1>1, <1>2 DEF Cleanly, Sound

\* With nothing open, the journal explains no container: any other does as well.
LEMMA NothingOpenCarries ==
  ASSUME NEW j, OpenAt(j) = {}, NEW k, NEW m, NEW rt, NEW c
  PROVE  /\ Mix(m, rt, j) => Mix(m, rt, k)
         /\ Like(c, m, j) => Like(c, m, k)
BY DEF Mix, Like, OpenFor

LEMMA CheckpointClean ==
  ASSUME Lossless, CleanInv, NEW a \in Agents, Checkpoint(a)
  PROVE  Cleanly(a)
<1> DEFINE r == NewReceipt(cyc[a].id, cyc[a].commit, "in_progress")
<1>1. /\ pc[a] = "checkpoint" /\ pc'[a] = "deploying" /\ journal \in Seq(Receipt)
      /\ journal' = Append(journal, r) /\ UNCHANGED <<runtime, lastDesired, previous, cyc>>
  BY DEF Checkpoint, Goto, CleanInv, LedgerInv, Inv, TypeOK
<1>2. r \in Receipt /\ r.result = "in_progress"
  BY <1>1, ReceiptType
     DEF CleanInv, LedgerInv, Inv, AgentInv, KnowsCommit, KnowsId, Deployment
<1> HIDE DEF r
<1>3. OpenAt(journal) = {}
  <2>1. pending[a] = None
    BY <1>1 DEF CleanInv, LedgerInv, Standing, DuePending
  <2> QED BY <1>1, <2>1, OpenIsPending DEF OnCourse
<1>4. OneOpenAt'
  BY <1>1, <1>2, <1>3, AppendCheckpoint DEF OneOpenAt
<1>5. PendingIsOwn(a)' /\ Shown(a)' /\ Recalls(a)'
  BY <1>1 DEF PendingIsOwn, Shown, Recalls
<1>6. ASSUME Untroubled' PROVE Mixed' /\ Trusts(a)' /\ Owes(a)'
  <2>1. Untroubled
    BY <1>1, <1>2, <1>6, AppendUntroubled
  <2>2. Mixed /\ Trusts(a) /\ Owes(a)
    BY <2>1 DEF CleanInv, Sound
  <2>3. Baseline(journal', None) = Baseline(journal, None)
    BY <1>1, <1>2, AppendBaseline
  <2>4. \A m, c : /\ Mix(m, runtime, journal) => Mix(m, runtime, journal')
                  /\ Like(c, m, journal) => Like(c, m, journal')
    BY <1>3, NothingOpenCarries
  <2>5. Mixed'
    BY <1>1, <2>2, <2>3, <2>4 DEF Mixed
  <2>6. Heeds(a) /\ (Remembers(a)' => Remembers(a))
    BY <1>1 DEF Heeds, Remembers
  <2>7. Trusts(a)'
    BY <1>1, <2>2, <2>3, <2>4, <2>6 DEF Trusts
  <2>8. Owes(a)'
    BY <1>1, <2>2 DEF Owes
  <2> QED BY <2>5, <2>7, <2>8
<1> QED BY <1>4, <1>5, <1>6 DEF Cleanly, Sound

\* What is being deployed is open in the journal.
LEMMA DeployingIsOpen ==
  ASSUME CleanInv, NEW a \in Agents, pc[a] = "deploying"
  PROVE  /\ cyc[a].commit \in Commits /\ cyc[a].todo \in SUBSET Action
         /\ Fits(cyc[a].todo, Tree[cyc[a].commit])
         /\ pending[a] # None /\ pending[a].commit = cyc[a].commit
         /\ OpenFor(cyc[a].commit, journal)
<1>1. LedgerInv /\ Inv /\ TypeOK /\ AgentInv(a)
  BY DEF CleanInv, LedgerInv, Inv
<1>2. cyc[a].commit \in Commits /\ cyc[a].todo \in SUBSET Action
  BY <1>1 DEF TypeOK, Cycle, AgentInv, KnowsCommit
<1>3. pending[a] # None /\ pending[a].commit = cyc[a].commit
  BY <1>1 DEF AgentInv, DeploysPending
<1>4. PICK i \in OpenAt(journal) : journal[i] = pending[a]
  BY <1>1, <1>3 DEF AgentInv, PendingIsOpen, OnCourse
<1> QED BY <1>1, <1>2, <1>3, <1>4 DEF OpenFor, AgentInv, PlanFits

LEMMA DeployClean ==
  ASSUME CleanInv, NEW a \in Agents, Deploy(a)
  PROVE  Cleanly(a)
<1> DEFINE c == cyc[a].commit
           m == Tree[c]
<1>1. /\ pc[a] = "deploying" /\ UNCHANGED <<journal, memory>>
      /\ runtime \in Runtime /\ cyc[a] \in Cycle
  BY DEF Deploy, CleanInv, LedgerInv, Inv, TypeOK
<1>2. /\ c \in Commits /\ cyc[a].todo \in SUBSET Action /\ Fits(cyc[a].todo, m)
      /\ pending[a] # None /\ pending[a].commit = c /\ OpenFor(c, journal)
  BY <1>1, DeployingIsOpen
<1>3. PICK command \in Due(cyc[a].todo) :
         /\ runtime' \in Outcomes(command, m, runtime)
         /\ cyc' = [cyc EXCEPT ![a].todo = @ \ command]
         /\ Goto(a, IF cyc[a].todo = command THEN "verifying" ELSE "deploying")
  BY DEF Deploy, Command
<1>4. /\ cyc'[a].commit = c /\ cyc'[a].todo = cyc[a].todo \ command
      /\ pc'[a] \in {"verifying", "deploying"}
      /\ pc'[a] = "verifying" => cyc'[a].todo = {}
  BY <1>1, <1>3 DEF Goto, CleanInv, LedgerInv, Inv, TypeOK, Cycle
<1>5. pending'[a] = pending[a]
  BY <1>1 DEF memory
<1>6. PendingIsOwn(a)' /\ Shown(a)' /\ Recalls(a)'
  BY <1>2, <1>4, <1>5 DEF PendingIsOwn, Shown, Recalls
<1>7. ASSUME Untroubled PROVE Owes(a)'
  <2>1. RunsAs(m, runtime, cyc[a].todo)
    BY <1>1, <1>7 DEF CleanInv, Sound, Owes
  <2>2. m \in Manifest
    BY <1>2, ManifestType
  <2> HIDE DEF m
  <2>3. RunsAs(m, runtime', cyc[a].todo \ command)
    BY <1>1, <1>2, <1>3, <2>1, <2>2, RunsAsCommand
  <2> USE DEF m
  <2> QED BY <1>4, <2>3 DEF Owes
<1> QED BY <1>1, <1>2, <1>3, <1>6, <1>7, CommandClean

LEMMA DeployFailsClean ==
  ASSUME CleanInv, NEW a \in Agents, DeployFails(a)
  PROVE  Cleanly(a)
<1> DEFINE c == cyc[a].commit
           m == Tree[c]
<1>1. pc[a] = "deploying" /\ pc'[a] = "failing" /\ UNCHANGED <<journal, memory>>
  BY DEF DeployFails, Goto, CleanInv, LedgerInv, Inv, TypeOK
<1>2. c \in Commits /\ cyc[a].todo \in SUBSET Action /\ Fits(cyc[a].todo, m) /\ OpenFor(c, journal)
  BY <1>1, DeployingIsOpen
<1>3. PICK command \in Due(cyc[a].todo) : runtime' \in {runtime} \cup Outcomes(command, m, runtime)
  BY DEF DeployFails, CommandFails
<1>4. PendingIsOwn(a)' /\ Owes(a)' /\ Shown(a)' /\ Recalls(a)'
  BY <1>1 DEF PendingIsOwn, Owes, Shown, Recalls
<1> QED BY <1>1, <1>2, <1>3, <1>4, CommandClean

LEMMA VerifyClean ==
  ASSUME CleanInv, NEW a \in Agents, Verify(a)
  PROVE  Cleanly(a)
<1>1. /\ pc[a] = "verifying" /\ pc'[a] \in {"comparing", "failing"}
      /\ UNCHANGED <<journal, memory, runtime, cyc>>
  BY DEF Verify, Goto, CleanInv, LedgerInv, Inv, TypeOK
<1>2. PendingIsOwn(a)'
  BY <1>1 DEF CleanInv, PendingIsOwn, memory
<1>3. ASSUME Untroubled PROVE Owes(a)' /\ Shown(a)' /\ Recalls(a)'
  <2>1. Owes(a) /\ Shown(a)
    BY <1>3 DEF CleanInv, Sound
  <2> QED BY <1>1, <2>1 DEF Owes, Shown, Recalls, memory
<1> QED BY <1>1, <1>2, <1>3, QuietClean DEF Steady

\* A commit is like itself.
LEMMA LikeItself ==
  ASSUME NEW c, c # None, NEW j
  PROVE  Deployed(c) = Tree[c] /\ Like(c, Deployed(c), j)
BY DEF Deployed, Like

LEMMA CompareDeployedClean ==
  ASSUME Lossless, CleanInv, NEW a \in Agents, CompareDeployed(a)
  PROVE  Cleanly(a)
<1> DEFINE c == cyc[a].commit
<1>1. /\ pc[a] = "comparing" /\ UNCHANGED <<journal, pending, runtime>> /\ c \in Commits
      /\ lastDesired'[a] = c
  BY DEF CompareDeployed, CleanInv, LedgerInv, Inv, TypeOK, AgentInv, KnowsCommit
<1>2. \/ /\ pc'[a] \in {"closing", "inflight"} /\ previous'[a] = c /\ cyc' = cyc
      \/ /\ pc'[a] = "repairPlan" /\ previous' = previous /\ cyc' = cyc
      \/ /\ pc'[a] = "idle" /\ previous' = previous
  BY DEF CompareDeployed, Return, Goto, CleanInv, LedgerInv, Inv, TypeOK
<1>3. c # None
  BY <1>1, ReconcilerAssumption
<1>4. OneOpenAt' /\ PendingIsOwn(a)'
  BY <1>1, <1>2 DEF CleanInv, OneOpenAt, PendingIsOwn
<1>5. ASSUME Untroubled PROVE Mixed' /\ Sound(a)'
  <2>1. Mixed /\ Trusts(a) /\ Owes(a) /\ Shown(a)
    BY <1>5 DEF CleanInv, Sound
  <2>2. Heeds(a) /\ RunsAs(Tree[c], runtime, {})
    BY <1>1, <2>1 DEF Heeds, Owes
  <2>3. /\ Like(c, Deployed(previous[a]), journal)
        /\ \A d \in Baseline(journal, None) : Like(c, Deployed(d), journal)
    <3>1. CASE pending[a] = None
      BY <1>1, <2>1, <3>1 DEF Shown
    <3>2. CASE pending[a] # None
      <4>1. pending[a].commit = c
        BY <1>1, <3>2 DEF CleanInv, PendingIsOwn
      <4>2. OpenFor(c, journal)
        BY <1>1, <3>2, <4>1, OpenIsPending DEF OnCourse
      <4> QED BY <4>2 DEF Like
    <3> QED BY <3>1, <3>2
  <2>4. /\ Mix(Deployed(previous'[a]), runtime, journal)
        /\ Like(c, Deployed(previous'[a]), journal)
    <3>1. CASE previous'[a] = c
      BY <1>3, <2>2, <3>1, RunsIsMix, LikeItself
    <3>2. CASE previous'[a] = previous[a]
      BY <2>1, <2>2, <2>3, <3>2 DEF Trusts
    <3> QED BY <1>2, <3>1, <3>2
  <2>5. Mixed'
    BY <1>1, <2>1 DEF Mixed
  <2>6. Trusts(a)'
    BY <1>1, <2>3, <2>4 DEF Trusts
  <2>7. Owes(a)' /\ Shown(a)'
    BY <1>1, <1>2, <2>2 DEF Owes, Shown
  <2>8. Recalls(a)'
    BY <1>1, <1>2 DEF Recalls
  <2> QED BY <2>5, <2>6, <2>7, <2>8 DEF Sound
<1>6. Untroubled' => Untroubled
  BY <1>1 DEF Untroubled
<1> QED BY <1>4, <1>5, <1>6 DEF Cleanly

LEMMA CloseClean ==
  ASSUME Lossless, CleanInv, NEW a \in Agents, Close(a)
  PROVE  Cleanly(a)
<1> DEFINE c == cyc[a].commit
           r == NewReceipt(cyc[a].id, c, "healthy")
<1>1. /\ pc[a] = "closing" /\ pc'[a] = "inflight" /\ journal \in Seq(Receipt)
      /\ journal' = Append(journal, r) /\ UNCHANGED <<runtime, lastDesired, previous, cyc>>
  BY LossyDrops DEF Close, Goto, CleanInv, LedgerInv, Inv, TypeOK
<1>2. r \in Receipt /\ r.result = "healthy" /\ r.commit = c /\ c # None
  BY <1>1, ReceiptType, ReconcilerAssumption
     DEF CleanInv, LedgerInv, Inv, AgentInv, KnowsCommit, KnowsId, Deployment, Terminal
<1> HIDE DEF r
<1>3. OneOpenAt'
  <2>1. OpenAt(journal') \subseteq OpenAt(journal)
    BY <1>1, <1>2, AppendTerminal
  <2> QED BY <2>1 DEF CleanInv, OneOpenAt
<1>4. PendingIsOwn(a)' /\ Shown(a)' /\ Recalls(a)'
  BY <1>1 DEF PendingIsOwn, Shown, Recalls
<1>5. ASSUME Untroubled' PROVE Mixed' /\ Trusts(a)' /\ Owes(a)'
  <2>1. Untroubled
    BY <1>1, <1>2, <1>5, AppendUntroubled
  <2>2. /\ lastDesired[a] = c /\ previous[a] = c
        /\ RunsAs(Tree[c], runtime, {})
    BY <1>1, <2>1 DEF CleanInv, Sound, Recalls, Owes
  <2>3. Mix(Deployed(c), runtime, journal') /\ Like(c, Deployed(c), journal')
    BY <1>2, <2>2, RunsIsMix, LikeItself
  <2>4. Baseline(journal', None) = {c}
    BY <1>1, <1>2, AppendBaseline
  <2>5. Mixed'
    BY <1>1, <2>3, <2>4 DEF Mixed
  <2>6. Trusts(a)'
    BY <1>1, <2>2, <2>3, <2>4 DEF Trusts
  <2>7. Owes(a)'
    BY <1>1, <2>2 DEF Owes
  <2> QED BY <2>5, <2>6, <2>7
<1> QED BY <1>3, <1>4, <1>5 DEF Cleanly, Sound

LEMMA InFlightClean ==
  ASSUME CleanInv, NEW a \in Agents, InFlight(a)
  PROVE  Cleanly(a)
<1>1. /\ pc[a] = "inflight" /\ pc'[a] \in {"idle", "fetching"}
      /\ UNCHANGED <<journal, memory, runtime>>
  BY DEF InFlight, Return, Goto, CleanInv, LedgerInv, Inv, TypeOK
<1>2. PendingIsOwn(a)' /\ Owes(a)' /\ Shown(a)' /\ Recalls(a)'
  BY <1>1 DEF PendingIsOwn, Owes, Shown, Recalls
<1> QED BY <1>1, <1>2, QuietClean DEF Steady

LEMMA RecordFailedClean ==
  ASSUME Lossless, CleanInv, NEW a \in Agents, RecordFailed(a)
  PROVE  Cleanly(a)
<1> DEFINE r == NewReceipt(cyc[a].id, cyc[a].commit, "failed")
<1>1. pc[a] = "failing" /\ TypeOK
  BY DEF RecordFailed, CleanInv, LedgerInv, Inv
<1>2. journal' = Append(journal, r)
  BY LossyDrops DEF RecordFailed
<1>3. r \in Receipt /\ r.result = "failed"
  BY <1>1, ReceiptType
     DEF CleanInv, LedgerInv, Inv, AgentInv, KnowsCommit, KnowsId, Deployment, Terminal
<1> HIDE DEF r
<1>4. pc'[a] \in {"idle", "restoring"}
  BY <1>1, FailFacts DEF RecordFailed, Goto, TypeOK
<1>5. PendingIsOwn(a)'
  BY <1>4 DEF PendingIsOwn
<1> QED BY <1>2, <1>3, <1>5, TroubledClean

LEMMA DriftClean ==
  ASSUME CleanInv, NEW a \in Agents, DriftHealth(a) \/ DriftCompare(a) \/ RepairPlan(a)
  PROVE  Cleanly(a)
<1>1. /\ pc[a] \in {"driftHealth", "driftCompare", "repairPlan"}
      /\ UNCHANGED <<journal, memory, runtime>> /\ TypeOK
  BY DEF DriftHealth, DriftCompare, RepairPlan, CleanInv, LedgerInv, Inv
<1>2. \/ pc'[a] = "idle"
      \/ /\ pc'[a] \in {"driftCompare", "repairPlan", "repairing"}
         /\ cyc'[a].commit = cyc[a].commit
  BY <1>1 DEF DriftHealth, DriftCompare, RepairPlan, Unrepaired, Return, Goto, TypeOK, Cycle
<1>3. PendingIsOwn(a)' /\ Owes(a)' /\ Shown(a)'
  BY <1>2 DEF PendingIsOwn, Owes, Shown
<1>4. ASSUME Untroubled PROVE Recalls(a)'
  <2>1. Recalls(a)
    BY <1>4 DEF CleanInv, Sound
  <2> QED BY <1>1, <1>2, <2>1 DEF Recalls, memory
<1> QED BY <1>1, <1>3, <1>4, QuietClean DEF Steady

LEMMA RepairingFits ==
  ASSUME CleanInv, NEW a \in Agents, pc[a] = "repairing"
  PROVE  /\ cyc[a].commit \in Commits /\ cyc[a].todo \in SUBSET Action
         /\ Fits(cyc[a].todo, Tree[cyc[a].commit])
         /\ Untroubled => lastDesired[a] = cyc[a].commit
BY DEF CleanInv, LedgerInv, Inv, TypeOK, Cycle, AgentInv, KnowsCommit, PlanFits, Sound, Recalls

LEMMA RepairClean ==
  ASSUME CleanInv, NEW a \in Agents, Repair(a)
  PROVE  Cleanly(a)
<1> DEFINE c == cyc[a].commit
           m == Tree[c]
<1>1. pc[a] = "repairing" /\ UNCHANGED <<journal, memory>> /\ TypeOK
  BY DEF Repair, CleanInv, LedgerInv, Inv
<1>2. /\ c \in Commits /\ cyc[a].todo \in SUBSET Action /\ Fits(cyc[a].todo, m)
      /\ Untroubled => lastDesired[a] = c
  BY <1>1, RepairingFits
<1>3. PICK command \in Due(cyc[a].todo) :
        /\ runtime' \in Outcomes(command, m, runtime)
        /\ \/ Return(a, Report("healthy", c, None))
           \/ cyc' = [cyc EXCEPT ![a].todo = @ \ command] /\ UNCHANGED pc
  BY DEF Repair, Command
<1>4. pc'[a] = "idle" \/ (pc'[a] = "repairing" /\ cyc'[a].commit = c)
  BY <1>1, <1>3 DEF Return, Goto, TypeOK, Cycle
<1>5. PendingIsOwn(a)' /\ Owes(a)' /\ Shown(a)'
  BY <1>4 DEF PendingIsOwn, Owes, Shown
<1>6. Untroubled => Recalls(a)'
  BY <1>1, <1>2, <1>4 DEF Recalls, memory
<1> QED BY <1>1, <1>2, <1>3, <1>5, <1>6, CommandClean

LEMMA RepairFailsClean ==
  ASSUME CleanInv, NEW a \in Agents, RepairFails(a)
  PROVE  Cleanly(a)
<1> DEFINE c == cyc[a].commit
           m == Tree[c]
<1>1. UNCHANGED <<journal, memory>> /\ pc'[a] = "idle"
  BY DEF RepairFails, Unrepaired, Return, Goto, CleanInv, LedgerInv, Inv, TypeOK
<1>2. CASE UNCHANGED runtime
  BY <1>1, <1>2, EndsClean DEF Steady
<1>3. CASE /\ pc[a] = "repairing"
           /\ \E command \in Due(cyc[a].todo) : CommandFails(command, m)
  <2>1. /\ c \in Commits /\ cyc[a].todo \in SUBSET Action /\ Fits(cyc[a].todo, m)
        /\ Untroubled => lastDesired[a] = c
    BY <1>3, RepairingFits
  <2>2. PICK command \in Due(cyc[a].todo) :
           runtime' \in {runtime} \cup Outcomes(command, m, runtime)
    BY <1>3 DEF CommandFails
  <2>3. PendingIsOwn(a)' /\ Owes(a)' /\ Shown(a)' /\ Recalls(a)'
    BY <1>1 DEF PendingIsOwn, Owes, Shown, Recalls
  <2> QED BY <1>1, <1>3, <2>1, <2>2, <2>3, CommandClean
<1> QED BY <1>2, <1>3 DEF RepairFails

LEMMA CrashClean ==
  ASSUME CleanInv, NEW a \in Agents, Crash(a)
  PROVE  Cleanly(a)
<1>1. /\ pc'[a] = "idle" /\ lastDesired'[a] = None /\ previous'[a] = None
      /\ UNCHANGED <<journal, runtime>>
  BY DEF Crash, Goto, CleanInv, LedgerInv, Inv, TypeOK
<1>2. PendingIsOwn(a)' /\ Trusts(a)' /\ Owes(a)' /\ Shown(a)' /\ Recalls(a)'
  BY <1>1 DEF PendingIsOwn, Trusts, Heeds, Remembers, Owes, Shown, Recalls
<1>3. OneOpenAt' /\ (Untroubled' => Mixed')
  BY <1>1 DEF CleanInv, OneOpenAt, Untroubled, Mixed
<1> QED BY <1>2, <1>3 DEF Cleanly, Sound

LEMMA ErrorClean ==
  ASSUME CleanInv, NEW a \in Agents, BeginFails(a) \/ ReadFails(a)
  PROVE  Cleanly(a)
<1>1. UNCHANGED <<journal, memory, runtime>> /\ pc'[a] = "idle"
  BY FailFacts DEF BeginFails, ReadFails, CleanInv, LedgerInv, Inv
<1> QED BY <1>1, EndsClean DEF Steady

LEMMA AgentClean ==
  ASSUME Lossless, CleanInv, NEW a \in Agents, Step(a) \/ Failure(a)
  PROVE  Cleanly(a)
<1>1. ~InterruptFails(a) /\ ~CheckpointFails(a)
  BY LossyFails DEF InterruptFails, CheckpointFails
<1> QED BY <1>1, BeginClean, FetchClean, ValidateClean, PlanClean, CheckpointClean, DeployClean,
     DeployFailsClean, VerifyClean, CompareDeployedClean, CloseClean, InFlightClean,
     RecordFailedClean, RollingClean, DriftClean, RepairClean, RepairFailsClean, CrashClean,
     ErrorClean
     DEF Step, Failure
-----------------------------------------------------------------------------
(* The others, the environment, and the theorem. *)

LEMMA MemoryApart ==
  ASSUME NEW a \in Agents, Step(a) \/ Failure(a), NEW b \in Agents \ {a}, TypeOK
  PROVE  lastDesired'[b] = lastDesired[b]
<1>1. CASE Begin(a) \/ CompareDeployed(a) \/ Crash(a)
  <2>1. PICK c : lastDesired' = [lastDesired EXCEPT ![a] = c]
    BY <1>1, Zenon DEF Begin, CompareDeployed, Crash
  <2> QED BY <2>1 DEF TypeOK
<1>2. CASE ~(Begin(a) \/ CompareDeployed(a) \/ Crash(a))
  <2>1. UNCHANGED lastDesired
    BY <1>2, Zenon
       DEF memory, Step, Failure, Fetch, Validate, Plan, Checkpoint, Deploy, Verify, Close,
           InFlight, RecordFailed, Restore, RollBack, RecordRollBack, DriftHealth, DriftCompare,
           RepairPlan, Repair, BeginFails, ReadFails, InterruptFails, CheckpointFails,
           DeployFails, RollBackFails, RepairFails
  <2> QED BY <2>1
<1> QED BY <1>1, <1>2

\* Where one process at most remembers, an idle one takes nothing for deployed.
LEMMA OthersClean ==
  ASSUME OneMind, CleanInv, NEW a \in Agents, Step(a) \/ Failure(a), NEW b \in Agents \ {a}
  PROVE  PendingIsOwn(b)' /\ (Untroubled' => Sound(b)')
<1>1. Inv /\ TypeOK /\ Apart(a)
  BY StepGood DEF CleanInv, LedgerInv, Inv, Good
<1>2. CASE pc[b] = "idle"
  <2>1. pc'[b] = "idle"
    BY <1>1, <1>2 DEF Apart
  <2>2. b \in OneShot
    BY DEF OneMind
  <2>3. ~Heeds(b)' /\ ~Remembers(b)'
    BY <2>1, <2>2 DEF Heeds, Remembers
  <2> QED BY <2>1, <2>3 DEF PendingIsOwn, Sound, Trusts, Owes, Shown, Recalls
<1>3. CASE pc[b] # "idle"
  <2>1. /\ UNCHANGED <<runtime, journal>> /\ pc'[b] = pc[b] /\ cyc'[b] = cyc[b]
        /\ previous'[b] = previous[b] /\ pending'[b] = pending[b]
        /\ lastDesired'[b] = lastDesired[b]
    BY <1>1, <1>3, OthersRest, MemoryApart DEF Apart
  <2>2. Untroubled' = Untroubled
    BY <2>1 DEF Untroubled
  <2>3. PendingIsOwn(b)'
    BY <2>1 DEF CleanInv, PendingIsOwn
  <2>4. ASSUME Untroubled PROVE Sound(b)'
    <3>1. Trusts(b) /\ Owes(b) /\ Shown(b) /\ Recalls(b)
      BY <2>4 DEF CleanInv, Sound
    <3>2. Trusts(b)'
      BY <2>1, <3>1 DEF Trusts, Heeds, Remembers
    <3>3. Owes(b)' /\ Shown(b)' /\ Recalls(b)'
      BY <2>1, <3>1 DEF Owes, Shown, Recalls
    <3> QED BY <3>2, <3>3 DEF Sound
  <2> QED BY <2>2, <2>3, <2>4
<1> QED BY <1>2, <1>3

\* Pushes, people and health checks redefine nothing.
LEMMA StillClean ==
  ASSUME CleanInv, UNCHANGED <<journal, memory, pc, cyc>>, Steady, NEW a \in Agents
  PROVE  Cleanly(a)
<1>1. PendingIsOwn(a)'
  BY DEF CleanInv, PendingIsOwn, memory
<1>2. ASSUME Untroubled PROVE Owes(a)' /\ Shown(a)' /\ Recalls(a)'
  <2>1. Owes(a) /\ Shown(a) /\ Recalls(a)
    BY <1>2 DEF CleanInv, Sound
  <2>2. \A m, todo : RunsAs(m, runtime, todo) => RunsAs(m, runtime', todo)
    BY DEF RunsAs, Left, Steady
  <2>3. Owes(a)'
    BY <2>1, <2>2 DEF Owes
  <2> QED BY <2>1, <2>3 DEF Shown, Recalls, memory
<1> QED BY <1>1, <1>2, QuietClean

THEOREM StepCleanInv == Lossless /\ OneMind => (CleanInv /\ [Next]_vars => CleanInv')
<1> SUFFICES ASSUME Lossless, OneMind, CleanInv, [Next]_vars PROVE CleanInv'
  OBVIOUS
<1>1. LedgerInv'
  BY StepLedgerInv DEF CleanInv
<1>2. CASE Environment \/ UNCHANGED vars
  <2>1. UNCHANGED <<journal, memory, pc, cyc>>
    BY <1>2 DEF Environment, MoveHead, Stop, Sicken, Heal, memory, vars
  <2>2. Steady
    BY <1>2, EnvironmentKeeps DEF Steady, vars, CleanInv, LedgerInv, Inv
  <2>3. \A a \in Agents : Cleanly(a)
    BY <2>1, <2>2, StillClean
  <2>4. OneOpenAt' /\ (Untroubled' => Untroubled)
    BY <2>1 DEF CleanInv, OneOpenAt, Untroubled
  <2>5. Untroubled => Mixed'
    <3>1. \A m : Mix(m, runtime, journal) => Mix(m, runtime', journal)
      BY <2>2 DEF Mix, Steady
    <3> QED BY <2>1, <3>1 DEF CleanInv, Mixed
  <2> QED BY <1>1, <2>3, <2>4, <2>5 DEF CleanInv, Cleanly
<1>3. ASSUME NEW a \in Agents, Step(a) \/ Failure(a) PROVE CleanInv'
  <2>1. Cleanly(a)
    BY <1>3, AgentClean
  <2>2. \A b \in Agents \ {a} : PendingIsOwn(b)' /\ (Untroubled' => Sound(b)')
    BY <1>3, OthersClean
  <2> QED BY <1>1, <2>1, <2>2 DEF CleanInv, Cleanly
<1> QED BY <1>2, <1>3 DEF Next

LEMMA SyncedClean ==
  ASSUME Lossless, CleanInv, Untroubled, NEW a \in Agents, Step(a) \/ Failure(a),
         NEW b \in Agents, Reports(b), result'[b].phase = "synced"
  PROVE  RunsCommit(result'[b].commit)
<1> DEFINE c == cyc[a].commit
           m == Tree[c]
           state == [commit |-> c, services |-> m]
<1>1. result \in [Agents -> Result] /\ TypeOK /\ Inv /\ runtime \in Runtime
  BY DEF CleanInv, LedgerInv, Inv, TypeOK
<1>2. InFlight(a) \/ DriftCompare(a)
  <2> SUFFICES ASSUME ~InFlight(a), ~DriftCompare(a) PROVE FALSE
    OBVIOUS
  <2>1. SaysOther(a)
    BY <1>1, OtherSteps
  <2> QED BY <1>1, <2>1 DEF SaysOther, Reports
<1>3. c \in Commits /\ Trusts(a) /\ Owes(a) /\ Recalls(a) /\ pc[a] \in {"inflight", "driftCompare"}
  BY <1>1, <1>2 DEF CleanInv, Sound, Inv, AgentInv, KnowsCommit, InFlight, DriftCompare
<1>4. \/ /\ pc[a] = "inflight"
         /\ result' = [result EXCEPT ![a] = Report("synced", c, None)]
      \/ /\ pc[a] = "driftCompare"
         /\ Compare(state, state, runtime) = "SYNCED"
         /\ \E phase : result' = [result EXCEPT ![a] = Report(phase, c, None)]
  <2>1. CASE InFlight(a)
    BY <1>1, <2>1 DEF InFlight, Return, Reports
  <2>2. CASE DriftCompare(a)
    <3>1. CASE \E phase : result' = [result EXCEPT ![a] = Report(phase, c, None)]
               /\ Compare(state, state, runtime) = "SYNCED"
      BY <2>2, <3>1 DEF DriftCompare
    <3>2. CASE Compare(state, state, runtime) = "SYNCED"
      BY <2>2, <3>1, <3>2 DEF DriftCompare, Return
    <3>3. CASE UNCHANGED result
      BY <3>3 DEF Reports
    <3>4. CASE Unrepaired(a)
      <4>1. \E phase \in {"failed", "healthy"} : result' = [result EXCEPT ![a] = Report(phase, c, None)]
        BY <3>4 DEF Unrepaired, Return
      <4> QED BY <1>1, <4>1 DEF Report, Reports
    <3> QED BY <2>2, <3>2, <3>3, <3>4 DEF DriftCompare
  <2> QED BY <1>2, <2>1, <2>2
<1>5. result'[b].commit = c
  <2>1. PICK r : result' = [result EXCEPT ![a] = r] /\ r.commit = c
    BY <1>4 DEF Report
  <2> QED BY <1>1, <2>1 DEF Reports
<1>6. CASE pc[a] = "inflight"
  BY <1>3, <1>5, <1>6 DEF Owes, RunsAs, Left, RunsCommit
<1>7. CASE pc[a] = "driftCompare" /\ Compare(state, state, runtime) = "SYNCED"
  <2>1. Present(runtime) \subseteq Declared(m)
    BY <1>7 DEF Compare, Drifted
  <2>2. OpenAt(journal) = {}
    <3>1. pending[a] = None
      BY <1>7 DEF CleanInv, LedgerInv, Standing, DuePending
    <3> QED BY <1>7, <3>1, OpenIsPending
  <2>3. lastDesired[a] = c /\ c # None
    BY <1>3, <1>7, ReconcilerAssumption DEF Recalls
  <2>4. /\ Mix(Deployed(previous[a]), runtime, journal)
        /\ Like(c, Deployed(previous[a]), journal)
    BY <1>3, <1>7, <2>3 DEF Trusts, Heeds
  <2>5. ASSUME NEW s \in Present(runtime) PROVE runtime[s].def = m[s]
    BY <2>1, <2>2, <2>4 DEF Mix, Like, OpenFor
  <2> QED BY <1>5, <2>5 DEF RunsCommit
<1> QED BY <1>4, <1>6, <1>7

\* The trust of a cycle in what it remembers is justified: on a target no one
\* has used before, with every receipt kept and one memory at most, a commit
\* reported SYNCED after nothing but healthy deployments is what runs, down to
\* the configuration, whatever crashes, is stopped or fails between.
THEOREM CleanHistory == Fresh /\ Lossless /\ OneMind => (Spec => CleanHistoryConverges)
<1> SUFFICES ASSUME Fresh, Lossless, OneMind PROVE Spec => CleanHistoryConverges
  OBVIOUS
<1>1. ASSUME CleanInv, [Next]_vars
      PROVE  [\A a \in Agents :
                Reports(a) /\ result'[a].phase = "synced" /\ Untroubled =>
                  RunsCommit(result'[a].commit)]_vars
  <2>1. CASE Environment
    BY <2>1 DEF Environment, MoveHead, Stop, Sicken, Heal, Reports
  <2>2. CASE \E a \in Agents : Step(a) \/ Failure(a)
    BY <1>1, <2>2, SyncedClean
  <2> QED BY <1>1, <2>1, <2>2 DEF Next
<1>2. Init => CleanInv
  BY InitCleanInv
<1>3. CleanInv /\ [Next]_vars => CleanInv'
  BY StepCleanInv
<1>4. Spec => []CleanInv
  BY <1>2, <1>3, PTL DEF Spec
<1> QED BY <1>1, <1>4, PTL DEF Spec, CleanHistoryConverges
===============================================================================
