------------------------------ MODULE FleetProofs ------------------------------
(****************************************************************************)
(* Theorems about Fleet, for every host and every bound.  On a host where   *)
(* units that share a checkout, a deploy file, a Compose project or a       *)
(* journal meet on a lock (Isolation), a unit inside a cycle has what its   *)
(* job works on to itself (Alone).  What it read there therefore stays true *)
(* until it has used it (Ready), and the safety properties follow.  Then:   *)
(* on any host, cycles go forward and nobody waits for a waiting unit.      *)
(* What a document has to be for Isolation to hold is the last part.        *)
(****************************************************************************)
EXTENDS Fleet, Wiring, TLAPS

Isolation == \A f \in Fleets : Isolated(f)

Inside(u) == pc[u] \notin {"rest", "lock"}

\* A unit in a cycle holds the lock of its job.
Locked == \A u \in Unit : TakesLock(u) /\ Inside(u) => holder[J(u).lock] = u

\* The commit a deployment works towards.
Target(u) == IF mode[u] = "deploy" THEN commit[u] ELSE P(u).commit

\* The labels of a cycle that has not failed, and those only a deployment has.
Forward == {"rest", "lock", "fetch", "open", "load", "baseline", "plan", "recheck"}
OfDeployment == {"render", "command", "applied", "failed", "record", "recheck", "resolve",
                 "restore", "rewrite"}
Attempt == {"render", "command", "applied", "failed", "record"}

\* What unit u may rely on where it is.
InPlace(u) ==
  /\ pc[u] \in Forward => mode[u] = "deploy"
  /\ pc[u] \in OfDeployment => Deploys(u)
  /\ pc[u] \in {"resolve", "restore", "rewrite"} => mode[u] = "rollback"

\* ... of its checkout and of what it has read there.
Read(u) ==
  /\ \/ pc[u] \in {"open", "load", "baseline", "plan", "resolve"}
     \/ pc[u] \in Attempt /\ mode[u] = "deploy"
     => tree[J(u).checkout].head = commit[u] /\ tree[J(u).checkout].file = commit[u]
  /\ pc[u] = "load" => root[u] = "checkout"
  /\ pc[u] \in Attempt \cup {"baseline", "plan", "restore", "rewrite"} => desired[u] = Target(u)

\* ... of what it compares with.
Compares(u) ==
  /\ TakesLock(u) => \A i \in DOMAIN previous[u] :
                       previous[u][i].services \in {0, previous[u][i].commit}
  /\ Deploys(u) /\ Inside(u) /\ LastHealthy(u) # 0 => P(u).commit = LastHealthy(u)
  /\ pc[u] = "plan" /\ TakesLock(u) =>
       /\ P(u).services = P(u).commit
       /\ LastHealthy(u) # 0 => P(u).commit = LastHealthy(u)

\* ... and of what it deploys.
Runs(u) ==
  /\ pc[u] = "render" => tree[J(u).checkout].file = Target(u)
  /\ pc[u] = "command" => rendered[J(u).file] = Target(u)
  /\ pc[u] = "applied" /\ mode[u] = "deploy" => running[J(u).workload] = commit[u]
  /\ pc[u] \in {"applied", "record"} => Image(running[J(u).workload]) = Image(Target(u))

Ready(u) == InPlace(u) /\ Read(u) /\ Compares(u) /\ Runs(u)

IInv == TypeOK /\ Locked /\ \A u \in Unit : Ready(u)
-----------------------------------------------------------------------------
LEMMA FleetFacts ==
  ASSUME fleet \in Fleets
  PROVE  /\ Unit = 1..Len(fleet) /\ Len(fleet) \in Nat
         /\ \A u \in Unit : /\ fleet[u].kind \in Kinds
                            /\ DOMAIN fleet[u].jobs = 1..Len(fleet[u].jobs)
                            /\ Len(fleet[u].jobs) \in Nat \ {0}
BY FleetAssumption DEF Unit

\* The job a unit is at is one of the host's, and what it names exists.
LEMMA JobFacts ==
  ASSUME TypeOK, NEW u \in Unit
  PROVE  /\ J(u) \in AllJobs
         /\ J(u).checkout \in DOMAIN tree /\ J(u).file \in DOMAIN rendered
         /\ J(u).lock \in DOMAIN holder /\ J(u).workload \in DOMAIN running
         /\ J(u).journal \in DOMAIN recorded
<1>1. J(u) \in AllJobs
  BY DEF TypeOK, J, AllJobs
<1>2. QED
  BY <1>1 DEF TypeOK

\* So does the deployment it is compared with.
LEMMA PreviousFacts ==
  ASSUME TypeOK, NEW u \in Unit
  PROVE  /\ previous[u] \in [DOMAIN fleet[u].jobs -> Deployment]
         /\ at[u] \in DOMAIN fleet[u].jobs /\ DOMAIN previous[u] = DOMAIN fleet[u].jobs
         /\ P(u) \in Deployment /\ P(u).commit \in Nat /\ P(u).services \in Nat
<1>1. previous[u] \in [DOMAIN fleet[u].jobs -> Deployment] /\ at[u] \in DOMAIN fleet[u].jobs
  BY DEF TypeOK, PreviousOK
<1>2. P(u) \in Deployment
  BY <1>1 DEF P
<1>3. P(u).commit \in Nat /\ P(u).services \in Nat
  BY <1>2 DEF Deployment
<1>4. QED
  BY <1>1, <1>2, <1>3

\* A step that compares the target with another deployment.
LEMMA SetPrevious ==
  ASSUME TypeOK, NEW u \in Unit, NEW d \in Deployment,
         previous' = [previous EXCEPT ![u][at[u]] = d]
  PROVE  /\ DOMAIN previous' = Unit
         /\ \A v \in Unit : previous'[v] \in [DOMAIN fleet[v].jobs -> Deployment]
         /\ \A v \in Unit \ {u} : previous'[v] = previous[v]
         /\ previous'[u][at[u]] = d
         /\ at' = at => P(u)' = d
         /\ \A i \in DOMAIN previous'[u] :
              i # at[u] => i \in DOMAIN previous[u] /\ previous'[u][i] = previous[u][i]
<1>1. \A v \in Unit : previous[v] \in [DOMAIN fleet[v].jobs -> Deployment]
  BY DEF TypeOK, PreviousOK
<1>2. [previous[u] EXCEPT ![at[u]] = d] \in [DOMAIN fleet[u].jobs -> Deployment]
  BY <1>1
<1>3. previous' = [previous EXCEPT ![u] = [previous[u] EXCEPT ![at[u]] = d]]
  OBVIOUS
<1>4. at[u] \in DOMAIN fleet[u].jobs /\ DOMAIN previous = Unit
  BY DEF TypeOK, PreviousOK
<1>5. previous'[u][at[u]] = d
  BY <1>3, <1>4, <1>1
<1>6. at' = at => P(u)' = d
  BY <1>5 DEF P
<1>7. QED
  BY <1>1, <1>2, <1>3, <1>4, <1>5, <1>6

\* The names that every step leaves alone.
LEMMA SameHost ==
  ASSUME fleet' = fleet
  PROVE  /\ Unit' = Unit /\ AllJobs' = AllJobs /\ Agents' = Agents
         /\ \A a : Of(a)' = Of(a)
         /\ \A u : Deploys(u)' = Deploys(u) /\ TakesLock(u)' = TakesLock(u)
BY DEF Unit, AllJobs, Agents, Of, Deploys, TakesLock
-----------------------------------------------------------------------------
(* Typing. *)

LEMMA InitTyped == Init => TypeOK
<1> SUFFICES ASSUME Init PROVE TypeOK
  OBVIOUS
<1>1. \A u \in Unit : 1 \in DOMAIN fleet[u].jobs
  BY FleetFacts DEF Init
<1>2. MaxFaults \in Nat /\ MaxPushes \in Nat
  BY FleetAssumption
<1>3. images \in [1..(MaxPushes + 1) -> Nat]
  BY <1>2 DEF Init
<1>4. Nothing \in Deployment
  BY DEF Nothing, Deployment
<1>5. PreviousOK
  BY <1>4 DEF Init, PreviousOK
<1>6. QED
  BY <1>1, <1>2, <1>3, <1>5 DEF Init, TypeOK, Labels

\* The host does not change.
LEMMA StepHost ==
  ASSUME Next
  PROVE  fleet' = fleet /\ images' = images
<1>1. ASSUME NEW u \in Unit, Step(u) PROVE UNCHANGED host
  <2>1. CASE Reads(u)
    BY <2>1 DEF Reads, Fetch, Recheck, Open, Load, Resolve, Restore, Hydrate, Compare, Collect
  <2>2. CASE Works(u)
    BY <2>2 DEF Works, Plan, Rewrite, Render, Command, Applied, Failed, Record
  <2>3. CASE Lock(u) \/ Unlock(u) \/ SourceFails(u) \/ GiveUp(u) \/ CommandFails(u) \/ VerifyFails(u)
    BY <2>3 DEF Lock, Unlock, SourceFails, GiveUp, CommandFails, VerifyFails
  <2>4. QED
    BY <1>1, <2>1, <2>2, <2>3 DEF Step
<1>2. UNCHANGED host
  BY <1>1 DEF Next, Start, Crash, Push
<1>3. QED
  BY <1>2 DEF host

LEMMA StepTyped ==
  ASSUME TypeOK, Next
  PROVE  TypeOK'
<1>0. fleet' = fleet /\ images' = images
  BY StepHost
<1>1. Unit' = Unit /\ AllJobs' = AllJobs /\ \A a : Of(a)' = Of(a)
  BY <1>0, SameHost
<1> USE <1>0, <1>1
<1>61. UNCHANGED previous => PreviousOK'
  BY DEF TypeOK, PreviousOK
<1>62. ASSUME NEW u \in Unit, NEW d \in Deployment, previous' = [previous EXCEPT ![u][at[u]] = d]
       PROVE  PreviousOK'
  <2>1. /\ DOMAIN previous' = Unit
        /\ \A v \in Unit : previous'[v] \in [DOMAIN fleet[v].jobs -> Deployment]
    BY <1>62, SetPrevious
  <2>2. QED
    BY <2>1 DEF PreviousOK
<1>63. ASSUME NEW u \in Unit, NEW c \in Nat, CheckedOut(u, c)
       PROVE  tree' \in [{j.checkout : j \in AllJobs} -> [head : Nat, file : Nat]]
  BY <1>63 DEF CheckedOut, TypeOK
<1>64. ASSUME NEW u \in Unit, Removed(u)
       PROVE  rendered' \in [{j.file : j \in AllJobs} -> Nat]
  BY <1>64 DEF Removed, TypeOK
<1>2. ASSUME NEW u \in Unit, Lock(u) PROVE TypeOK'
  <2>1. [commit |-> LastHealthy(u), services |-> 0] \in Deployment
    BY JobFacts DEF LastHealthy, Deployment, TypeOK
  <2>2. PreviousOK'
    BY <1>2, <1>61, <1>62, <2>1 DEF Lock
  <2>3. QED
    BY <1>2, <2>2, JobFacts DEF Lock, Go, TypeOK, Labels
<1>20. ASSUME NEW us, NEW kept, Forget(us, kept)
       PROVE  /\ PreviousOK'
              /\ commit' \in [Unit -> Nat] /\ desired' \in [Unit -> Nat]
              /\ root' \in [Unit -> {"checkout", "private"}]
              /\ mode' \in [Unit -> {"deploy", "rollback"}]
  <2>1. Nothing \in Deployment
    BY DEF Nothing, Deployment
  <2>2. QED
    BY <1>20, <2>1 DEF Forget, TypeOK, PreviousOK
<1>3. ASSUME NEW u \in Unit, Unlock(u) PROVE TypeOK'
  <2>1. at' \in [Unit -> Nat] /\ \A v \in Unit : at'[v] \in DOMAIN fleet[v].jobs
    BY <1>3, FleetFacts DEF Unlock, TypeOK
  <2>2. holder' \in [{j.lock : j \in AllJobs} -> Unit \cup {0}]
    BY <1>3 DEF Unlock, Released, TypeOK
  <2>3. Forget({u}, {v \in Unit : Watches(v)})
    BY <1>3 DEF Unlock
  <2>4. QED
    BY <1>3, <1>20, <2>1, <2>2, <2>3 DEF Unlock, Go, TypeOK, Labels
<1>4. ASSUME NEW u \in Unit, Fetch(u) \/ Recheck(u) \/ Restore(u) PROVE TypeOK'
  <2>1. P(u).commit \in Nat /\ remote \in Nat
    BY PreviousFacts DEF TypeOK
  <2>2. tree' \in [{j.checkout : j \in AllJobs} -> [head : Nat, file : Nat]]
    BY <1>4, <1>63, <2>1 DEF Fetch, Recheck, Restore
  <2>3. CASE Fetch(u)
    BY <1>61, <2>1, <2>2, <2>3 DEF Fetch, Go, TypeOK, Labels
  <2>4. CASE Recheck(u) \/ Restore(u)
    BY <1>61, <2>2, <2>4 DEF Recheck, Restore, Go, TypeOK, Labels, local
  <2>5. QED
    BY <1>4, <2>3, <2>4
<1>5. ASSUME NEW u \in Unit, Open(u) \/ Load(u) PROVE TypeOK'
  <2>1. CASE Open(u)
    BY <1>61, <2>1 DEF Open, Go, TypeOK, Labels
  <2>2. CASE Load(u)
    <3>1. tree[J(u).checkout].file \in Nat /\ commit[u] \in Nat
      BY JobFacts DEF TypeOK
    <3>2. desired' \in [Unit -> Nat]
      BY <2>2, <3>1 DEF Load, TypeOK
    <3>3. QED
      BY <1>61, <2>2, <3>2 DEF Load, Go, TypeOK, Labels
  <2>3. QED
    BY <1>5, <2>1, <2>2
<1>50. ASSUME NEW u \in Unit, NEW c \in Nat PROVE DeclaredAt(u, c) \in Nat
  BY JobFacts DEF DeclaredAt, TypeOK
<1>51. ASSUME NEW u \in Unit, Resolve(u) PROVE TypeOK'
  <2>1. DeclaredAt(u, P(u).commit) \in Nat
    BY <1>50, PreviousFacts
  <2>2. QED
    BY <1>61, <1>51, <2>1 DEF Resolve, Go, TypeOK, Labels
<1>6. ASSUME NEW u \in Unit, Hydrate(u) \/ Compare(u) \/ Collect(u) PROVE TypeOK'
  <2>1. LastHealthy(u) \in Nat /\ DeclaredAt(u, LastHealthy(u)) \in Nat
    BY <1>50, JobFacts DEF LastHealthy, TypeOK
  <2>2. DeclaredAt(u, P(u).commit) \in Nat /\ desired[u] \in Nat
    BY <1>50, PreviousFacts DEF TypeOK
  <2>3. PreviousOK'
    <3>1. CASE Hydrate(u)
      <4>1. CASE UNCHANGED previous
        BY <1>61, <4>1
      <4>2. CASE P(u).commit # 0 /\ P(u).services = 0
        <5>1. PICK s \in Nat : previous' = [previous EXCEPT ![u][at[u]].services = s]
          BY <2>2, <3>1, <4>2 DEF Hydrate
        <5>2. previous' = [previous EXCEPT ![u][at[u]] = [P(u) EXCEPT !.services = s]]
          BY <5>1 DEF P
        <5>3. [P(u) EXCEPT !.services = s] \in Deployment
          BY PreviousFacts DEF Deployment
        <5>4. QED
          BY <1>62, <5>2, <5>3
      <4>3. QED
        BY <3>1, <4>1, <4>2 DEF Hydrate
    <3>2. CASE Compare(u)
      <4>1. [commit |-> LastHealthy(u), services |-> DeclaredAt(u, LastHealthy(u))] \in Deployment
        BY <2>1 DEF Deployment
      <4>2. QED
        BY <1>62, <3>2, <4>1 DEF Compare
    <3>3. CASE Collect(u)
      <4>1. previous' = [previous EXCEPT ![u][at[u]] = [P(u) EXCEPT !.commit = LastHealthy(u)]]
        BY <3>3 DEF Collect, P
      <4>2. [P(u) EXCEPT !.commit = LastHealthy(u)] \in Deployment
        BY <2>1, PreviousFacts DEF Deployment
      <4>3. QED
        BY <1>62, <4>1, <4>2
    <3>4. QED
      BY <1>6, <3>1, <3>2, <3>3
  <2>4. QED
    BY <1>6, <2>3 DEF Hydrate, Compare, Collect, Go, TypeOK, Labels
<1>60. ASSUME NEW u \in Unit, Synced(u) PROVE PreviousOK'
  <2>1. [commit |-> commit[u], services |-> desired[u]] \in Deployment
    BY DEF Deployment, TypeOK
  <2>2. QED
    BY <1>60, <1>62, <2>1 DEF Synced
<1>7. ASSUME NEW u \in Unit, Plan(u) PROVE TypeOK'
  <2>1. PreviousOK'
    BY <1>7, <1>60, <1>61 DEF Plan
  <2>2. QED
    BY <1>7, <2>1 DEF Plan, Go, TypeOK, Labels
<1>8. ASSUME NEW u \in Unit, Rewrite(u) PROVE TypeOK'
  <2>1. tree' \in [{j.checkout : j \in AllJobs} -> [head : Nat, file : Nat]]
    BY <1>8, JobFacts DEF Rewrite, TypeOK
  <2>2. QED
    BY <1>61, <1>8, <2>1 DEF Rewrite, Go, TypeOK, Labels, local
<1>9. ASSUME NEW u \in Unit, Render(u) \/ Applied(u) PROVE TypeOK'
  <2>0. tree[J(u).checkout].file \in Nat
    BY JobFacts DEF TypeOK
  <2>1. rendered' \in [{j.file : j \in AllJobs} -> Nat]
    <3>1. CASE Render(u)
      BY <2>0, <3>1 DEF Render, TypeOK
    <3>2. CASE Applied(u)
      BY <1>64, <3>2 DEF Applied
    <3>3. QED
      BY <1>9, <3>1, <3>2
  <2>2. QED
    BY <1>61, <1>9, <2>1 DEF Render, Applied, Go, TypeOK, Labels, local
<1>10. ASSUME NEW u \in Unit, Command(u) \/ CommandFails(u) PROVE TypeOK'
  <2>0. rendered[J(u).file] \in Nat /\ running[J(u).workload] \in Nat
    BY JobFacts DEF TypeOK
  <2>1. running' \in [{j.workload : j \in AllJobs} -> Nat]
    BY <1>10, <2>0 DEF Command, CommandFails, TypeOK
  <2>2. faults' \in Nat
    BY <1>10 DEF Command, CommandFails, Fault, TypeOK
  <2>3. QED
    BY <1>61, <1>10, <2>1, <2>2 DEF Command, CommandFails, Go, TypeOK, Labels, local
<1>11. ASSUME NEW u \in Unit, Failed(u) \/ VerifyFails(u) PROVE TypeOK'
  <2>1. rendered' \in [{j.file : j \in AllJobs} -> Nat]
    BY <1>11, <1>64 DEF Failed, VerifyFails, TypeOK
  <2>2. pc' \in [Unit -> Labels] /\ mode' \in [Unit -> {"deploy", "rollback"}]
    BY <1>11 DEF Failed, VerifyFails, RollBack, TypeOK, Labels
  <2>3. faults' \in Nat
    BY <1>11 DEF Failed, VerifyFails, Fault, TypeOK
  <2>4. QED
    BY <1>61, <1>11, <2>1, <2>2, <2>3 DEF Failed, VerifyFails, TypeOK
<1>12. ASSUME NEW u \in Unit, Record(u) PROVE TypeOK'
  <2>1. recorded' \in [{j.journal : j \in AllJobs} -> Nat]
    BY <1>12 DEF Record, TypeOK
  <2>2. PreviousOK'
    BY <1>12, <1>60, <1>61 DEF Record
  <2>3. QED
    BY <1>12, <2>1, <2>2 DEF Record, Go, TypeOK, Labels
<1>13. ASSUME NEW u \in Unit, SourceFails(u) PROVE TypeOK'
  BY <1>61, <1>13 DEF SourceFails, Fault, TypeOK, Labels, local
<1>14. ASSUME NEW u \in Unit, GiveUp(u) PROVE TypeOK'
  <2>1. at' \in [Unit -> Nat] /\ \A v \in Unit : at'[v] \in DOMAIN fleet[v].jobs
    BY <1>14, FleetFacts DEF GiveUp, TypeOK
  <2>2. holder' \in [{j.lock : j \in AllJobs} -> Unit \cup {0}]
    BY <1>14 DEF GiveUp, Released, TypeOK
  <2>3. Forget({u}, {})
    BY <1>14 DEF GiveUp
  <2>4. QED
    BY <1>14, <1>20, <2>1, <2>2, <2>3 DEF GiveUp, Go, Fault, TypeOK, Labels
<1>15. ASSUME NEW a \in Agents, Start(a) PROVE TypeOK'
  BY <1>61, <1>15 DEF Start, TypeOK, Labels, local
<1>16. ASSUME NEW a \in Agents, Crash(a) PROVE TypeOK'
  <2>1. at' \in [Unit -> Nat] /\ \A v \in Unit : at'[v] \in DOMAIN fleet[v].jobs
    BY <1>16, FleetFacts DEF Crash, TypeOK
  <2>2. holder' \in [{j.lock : j \in AllJobs} -> Unit \cup {0}]
    BY <1>16 DEF Crash, TypeOK
  <2>3. Forget(Of(a), {})
    BY <1>16 DEF Crash
  <2>4. QED
    BY <1>16, <1>20, <2>1, <2>2, <2>3 DEF Crash, Fault, TypeOK, Labels
<1>17. ASSUME Push PROVE TypeOK'
  BY <1>61, <1>17 DEF Push, TypeOK, local
<1>18. QED
  BY <1>2, <1>3, <1>4, <1>5, <1>51, <1>6, <1>7, <1>8, <1>9, <1>10, <1>11, <1>12, <1>13,
     <1>14, <1>15, <1>16, <1>17 DEF Next, Step, Reads, Works

LEMMA SameTyped ==
  ASSUME TypeOK, UNCHANGED vars
  PROVE  TypeOK'
<1>1. Unit' = Unit /\ AllJobs' = AllJobs
  BY DEF vars, host, Unit, AllJobs
<1>2. PreviousOK'
  BY <1>1 DEF TypeOK, PreviousOK, vars, host
<1>3. QED
  BY <1>1, <1>2 DEF TypeOK, vars, host, local

\* Every reachable state is well typed: in particular no unit runs past its
\* last target and no lock is held by a unit that does not exist.
THEOREM FleetTyping == Spec => []TypeOK
<1>1. TypeOK /\ [Next]_vars => TypeOK'
  BY SameTyped, StepTyped
<1>2. QED
  BY <1>1, InitTyped, PTL DEF Spec
-----------------------------------------------------------------------------
(* Locking: units in a cycle that share anything are one. *)

LEMMA InitLocked == Init => Locked
BY DEF Init, Locked, Inside

LEMMA StepLocked ==
  ASSUME TypeOK, Locked, NEW u \in Unit, Step(u)
  PROVE  Locked'
<1>0. fleet' = fleet
  BY StepHost DEF Next
<1>1. Unit' = Unit /\ (\A v : TakesLock(v)' = TakesLock(v)) /\ 0 \notin Unit
  BY <1>0, SameHost, FleetFacts DEF TypeOK
<1> USE <1>0, <1>1
<1>2. CASE Lock(u)
  BY <1>2, JobFacts DEF Lock, Go, Locked, Inside, TypeOK, J
<1>3. CASE Unlock(u) \/ GiveUp(u)
  <2>1. pc'[u] \in {"rest", "lock"} /\ \A v \in Unit \ {u} : pc'[v] = pc[v] /\ at'[v] = at[v]
    BY <1>3 DEF Unlock, GiveUp, Go, TypeOK
  <2>2. holder' = Released(u)
    BY <1>3 DEF Unlock, GiveUp
  <2>3. \A v \in Unit \ {u} : J(v)' = J(v)
    BY <2>1 DEF J
  <2>4. ASSUME NEW v \in Unit \ {u}, TakesLock(v), Inside(v) PROVE holder'[J(v).lock] = v
    <3>1. holder[J(v).lock] = v
      BY <2>4 DEF Locked
    <3>2. QED
      BY <2>2, <3>1, JobFacts DEF Released, TypeOK
  <2>5. QED
    BY <2>1, <2>3, <2>4 DEF Locked, Inside
<1>4. CASE Reads(u) \/ Works(u) \/ SourceFails(u) \/ CommandFails(u) \/ VerifyFails(u)
  <2>1. /\ holder' = holder /\ at' = at /\ Inside(u)
        /\ \A v \in Unit \ {u} : pc'[v] = pc[v]
    <3>1. CASE Reads(u)
      BY <3>1 DEF Reads, Fetch, Recheck, Open, Load, Resolve, Restore, Hydrate, Compare,
         Collect, Go, Inside, TypeOK
    <3>2. CASE Works(u)
      BY <3>2 DEF Works, Plan, Rewrite, Render, Command, Applied, Failed, RollBack, Record,
         Go, Inside, TypeOK
    <3>3. CASE SourceFails(u) \/ CommandFails(u) \/ VerifyFails(u)
      BY <3>3 DEF SourceFails, CommandFails, VerifyFails, RollBack, Go, Inside, TypeOK
    <3>4. QED
      BY <1>4, <3>1, <3>2, <3>3
  <2>2. \A v \in Unit : J(v)' = J(v)
    BY <2>1 DEF J
  <2>3. QED
    BY <2>1, <2>2 DEF Locked, Inside
<1>5. QED
  BY <1>2, <1>3, <1>4 DEF Step

\* Two units in a cycle work on different checkouts and files; when both take
\* locks, on different Compose projects and journals as well.
LEMMA Alone ==
  ASSUME Isolation, TypeOK, Locked,
         NEW u \in Unit, NEW v \in Unit, u # v, Inside(u), Inside(v)
  PROVE  /\ J(u).checkout # J(v).checkout /\ J(u).file # J(v).file
         /\ TakesLock(u) /\ TakesLock(v) =>
              J(u).workload # J(v).workload /\ J(u).journal # J(v).journal
<1>1. Isolated(fleet) /\ at[u] \in DOMAIN fleet[u].jobs /\ at[v] \in DOMAIN fleet[v].jobs
  BY DEF Isolation, TypeOK
<1>2. IF "status" \in {fleet[u].kind, fleet[v].kind}
      THEN J(u).checkout # J(v).checkout /\ J(u).file # J(v).file
      ELSE J(u).lock = J(v).lock \/ Apart(J(u), J(v))
  BY <1>1 DEF Isolated, J, Unit
<1>3. TakesLock(u) /\ TakesLock(v) => J(u).lock # J(v).lock
  BY DEF Locked
<1>4. QED
  BY <1>2, <1>3 DEF Apart, TakesLock
-----------------------------------------------------------------------------
(* What a step of one unit leaves to the others. *)

\* The local variables of the others; and, if the unit only waits for its lock,
\* everything that is shared but the lock.
LEMMA StepLocal ==
  ASSUME TypeOK, NEW u \in Unit, Step(u), NEW v \in Unit, v # u
  PROVE  /\ pc'[v] = pc[v] /\ at'[v] = at[v] /\ commit'[v] = commit[v]
         /\ root'[v] = root[v] /\ desired'[v] = desired[v]
         /\ previous'[v] = previous[v] /\ mode'[v] = mode[v]
<1>0. DOMAIN previous = Unit /\ at[u] \in DOMAIN previous[u]
  BY PreviousFacts DEF TypeOK, PreviousOK
<1>1. CASE Lock(u)
  BY <1>0, <1>1 DEF Lock, Go, TypeOK
<1>2. CASE Unlock(u) \/ GiveUp(u)
  <2>1. Forget({u}, {w \in Unit : Watches(w)}) \/ Forget({u}, {})
    BY <1>2 DEF Unlock, GiveUp
  <2>2. \A w \in Unit \ {u} : w \notin {u}
    OBVIOUS
  <2>3. /\ commit'[v] = commit[v] /\ root'[v] = root[v] /\ desired'[v] = desired[v]
        /\ previous'[v] = previous[v] /\ mode'[v] = mode[v]
    BY <2>1, <2>2 DEF Forget
  <2>4. QED
    BY <1>2, <2>3 DEF Unlock, GiveUp, Go, TypeOK
<1>3. CASE Fetch(u) \/ Recheck(u) \/ Open(u) \/ Load(u) \/ Resolve(u) \/ Restore(u)
  BY <1>3 DEF Fetch, Recheck, Open, Load, Resolve, Restore, Go, local, TypeOK
<1>4. CASE Hydrate(u) \/ Compare(u) \/ Collect(u)
  BY <1>0, <1>4 DEF Hydrate, Compare, Collect, Go, TypeOK
<1>5. CASE Plan(u) \/ Record(u)
  BY <1>0, <1>5 DEF Plan, Record, Synced, Go, TypeOK
<1>6. CASE Rewrite(u) \/ Render(u) \/ Command(u) \/ Applied(u)
  BY <1>6 DEF Rewrite, Render, Command, Applied, Go, local, TypeOK
<1>7. CASE Failed(u) \/ VerifyFails(u)
  BY <1>7 DEF Failed, VerifyFails, RollBack, TypeOK
<1>8. CASE SourceFails(u) \/ CommandFails(u)
  BY <1>8 DEF SourceFails, CommandFails, Go, local, TypeOK
<1>9. QED
  BY <1>1, <1>2, <1>3, <1>4, <1>5, <1>6, <1>7, <1>8 DEF Step, Reads, Works

\* Everything shared that does not belong to the job of the unit; and all of it
\* while the unit only waits for its lock.
LEMMA StepShared ==
  ASSUME TypeOK, NEW u \in Unit, Ready(u), Step(u)
  PROVE  /\ fleet' = fleet /\ images' = images /\ remote' = remote
         /\ \A c \in DOMAIN tree : ~Inside(u) \/ c # J(u).checkout => tree'[c] = tree[c]
         /\ \A f \in DOMAIN rendered : ~Inside(u) \/ f # J(u).file => rendered'[f] = rendered[f]
         /\ \A w \in DOMAIN running :
              ~Inside(u) \/ ~TakesLock(u) \/ w # J(u).workload => running'[w] = running[w]
         /\ \A k \in DOMAIN recorded :
              ~Inside(u) \/ ~TakesLock(u) \/ k # J(u).journal => recorded'[k] = recorded[k]
<1>0. fleet' = fleet /\ images' = images
  BY StepHost DEF Next
<1> USE <1>0
<1>1. CASE Lock(u) \/ Unlock(u) \/ GiveUp(u) \/ SourceFails(u) \/ VerifyFails(u)
  BY <1>1 DEF Lock, Unlock, GiveUp, SourceFails, VerifyFails
<1>2. CASE Fetch(u) \/ Recheck(u) \/ Restore(u) \/ Rewrite(u)
  <2>1. Inside(u)
    BY <1>2 DEF Fetch, Recheck, Restore, Rewrite, Go, Inside
  <2>2. QED
    BY <1>2, <2>1 DEF Fetch, Recheck, Restore, Rewrite, CheckedOut, TypeOK
<1>3. CASE Open(u) \/ Load(u) \/ Resolve(u) \/ Hydrate(u) \/ Compare(u) \/ Collect(u) \/ Plan(u)
  BY <1>3 DEF Open, Load, Resolve, Hydrate, Compare, Collect, Plan
<1>4. CASE Render(u) \/ Applied(u) \/ Failed(u)
  <2>1. Inside(u)
    BY <1>4 DEF Render, Applied, Failed, Go, Inside
  <2>2. QED
    BY <1>4, <2>1 DEF Render, Applied, Failed, Removed, TypeOK
<1>5. CASE Command(u) \/ CommandFails(u) \/ Record(u)
  <2>1. Inside(u) /\ Deploys(u)
    BY <1>5 DEF Command, CommandFails, Record, Go, Inside, Ready, InPlace, OfDeployment
  <2>2. TakesLock(u)
    BY <2>1 DEF Deploys, TakesLock
  <2>3. QED
    BY <1>5, <2>1, <2>2 DEF Command, CommandFails, Record, TypeOK
<1>6. QED
  BY <1>1, <1>2, <1>3, <1>4, <1>5 DEF Step, Reads, Works

\* So a unit in a cycle finds what its job works on as it left it.
LEMMA Undisturbed ==
  ASSUME Isolation, TypeOK, Locked, NEW u \in Unit, Ready(u), Step(u),
         NEW v \in Unit, v # u, Inside(v)
  PROVE  /\ J(v)' = J(v)
         /\ tree'[J(v).checkout] = tree[J(v).checkout]
         /\ rendered'[J(v).file] = rendered[J(v).file]
         /\ TakesLock(v) => /\ running'[J(v).workload] = running[J(v).workload]
                            /\ recorded'[J(v).journal] = recorded[J(v).journal]
<1>1. J(v)' = J(v)
  BY StepLocal, StepShared DEF J
<1>2. /\ J(v).checkout \in DOMAIN tree /\ J(v).file \in DOMAIN rendered
      /\ J(v).workload \in DOMAIN running /\ J(v).journal \in DOMAIN recorded
  BY JobFacts
<1>3. CASE Inside(u)
  <2>1. /\ J(u).checkout # J(v).checkout /\ J(u).file # J(v).file
        /\ TakesLock(u) /\ TakesLock(v) =>
             J(u).workload # J(v).workload /\ J(u).journal # J(v).journal
    BY <1>3, Alone
  <2>2. QED
    BY <1>1, <1>2, <2>1, StepShared
<1>4. CASE ~Inside(u)
  BY <1>1, <1>2, <1>4, StepShared
<1>5. QED
  BY <1>3, <1>4

LEMMA OthersReady ==
  ASSUME Isolation, TypeOK, Locked, NEW u \in Unit, Ready(u), Step(u),
         NEW v \in Unit, v # u, Ready(v)
  PROVE  Ready(v)'
<1>1. /\ pc'[v] = pc[v] /\ at'[v] = at[v] /\ commit'[v] = commit[v] /\ root'[v] = root[v]
      /\ desired'[v] = desired[v] /\ previous'[v] = previous[v] /\ mode'[v] = mode[v]
  BY StepLocal
<1>2. /\ Deploys(v)' = Deploys(v) /\ TakesLock(v)' = TakesLock(v)
      /\ Deploys(v) => TakesLock(v)
      /\ \A c : Image(c)' = Image(c)
  BY StepShared, SameHost DEF Deploys, TakesLock, Image
<1>3. CASE ~Inside(v)
  <2>1. Inside(v)' = Inside(v)
    BY <1>1 DEF Inside
  <2>2. InPlace(v)' /\ Compares(v)'
    BY <1>1, <1>2, <1>3, <2>1 DEF Ready, InPlace, Compares, Inside
  <2>3. Read(v)' /\ Runs(v)'
    BY <1>1, <1>3 DEF Read, Runs, Inside, Attempt
  <2>4. QED
    BY <2>2, <2>3 DEF Ready
<1>4. CASE Inside(v)
  <2>1. /\ J(v)' = J(v)
        /\ tree'[J(v).checkout] = tree[J(v).checkout]
        /\ rendered'[J(v).file] = rendered[J(v).file]
        /\ TakesLock(v) => /\ running'[J(v).workload] = running[J(v).workload]
                           /\ recorded'[J(v).journal] = recorded[J(v).journal]
    BY <1>4, Undisturbed
  <2>2. P(v)' = P(v) /\ Target(v)' = Target(v)
    <3>1. P(v)' = P(v)
      BY <1>1 DEF P
    <3>2. QED
      BY <1>1, <3>1 DEF Target
  <2>3. TakesLock(v) => LastHealthy(v)' = LastHealthy(v)
    BY <2>1 DEF LastHealthy
  <2>4. InPlace(v)' /\ Read(v)'
    BY <1>1, <1>2, <2>1, <2>2 DEF Ready, InPlace, Read
  <2>5. Compares(v)'
    BY <1>1, <1>2, <1>4, <2>2, <2>3 DEF Ready, Compares, Inside
  <2>6. pc[v] \in {"applied", "record"} => TakesLock(v)
    BY <1>2 DEF Ready, InPlace, OfDeployment
  <2>7. Runs(v)'
    BY <1>1, <1>2, <2>1, <2>2, <2>6 DEF Ready, Runs
  <2>8. QED
    BY <2>4, <2>5, <2>7 DEF Ready
<1>5. QED
  BY <1>3, <1>4
-----------------------------------------------------------------------------
(* What a step of a unit makes true for the unit itself. *)

\* A step that leaves the journals and the previous deployments alone.
LEMMA SameComparison ==
  ASSUME TypeOK, NEW u \in Unit, Compares(u), Inside(u), fleet' = fleet,
         UNCHANGED <<at, recorded, previous>>, pc'[u] # "plan"
  PROVE  Compares(u)'
<1>1. Deploys(u)' = Deploys(u) /\ TakesLock(u)' = TakesLock(u)
  BY SameHost
<1>2. J(u)' = J(u)
  BY DEF J
<1>3. P(u)' = P(u) /\ LastHealthy(u)' = LastHealthy(u)
  BY <1>2 DEF P, LastHealthy
<1>4. QED
  BY <1>1, <1>3 DEF Compares

\* Files and containers are what they were.
LEMMA SameTarget ==
  ASSUME NEW u \in Unit, fleet' = fleet, images' = images, UNCHANGED at
  PROVE  /\ J(u)' = J(u)
         /\ UNCHANGED previous => P(u)' = P(u)
         /\ UNCHANGED <<commit, previous, mode>> => Target(u)' = Target(u)
         /\ \A c : Image(c)' = Image(c)
<1>1. J(u)' = J(u) /\ \A c : Image(c)' = Image(c)
  BY DEF J, Image
<1>2. UNCHANGED previous => P(u)' = P(u)
  BY DEF P
<1>3. QED
  BY <1>1, <1>2 DEF Target

\* A unit whose own variables, and what its job works on, are as they were.
LEMMA SameReady ==
  ASSUME NEW u \in Unit, Ready(u), fleet' = fleet, images' = images,
         pc'[u] = pc[u], at'[u] = at[u], commit'[u] = commit[u], root'[u] = root[u],
         desired'[u] = desired[u], previous'[u] = previous[u], mode'[u] = mode[u],
         UNCHANGED <<tree, rendered, running, recorded>>
  PROVE  Ready(u)'
<1>1. Deploys(u)' = Deploys(u) /\ TakesLock(u)' = TakesLock(u)
  BY SameHost
<1>2. J(u)' = J(u) /\ P(u)' = P(u) /\ \A c : Image(c)' = Image(c)
  BY DEF J, P, Image
<1>3. LastHealthy(u)' = LastHealthy(u) /\ Target(u)' = Target(u) /\ Inside(u)' = Inside(u)
  BY <1>2 DEF LastHealthy, Target, Inside
<1>4. InPlace(u)' /\ Read(u)'
  BY <1>1, <1>2, <1>3 DEF Ready, InPlace, Read
<1>5. Compares(u)'
  BY <1>1, <1>2, <1>3 DEF Ready, Compares
<1>6. Runs(u)'
  BY <1>2, <1>3 DEF Ready, Runs
<1>7. QED
  BY <1>4, <1>5, <1>6 DEF Ready

\* A unit that is at rest, or waits, with what its process still remembers.
LEMMA OutsideReady ==
  ASSUME NEW u \in Unit, Ready(u), fleet' = fleet, pc'[u] \in {"rest", "lock"}, mode'[u] = "deploy",
         previous'[u] = previous[u] \/ previous'[u] = [i \in DOMAIN fleet[u].jobs |-> Nothing]
  PROVE  Ready(u)'
<1>1. TakesLock(u)' = TakesLock(u)
  BY SameHost
<1>2. TakesLock(u) => \A i \in DOMAIN previous'[u] :
        previous'[u][i].services \in {0, previous'[u][i].commit}
  BY DEF Nothing, Ready, Compares
<1>3. Compares(u)'
  BY <1>1, <1>2 DEF Compares, Inside
<1>4. QED
  BY <1>3 DEF Ready, InPlace, Read, Runs, OfDeployment, Attempt

LEMMA OwnReady ==
  ASSUME TypeOK, NEW u \in Unit, Ready(u), Step(u)
  PROVE  Ready(u)'
<1> USE DEF Forward, OfDeployment, Attempt
<1>1. /\ fleet' = fleet /\ images' = images
      /\ Deploys(u)' = Deploys(u) /\ TakesLock(u)' = TakesLock(u)
      /\ Deploys(u) => TakesLock(u)
  BY StepShared, SameHost DEF Deploys, TakesLock
<1>2. CASE Lock(u)
  <2>1. /\ pc'[u] = "fetch" /\ mode'[u] = "deploy"
        /\ UNCHANGED <<at, recorded>>
    BY <1>2 DEF Lock, Go, Ready, InPlace, TypeOK
  <2>2. J(u)' = J(u) /\ LastHealthy(u)' = LastHealthy(u)
    BY <1>1, <2>1 DEF J, LastHealthy
  <2>3. Compares(u)'
    <3>1. CASE Deploys(u) /\ LastHealthy(u) # 0
      <4>1. previous' = [previous EXCEPT ![u][at[u]] = [commit |-> LastHealthy(u), services |-> 0]]
        BY <1>2, <3>1 DEF Lock
      <4>2. [commit |-> LastHealthy(u), services |-> 0] \in Deployment
        BY JobFacts DEF LastHealthy, Deployment, TypeOK
      <4>3. P(u)' = [commit |-> LastHealthy(u), services |-> 0]
        BY <2>1, <4>1, <4>2, SetPrevious
      <4>4. \A i \in DOMAIN previous'[u] : previous'[u][i].services \in {0, previous'[u][i].commit}
        BY <1>1, <3>1, <4>1, <4>2, SetPrevious DEF Ready, Compares
      <4>5. QED
        BY <1>1, <2>1, <2>2, <4>3, <4>4 DEF Compares
    <3>2. CASE ~(Deploys(u) /\ LastHealthy(u) # 0)
      <4>1. previous' = previous
        BY <1>2, <3>2 DEF Lock
      <4>2. QED
        BY <1>1, <2>1, <2>2, <3>2, <4>1 DEF Ready, Compares
    <3>3. QED
      BY <3>1, <3>2
  <2>4. QED
    BY <2>1, <2>3 DEF Ready, InPlace, Read, Runs
<1>3. CASE Unlock(u) \/ GiveUp(u)
  <2>1. pc'[u] \in {"rest", "lock"}
    BY <1>3 DEF Unlock, GiveUp, Go, TypeOK
  <2>2. \E kept : Forget({u}, kept)
    BY <1>3 DEF Unlock, GiveUp
  <2>3. /\ mode'[u] = "deploy"
        /\ \/ previous'[u] = previous[u]
           \/ previous'[u] = [i \in DOMAIN fleet[u].jobs |-> Nothing]
    BY <2>2 DEF Forget
  <2>4. QED
    BY <1>1, <2>1, <2>3, OutsideReady
<1>4. CASE SourceFails(u)
  <2>1. pc'[u] = "unlock" /\ Inside(u) /\ UNCHANGED <<at, recorded, previous>>
    BY <1>4 DEF SourceFails, Inside, TypeOK, local
  <2>2. Compares(u)'
    BY <1>1, <2>1, SameComparison DEF Ready
  <2>3. QED
    BY <2>1, <2>2 DEF Ready, InPlace, Read, Runs
<1>5. CASE Fetch(u)
  <2>1. /\ pc[u] = "fetch" /\ pc'[u] = "open" /\ Inside(u) /\ commit'[u] = remote
        /\ UNCHANGED <<at, recorded, previous, mode>>
    BY <1>5 DEF Fetch, Go, Inside, TypeOK
  <2>2. J(u)' = J(u)
    BY <1>1, <2>1, SameTarget
  <2>3. tree'[J(u).checkout].head = remote /\ tree'[J(u).checkout].file = remote
    BY <1>5, JobFacts DEF Fetch, CheckedOut, TypeOK
  <2>4. Compares(u)'
    BY <1>1, <2>1, SameComparison DEF Ready
  <2>5. QED
    BY <2>1, <2>2, <2>3, <2>4 DEF Ready, InPlace, Read, Runs
<1>6. CASE Recheck(u)
  <2>1. /\ pc[u] = "recheck" /\ pc'[u] \in {"unlock", "fetch"} /\ Inside(u)
        /\ UNCHANGED <<at, recorded, previous, mode>>
    BY <1>6 DEF Recheck, Go, Inside, TypeOK, local
  <2>2. Compares(u)'
    BY <1>1, <2>1, SameComparison DEF Ready
  <2>3. QED
    BY <2>1, <2>2 DEF Ready, InPlace, Read, Runs
<1>7. CASE Restore(u)
  <2>1. /\ pc[u] = "restore" /\ pc'[u] = "rewrite" /\ Inside(u) /\ mode[u] = "rollback"
        /\ UNCHANGED <<at, recorded, previous, mode, desired, commit>>
    BY <1>7 DEF Restore, Go, Inside, TypeOK, local, Ready, InPlace
  <2>2. Target(u)' = Target(u)
    BY <1>1, <2>1, SameTarget
  <2>3. Compares(u)'
    BY <1>1, <2>1, SameComparison DEF Ready
  <2>4. QED
    BY <1>1, <2>1, <2>2, <2>3 DEF Ready, InPlace, Read, Runs
<1>8. CASE Open(u) \/ Load(u)
  <2>1. /\ <<pc[u], pc'[u]>> \in {<<"open", "load">>, <<"load", "baseline">>} /\ Inside(u)
        /\ UNCHANGED <<at, recorded, previous, mode, commit, tree>>
    BY <1>8 DEF Open, Load, Go, Inside, TypeOK
  <2>2. J(u)' = J(u) /\ Target(u)' = Target(u)
    BY <1>1, <2>1, SameTarget
  <2>3. /\ tree[J(u).checkout].head = commit[u] /\ tree[J(u).checkout].file = commit[u]
        /\ mode[u] = "deploy"
    BY <2>1 DEF Ready, Read, InPlace
  <2>4. CASE Open(u)
    <3>1. root'[u] = "checkout" /\ pc'[u] = "load"
      BY <2>3, <2>4 DEF Open, Go, TypeOK
    <3>2. Compares(u)'
      BY <1>1, <2>1, <3>1, SameComparison DEF Ready
    <3>3. QED
      BY <2>1, <2>2, <2>3, <3>1, <3>2 DEF Ready, InPlace, Read, Runs
  <2>5. CASE Load(u)
    <3>1. desired'[u] = commit[u] /\ pc'[u] = "baseline"
      BY <2>3, <2>5 DEF Load, Go, TypeOK, Ready, Read
    <3>2. Compares(u)'
      BY <1>1, <2>1, <3>1, SameComparison DEF Ready
    <3>3. desired'[u] = Target(u)'
      BY <2>1, <2>3, <3>1 DEF Target
    <3>4. QED
      BY <2>1, <2>2, <2>3, <3>1, <3>2, <3>3 DEF Ready, InPlace, Read, Runs
  <2>6. QED
    BY <1>8, <2>4, <2>5
<1>9. CASE Hydrate(u) \/ Compare(u) \/ Collect(u)
  <2>1. /\ pc[u] = "baseline" /\ pc'[u] = "plan" /\ Inside(u)
        /\ UNCHANGED <<at, recorded, mode, commit, tree, desired>>
    BY <1>9 DEF Hydrate, Compare, Collect, Go, Inside, TypeOK
  <2>2. J(u)' = J(u) /\ LastHealthy(u)' = LastHealthy(u)
    BY <1>1, <2>1 DEF J, LastHealthy
  <2>3. /\ tree[J(u).checkout].head = commit[u] /\ tree[J(u).checkout].file = commit[u]
        /\ mode[u] = "deploy" /\ desired[u] = commit[u]
    BY <2>1 DEF Ready, Read, InPlace, Target
  <2>4. \A c : DeclaredAt(u, c) = c
    BY <2>3 DEF DeclaredAt
  <2>5. TakesLock(u) => /\ P(u)'.services = P(u)'.commit
                        /\ LastHealthy(u) # 0 => P(u)'.commit = LastHealthy(u)
                        /\ \A i \in DOMAIN previous'[u] :
                             previous'[u][i].services \in {0, previous'[u][i].commit}
    <3>1. CASE Collect(u)
      BY <3>1 DEF Collect, TakesLock
    <3>2. CASE Compare(u)
      <4>1. previous' = [previous EXCEPT ![u][at[u]] =
                           [commit |-> LastHealthy(u), services |-> LastHealthy(u)]]
        BY <2>4, <3>2 DEF Compare
      <4>2. [commit |-> LastHealthy(u), services |-> LastHealthy(u)] \in Deployment
        BY JobFacts DEF LastHealthy, Deployment, TypeOK
      <4>3. P(u)' = [commit |-> LastHealthy(u), services |-> LastHealthy(u)]
        BY <2>1, <4>1, <4>2, SetPrevious
      <4>4. TakesLock(u) => \A i \in DOMAIN previous'[u] :
              previous'[u][i].services \in {0, previous'[u][i].commit}
        BY <4>1, <4>2, SetPrevious DEF Ready, Compares
      <4>5. QED
        BY <4>3, <4>4
    <3>3. CASE Hydrate(u)
      <4>0. /\ Deploys(u) /\ TakesLock(u) /\ at[u] \in DOMAIN previous[u]
            /\ LastHealthy(u) # 0 => P(u).commit = LastHealthy(u)
        BY <1>1, <2>1, <3>3, PreviousFacts DEF Hydrate, Ready, Compares
      <4>1. CASE P(u).commit # 0 /\ P(u).services = 0
        <5>1. previous' = [previous EXCEPT ![u][at[u]].services = P(u).commit]
          BY <2>3, <2>4, <3>3, <4>1 DEF Hydrate
        <5>2. previous' = [previous EXCEPT ![u][at[u]] =
                             [commit |-> P(u).commit, services |-> P(u).commit]]
          <6>1. previous' = [previous EXCEPT ![u][at[u]] = [P(u) EXCEPT !.services = P(u).commit]]
            BY <5>1 DEF P
          <6>2. [P(u) EXCEPT !.services = P(u).commit] =
                  [commit |-> P(u).commit, services |-> P(u).commit]
            BY PreviousFacts DEF Deployment
          <6>3. QED
            BY <6>1, <6>2
        <5>3. [commit |-> P(u).commit, services |-> P(u).commit] \in Deployment
          BY PreviousFacts DEF Deployment
        <5>4. P(u)' = [commit |-> P(u).commit, services |-> P(u).commit]
          BY <2>1, <5>2, <5>3, SetPrevious
        <5>5. \A i \in DOMAIN previous'[u] :
                previous'[u][i].services \in {0, previous'[u][i].commit}
          BY <4>0, <5>2, <5>3, SetPrevious DEF Ready, Compares
        <5>6. QED
          BY <4>0, <5>4, <5>5
      <4>2. CASE ~(P(u).commit # 0 /\ P(u).services = 0)
        <5>1. previous' = previous
          BY <3>3, <4>2 DEF Hydrate
        <5>2. P(u).services \in {0, P(u).commit}
          BY <4>0 DEF Ready, Compares, P
        <5>3. P(u)' = P(u)
          BY <2>1, <5>1 DEF P
        <5>4. QED
          BY <4>0, <4>2, <5>1, <5>2, <5>3 DEF Ready, Compares
      <4>3. QED
        BY <4>1, <4>2
    <3>4. QED
      BY <1>9, <3>1, <3>2, <3>3
  <2>6. Compares(u)'
    BY <1>1, <2>1, <2>2, <2>5 DEF Compares
  <2>7. desired'[u] = Target(u)'
    BY <2>1, <2>3 DEF Target
  <2>8. QED
    BY <2>1, <2>2, <2>3, <2>6, <2>7 DEF Ready, InPlace, Read, Runs
<1>10. CASE Resolve(u)
  <2>1. /\ pc[u] = "resolve" /\ pc'[u] = "restore" /\ Inside(u) /\ mode[u] = "rollback"
        /\ UNCHANGED <<at, recorded, previous, mode, commit>>
    BY <1>10 DEF Resolve, Go, Inside, TypeOK, Ready, InPlace
  <2>2. tree[J(u).checkout].head = commit[u] /\ tree[J(u).checkout].file = commit[u]
    BY <2>1 DEF Ready, Read
  <2>3. desired'[u] = P(u).commit
    BY <1>10, <2>2 DEF Resolve, DeclaredAt, TypeOK
  <2>4. desired'[u] = Target(u)'
    BY <1>1, <2>1, <2>3, SameTarget DEF Target
  <2>5. Compares(u)'
    BY <1>1, <2>1, SameComparison DEF Ready
  <2>6. QED
    BY <1>1, <2>1, <2>4, <2>5 DEF Ready, InPlace, Read, Runs
<1>11. CASE Plan(u)
  <2>1. /\ pc[u] = "plan" /\ pc'[u] \in {"render", "record", "recheck", "unlock"} /\ Inside(u)
        /\ pc'[u] # "unlock" => Deploys(u)
        /\ pc'[u] \in {"record", "recheck"} => ~Changes(u)
        /\ UNCHANGED <<at, recorded, mode, commit, tree, desired, running>>
    BY <1>11 DEF Plan, Go, Inside, TypeOK
  <2>2. J(u)' = J(u) /\ LastHealthy(u)' = LastHealthy(u) /\ \A c : Image(c)' = Image(c)
    BY <1>1, <2>1, SameTarget DEF LastHealthy
  <2>3. /\ tree[J(u).checkout].head = commit[u] /\ tree[J(u).checkout].file = commit[u]
        /\ mode[u] = "deploy" /\ desired[u] = commit[u] /\ Target(u)' = commit[u]
    BY <2>1 DEF Ready, Read, InPlace, Target
  <2>4. Compares(u)'
    <3>1. CASE UNCHANGED previous
      BY <1>1, <2>1, <3>1, SameComparison DEF Ready
    <3>2. CASE Synced(u) /\ Deploys(u) /\ ~Changes(u)
      <4>1. previous' = [previous EXCEPT ![u][at[u]] =
                           [commit |-> commit[u], services |-> commit[u]]]
        BY <2>3, <3>2 DEF Synced
      <4>2. [commit |-> commit[u], services |-> commit[u]] \in Deployment
        BY DEF Deployment, TypeOK
      <4>3. P(u)' = [commit |-> commit[u], services |-> commit[u]]
        BY <2>1, <4>1, <4>2, SetPrevious
      <4>4. \A i \in DOMAIN previous'[u] : previous'[u][i].services \in {0, previous'[u][i].commit}
        BY <1>1, <3>2, <4>1, <4>2, SetPrevious DEF Ready, Compares
      <4>5. P(u).commit \in {0, commit[u]} /\ (LastHealthy(u) # 0 => P(u).commit = LastHealthy(u))
        BY <1>1, <2>1, <2>3, <3>2 DEF Ready, Compares, Changes
      <4>6. QED
        BY <1>1, <2>1, <2>2, <4>3, <4>4, <4>5 DEF Compares
    <3>3. QED
      BY <1>11, <3>1, <3>2 DEF Plan
  <2>5. pc'[u] = "record" => (Image(running[J(u).workload]) = Image(Target(u)))'
    BY <2>1, <2>2, <2>3 DEF Changes
  <2>6. desired'[u] = Target(u)'
    BY <2>1, <2>3
  <2>7. InPlace(u)' /\ Read(u)'
    BY <1>1, <2>1, <2>2, <2>3, <2>6 DEF InPlace, Read
  <2>8. Runs(u)'
    BY <2>1, <2>2, <2>3, <2>5 DEF Runs
  <2>9. QED
    BY <2>4, <2>7, <2>8 DEF Ready
<1>12. CASE Rewrite(u)
  <2>1. /\ pc[u] = "rewrite" /\ pc'[u] = "render" /\ Inside(u) /\ mode[u] = "rollback"
        /\ UNCHANGED <<at, recorded, previous, mode, desired, commit>>
    BY <1>12 DEF Rewrite, Go, Inside, TypeOK, local, Ready, InPlace
  <2>2. J(u)' = J(u) /\ Target(u)' = Target(u) /\ desired[u] = Target(u)
    BY <1>1, <2>1, SameTarget DEF Ready, Read
  <2>3. tree'[J(u).checkout].file = desired[u]
    BY <1>12, JobFacts DEF Rewrite, TypeOK
  <2>4. Compares(u)'
    BY <1>1, <2>1, SameComparison DEF Ready
  <2>5. QED
    BY <1>1, <2>1, <2>2, <2>3, <2>4 DEF Ready, InPlace, Read, Runs
<1>13. CASE Render(u) \/ Command(u) \/ Applied(u) \/ CommandFails(u)
  <2>1. /\ pc[u] \in {"render", "command", "applied"} /\ Inside(u)
        /\ pc'[u] \in {"command", "applied", "record", "failed"}
        /\ UNCHANGED <<at, recorded, previous, mode, desired, commit, tree>>
    BY <1>13 DEF Render, Command, Applied, CommandFails, Go, Inside, TypeOK, local
  <2>2. J(u)' = J(u) /\ Target(u)' = Target(u) /\ \A c : Image(c)' = Image(c)
    BY <1>1, <2>1, SameTarget
  <2>3. Compares(u)'
    BY <1>1, <2>1, SameComparison DEF Ready
  <2>4. InPlace(u)' /\ Read(u)'
    BY <1>1, <2>1, <2>2 DEF Ready, InPlace, Read
  <2>5. Runs(u)'
    <3>1. CASE Render(u)
      <4>1. /\ rendered'[J(u).file] = Target(u) /\ running' = running /\ pc'[u] \in {"command", "applied"}
            /\ pc'[u] = "applied" => NothingToApply(u)
        BY <2>1, <3>1, JobFacts DEF Render, Go, TypeOK, Ready, Runs
      <4>2. desired[u] = Target(u)
        BY <3>1 DEF Render, Go, Ready, Read
      <4>3. QED
        BY <2>1, <2>2, <4>1, <4>2 DEF Runs, NothingToApply
    <3>2. CASE Command(u)
      <4>1. running'[J(u).workload] = Target(u) /\ pc'[u] = "applied"
        BY <3>2, JobFacts DEF Command, Go, TypeOK, Ready, Runs
      <4>2. mode[u] = "deploy" => Target(u) = commit[u]
        BY DEF Target
      <4>3. QED
        BY <2>1, <2>2, <4>1, <4>2 DEF Runs
    <3>3. CASE Applied(u)
      <4>1. running' = running /\ pc[u] = "applied" /\ pc'[u] = "record"
        BY <3>3 DEF Applied, Go, TypeOK
      <4>2. QED
        BY <2>2, <4>1 DEF Ready, Runs
    <3>4. CASE CommandFails(u)
      <4>1. pc'[u] = "failed"
        BY <3>4 DEF CommandFails, Go, TypeOK
      <4>2. QED
        BY <4>1 DEF Runs
    <3>5. QED
      BY <1>13, <3>1, <3>2, <3>3, <3>4
  <2>6. QED
    BY <2>3, <2>4, <2>5 DEF Ready
<1>14. CASE Failed(u) \/ VerifyFails(u)
  <2>1. /\ pc[u] \in {"failed", "record", "plan"} /\ Inside(u) /\ Deploys(u)
        /\ \/ pc'[u] = "resolve" /\ mode[u] = "deploy" /\ mode'[u] = "rollback"
           \/ pc'[u] = "unlock"
        /\ UNCHANGED <<at, recorded, previous, commit, tree>>
    BY <1>14 DEF Failed, VerifyFails, RollBack, Inside, TypeOK, Ready, InPlace
  <2>2. J(u)' = J(u)
    BY <1>1, <2>1, SameTarget
  <2>3. Compares(u)'
    BY <1>1, <2>1, SameComparison DEF Ready
  <2>4. QED
    BY <1>1, <2>1, <2>2, <2>3 DEF Ready, InPlace, Read, Runs
<1>15. CASE Record(u)
  <2>1. /\ pc[u] = "record" /\ pc'[u] \in {"recheck", "unlock"} /\ Inside(u) /\ Deploys(u)
        /\ pc'[u] = "recheck" => mode[u] = "deploy"
        /\ UNCHANGED <<at, mode>>
    BY <1>15 DEF Record, Go, Inside, TypeOK, Ready, InPlace
  <2>2. J(u)' = J(u)
    BY <1>1, <2>1, SameTarget
  <2>3. Compares(u)'
    <3>1. CASE mode[u] = "deploy"
      <4>0. desired[u] = commit[u] /\ TakesLock(u)
        BY <1>1, <2>1, <3>1 DEF Ready, Read, Target
      <4>1. previous' = [previous EXCEPT ![u][at[u]] =
                           [commit |-> commit[u], services |-> commit[u]]]
        BY <1>15, <3>1, <4>0 DEF Record, Synced
      <4>2. [commit |-> commit[u], services |-> commit[u]] \in Deployment
        BY DEF Deployment, TypeOK
      <4>3. P(u)' = [commit |-> commit[u], services |-> commit[u]]
        BY <2>1, <4>1, <4>2, SetPrevious
      <4>4. \A i \in DOMAIN previous'[u] : previous'[u][i].services \in {0, previous'[u][i].commit}
        BY <4>0, <4>1, <4>2, SetPrevious DEF Ready, Compares
      <4>5. LastHealthy(u)' = commit[u]
        BY <1>15, <2>2, <3>1, JobFacts DEF Record, LastHealthy, TypeOK
      <4>6. QED
        BY <2>1, <4>3, <4>4, <4>5 DEF Compares
    <3>2. CASE mode[u] # "deploy"
      BY <1>1, <1>15, <2>1, <3>2, SameComparison DEF Record, Ready
    <3>3. QED
      BY <3>1, <3>2
  <2>4. QED
    BY <1>1, <2>1, <2>3 DEF Ready, InPlace, Read, Runs
<1>16. QED
  BY <1>2, <1>3, <1>4, <1>5, <1>6, <1>7, <1>8, <1>9, <1>10, <1>11, <1>12, <1>13, <1>14, <1>15
     DEF Step, Reads, Works
-----------------------------------------------------------------------------
(* The inductive invariant. *)

LEMMA InitReady == Init => \A u \in Unit : Ready(u)
<1> SUFFICES ASSUME Init, NEW u \in Unit PROVE Ready(u)
  OBVIOUS
<1>1. pc[u] = "rest" /\ mode[u] = "deploy"
  BY DEF Init
<1>2. \A i \in DOMAIN previous[u] : previous[u][i].services = 0
  BY DEF Init, Nothing
<1>3. QED
  BY <1>1, <1>2 DEF Ready, InPlace, Read, Compares, Runs, Inside, OfDeployment, Attempt

\* The processes and the branch move without a unit.
LEMMA EnvironmentKeeps ==
  ASSUME IInv, (\E a \in Agents : Start(a) \/ Crash(a)) \/ Push
  PROVE  Locked' /\ \A u \in Unit : Ready(u)'
<1>0. fleet' = fleet /\ images' = images
  BY StepHost DEF Next
<1>1. /\ \A u : TakesLock(u)' = TakesLock(u)
      /\ Unit' = Unit
  BY <1>0, SameHost
<1>2. ASSUME NEW a \in Agents, Start(a) PROVE Locked' /\ \A u \in Unit : Ready(u)'
  <2>1. UNCHANGED <<holder, at, commit, root, desired, previous, mode, tree, rendered, running,
                    recorded>>
    BY <1>2 DEF Start, local
  <2>2. \A u \in Unit : pc'[u] = pc[u] \/ (pc[u] = "rest" /\ pc'[u] = "lock")
    BY <1>2 DEF Start, IInv, TypeOK
  <2>3. \A u \in Unit : J(u)' = J(u)
    BY <1>0, <2>1 DEF J
  <2>4. Locked'
    BY <1>1, <2>1, <2>2, <2>3 DEF Locked, Inside, IInv
  <2>5. ASSUME NEW u \in Unit PROVE Ready(u)'
    <3>1. CASE pc'[u] = pc[u]
      BY <1>0, <2>1, <3>1, SameReady DEF IInv
    <3>2. CASE pc[u] = "rest" /\ pc'[u] = "lock"
      <4>1. mode[u] = "deploy"
        BY <3>2 DEF IInv, Ready, InPlace, Forward
      <4>2. QED
        BY <1>0, <2>1, <3>2, <4>1, OutsideReady DEF IInv
    <3>3. QED
      BY <2>2, <3>1, <3>2
  <2>6. QED
    BY <2>4, <2>5
<1>3. ASSUME NEW a \in Agents, Crash(a) PROVE Locked' /\ \A u \in Unit : Ready(u)'
  <2>0. UNCHANGED <<tree, rendered, running, recorded>>
    BY <1>3 DEF Crash
  <2>1. ASSUME NEW u \in Unit, u \in Of(a)
        PROVE  /\ pc'[u] = "rest" /\ mode'[u] = "deploy"
               /\ previous'[u] = [i \in DOMAIN fleet[u].jobs |-> Nothing]
    BY <1>3, <2>1 DEF Crash, Forget
  <2>2. ASSUME NEW u \in Unit, u \notin Of(a)
        PROVE  /\ pc'[u] = pc[u] /\ at'[u] = at[u] /\ commit'[u] = commit[u]
               /\ root'[u] = root[u] /\ desired'[u] = desired[u]
               /\ previous'[u] = previous[u] /\ mode'[u] = mode[u] /\ J(u)' = J(u)
    BY <1>0, <1>3, <2>2 DEF Crash, Forget, J
  <2>3. Locked'
    <3>1. ASSUME NEW u \in Unit, TakesLock(u), Inside(u)' PROVE holder'[J(u)'.lock] = u
      <4>1. u \notin Of(a) /\ Inside(u)
        BY <2>1, <2>2, <3>1 DEF Inside
      <4>2. holder[J(u).lock] = u /\ J(u).lock \in DOMAIN holder
        BY <3>1, <4>1, JobFacts DEF IInv, Locked
      <4>3. QED
        BY <1>3, <2>2, <4>1, <4>2 DEF Crash
    <3>2. QED
      BY <1>1, <3>1 DEF Locked
  <2>4. ASSUME NEW u \in Unit PROVE Ready(u)'
    <3>1. CASE u \in Of(a)
      BY <1>0, <2>1, <3>1, OutsideReady DEF IInv
    <3>2. CASE u \notin Of(a)
      BY <1>0, <2>0, <2>2, <3>2, SameReady DEF IInv
    <3>3. QED
      BY <3>1, <3>2
  <2>5. QED
    BY <2>3, <2>4
<1>4. CASE Push
  <2>1. UNCHANGED <<holder, pc, at, commit, root, desired, previous, mode, tree, rendered, running,
                    recorded>>
    BY <1>4 DEF Push, local
  <2>2. Locked'
    BY <1>0, <1>1, <2>1 DEF Locked, Inside, J, IInv
  <2>3. \A u \in Unit : Ready(u)'
    BY <1>0, <2>1, SameReady DEF IInv
  <2>4. QED
    BY <2>2, <2>3
<1>5. QED
  BY <1>2, <1>3, <1>4

LEMMA Induction ==
  ASSUME Isolation, IInv, [Next]_vars
  PROVE  IInv'
<1>1. CASE UNCHANGED vars
  <2>1. /\ UNCHANGED <<fleet, images, holder, pc, at, commit, root, desired, previous, mode, tree,
                       rendered, running, recorded>>
        /\ Unit' = Unit
    BY <1>1 DEF vars, host, Unit
  <2>2. TypeOK'
    BY <1>1, SameTyped DEF IInv
  <2>3. Locked'
    BY <2>1 DEF IInv, Locked, Inside, TakesLock, J
  <2>4. \A u \in Unit : Ready(u)'
    BY <2>1, SameReady DEF IInv
  <2>5. QED
    BY <2>1, <2>2, <2>3, <2>4 DEF IInv
<1>2. CASE Next
  <2>1. TypeOK'
    BY <1>2, StepTyped DEF IInv
  <2>2. ASSUME NEW u \in Unit, Step(u) PROVE Locked' /\ \A v \in Unit : Ready(v)'
    <3>1. Locked'
      BY <2>2, StepLocked DEF IInv
    <3>2. ASSUME NEW v \in Unit PROVE Ready(v)'
      BY <2>2, OwnReady, OthersReady DEF IInv
    <3>3. QED
      BY <3>1, <3>2
  <2>3. Locked' /\ \A v \in Unit : Ready(v)'
    BY <1>2, <2>2, EnvironmentKeeps DEF Next
  <2>4. Unit' = Unit
    BY <1>2, StepHost, SameHost
  <2>5. QED
    BY <2>1, <2>3, <2>4 DEF IInv
<1>3. QED
  BY <1>1, <1>2

LEMMA FleetInvariance ==
  ASSUME Isolation
  PROVE  Spec => []IInv
<1>1. Init => IInv
  BY InitTyped, InitLocked, InitReady DEF IInv
<1>2. IInv /\ [Next]_vars => IInv'
  BY Induction
<1>3. QED
  BY <1>1, <1>2, PTL DEF Spec
-----------------------------------------------------------------------------
(* The safety properties of the runs. *)

\* A deployment that is over runs the commit it fetched, configuration and all,
\* and no receipt is written of a commit whose image does not run, whatever
\* other units do to their own checkouts, files and projects meanwhile.
THEOREM FleetRecords ==
  ASSUME Isolation
  PROVE  Spec => []RecordsWhatRuns
<1>1. IInv => RecordsWhatRuns
  BY DEF IInv, Ready, Runs, Target, RecordsWhatRuns
<1>2. QED
  BY <1>1, FleetInvariance, PTL

\* What a cycle plans, and what plan, diff and status print, is of the commit
\* they name, and a plan compares it with the definitions of the deployment it
\* takes for the previous one, the last that the journal calls healthy.
THEOREM FleetPlans ==
  ASSUME Isolation
  PROVE  Spec => []PlannedAsNamed
<1>1. IInv => PlannedAsNamed
  BY DEF IInv, Ready, InPlace, Read, Compares, Target, Forward, PlannedAsNamed
<1>2. QED
  BY <1>1, FleetInvariance, PTL

\* No two units ever deploy one Compose project at once.
THEOREM FleetOneDeployer ==
  ASSUME Isolation
  PROVE  Spec => []OneDeployer
<1>1. IInv => OneDeployer
  <2> SUFFICES ASSUME IInv,
                      NEW u \in Unit, NEW v \in Unit, Deploys(u), Deploys(v),
                      pc[u] \in Deploying, pc[v] \in Deploying,
                      J(u).workload = J(v).workload, u # v
               PROVE  FALSE
    BY DEF OneDeployer
  <2>1. Inside(u) /\ Inside(v)
    BY DEF Inside, Deploying
  <2>2. TakesLock(u) /\ TakesLock(v)
    BY DEF Deploys, TakesLock
  <2>3. QED
    BY <2>1, <2>2, Alone DEF IInv
<1>2. QED
  BY <1>1, FleetInvariance, PTL
-----------------------------------------------------------------------------
(* Going back to an older commit. *)

\* Nothing on the host is ahead of the branch, and what runs is not ahead of
\* the commit a deployment under way has fetched: only that deployment could
\* have changed it since.
Behind ==
  /\ \A c \in DOMAIN tree : tree[c].file <= remote
  /\ \A f \in DOMAIN rendered : rendered[f] <= remote
  /\ \A w \in DOMAIN running : running[w] <= remote
  /\ \A k \in DOMAIN recorded : recorded[k] <= remote
  /\ \A u \in Unit : /\ commit[u] <= remote /\ desired[u] <= remote
                     /\ \A i \in DOMAIN previous[u] : previous[u][i].commit <= remote

Fetched == {"open", "load", "baseline", "plan", "render", "command"}

Ahead(u) ==
  Deploys(u) /\ mode[u] = "deploy" /\ pc[u] \in Fetched => running[J(u).workload] <= commit[u]

BInv == IInv /\ Behind /\ \A u \in Unit : Ahead(u)

LEMMA InitBehind == Init => Behind /\ \A u \in Unit : Ahead(u)
BY DEF Init, Behind, Ahead, Fetched, Nothing

\* What a unit or a process forgets.
LEMMA ForgetBehind ==
  ASSUME TypeOK, Behind, NEW us, NEW kept, Forget(us, kept)
  PROVE  \A v \in Unit : /\ commit'[v] <= remote /\ desired'[v] <= remote
                         /\ \A i \in DOMAIN previous'[v] : previous'[v][i].commit <= remote
<1>1. 0 <= remote
  BY DEF TypeOK
<1>2. ASSUME NEW v \in Unit
      PROVE  /\ commit'[v] \in {0, commit[v]} /\ desired'[v] \in {0, desired[v]}
             /\ previous'[v] \in {previous[v], [i \in DOMAIN fleet[v].jobs |-> Nothing]}
  BY DEF Forget
<1>3. QED
  BY <1>1, <1>2 DEF Behind, Nothing

\* A step that compares a unit's target with a deployment of a pushed commit.
LEMMA PreviousBehind ==
  ASSUME TypeOK, Behind, NEW u \in Unit, NEW d \in Deployment, d.commit <= remote,
         previous' = [previous EXCEPT ![u][at[u]] = d]
  PROVE  \A v \in Unit : \A i \in DOMAIN previous'[v] : previous'[v][i].commit <= remote
<1>1. \A v \in Unit \ {u} : previous'[v] = previous[v]
  BY SetPrevious
<1>2. \A i \in DOMAIN previous'[u] : previous'[u][i].commit <= remote
  BY SetPrevious DEF Behind
<1>3. QED
  BY <1>1, <1>2 DEF Behind

LEMMA StepBehind ==
  ASSUME TypeOK, Behind, NEW u \in Unit, Step(u)
  PROVE  Behind'
<1>0. fleet' = fleet
  BY StepHost DEF Next
<1>1. Unit' = Unit
  BY <1>0, SameHost
<1>2. /\ J(u).checkout \in DOMAIN tree /\ J(u).file \in DOMAIN rendered
      /\ J(u).workload \in DOMAIN running /\ J(u).journal \in DOMAIN recorded
      /\ remote \in Nat /\ 0 <= remote
  BY JobFacts DEF TypeOK
<1>3. LastHealthy(u) <= remote /\ P(u).commit <= remote /\ commit[u] <= remote /\ desired[u] <= remote
  BY <1>2, PreviousFacts DEF LastHealthy, P, Behind
<1>4. \A c : c <= remote => DeclaredAt(u, c) <= remote
  BY <1>2 DEF DeclaredAt, Behind
<1> DEFINE Kept == \A v \in Unit : \A i \in DOMAIN previous'[v] : previous'[v][i].commit <= remote
<1>5. CASE SourceFails(u) \/ Open(u) \/ VerifyFails(u)
  BY <1>0, <1>1, <1>5 DEF SourceFails, Open, VerifyFails, Behind, local
<1>6. CASE Lock(u)
  <2>1. CASE previous' = previous
    BY <1>0, <1>1, <1>6, <2>1 DEF Lock, Behind
  <2>2. CASE previous' = [previous EXCEPT ![u][at[u]] = [commit |-> LastHealthy(u), services |-> 0]]
    <3>1. [commit |-> LastHealthy(u), services |-> 0] \in Deployment
      BY JobFacts DEF LastHealthy, Deployment, TypeOK
    <3>2. Kept
      BY <1>3, <2>2, <3>1, PreviousBehind
    <3>3. QED
      BY <1>0, <1>1, <1>6, <3>2 DEF Lock, Behind
  <2>3. QED
    BY <1>6, <2>1, <2>2 DEF Lock
<1>7. CASE Unlock(u) \/ GiveUp(u)
  <2>1. \E kept : Forget({u}, kept)
    BY <1>7 DEF Unlock, GiveUp
  <2>2. QED
    BY <1>0, <1>1, <1>7, <2>1, ForgetBehind DEF Unlock, GiveUp, Behind
<1>8. CASE Fetch(u) \/ Recheck(u) \/ Restore(u) \/ Rewrite(u)
  <2>1. \A c \in DOMAIN tree' : tree'[c].file <= remote
    <3>1. ASSUME NEW c, c <= remote, CheckedOut(u, c)
          PROVE  \A k \in DOMAIN tree' : tree'[k].file <= remote
      BY <1>2, <3>1 DEF CheckedOut, TypeOK, Behind
    <3>2. CASE Rewrite(u)
      BY <1>2, <1>3, <3>2 DEF Rewrite, TypeOK, Behind
    <3>3. remote <= remote
      BY <1>2
    <3>4. QED
      BY <1>3, <1>8, <3>1, <3>2, <3>3 DEF Fetch, Recheck, Restore
  <2>2. \A v \in Unit : commit'[v] <= remote
    <3>1. commit' = commit \/ commit' = [commit EXCEPT ![u] = remote]
      BY <1>8 DEF Fetch, Recheck, Restore, Rewrite, local
    <3>2. commit \in [Unit -> Nat] /\ remote <= remote /\ \A v \in Unit : commit[v] <= remote
      BY <1>2 DEF TypeOK, Behind
    <3>3. QED
      BY <3>1, <3>2
  <2>3. UNCHANGED <<remote, desired, previous, rendered, running, recorded>>
    BY <1>8 DEF Fetch, Recheck, Restore, Rewrite, local
  <2>4. QED
    BY <1>0, <1>1, <2>1, <2>2, <2>3 DEF Behind
<1>9. CASE Load(u) \/ Resolve(u)
  <2>1. \A v \in Unit : desired'[v] <= remote
    <3>1. DeclaredAt(u, P(u).commit) <= remote /\ tree[J(u).checkout].file <= remote
      BY <1>2, <1>3, <1>4 DEF Behind
    <3>2. PICK c : c <= remote /\ desired' = [desired EXCEPT ![u] = c]
      BY <1>3, <1>9, <3>1 DEF Load, Resolve
    <3>3. QED
      BY <3>2 DEF TypeOK, Behind
  <2>2. QED
    BY <1>0, <1>1, <1>9, <2>1 DEF Load, Resolve, Behind
<1>10. CASE Hydrate(u) \/ Compare(u) \/ Collect(u)
  <2>1. UNCHANGED <<remote, tree, rendered, running, recorded, commit, desired>>
    BY <1>10 DEF Hydrate, Compare, Collect
  <2>2. \/ previous' = previous
        \/ \E s \in Nat : \E c \in {P(u).commit, LastHealthy(u)} :
             previous' = [previous EXCEPT ![u][at[u]] = [commit |-> c, services |-> s]]
    <3>1. DeclaredAt(u, P(u).commit) \in Nat /\ DeclaredAt(u, LastHealthy(u)) \in Nat /\ desired[u] \in Nat
      BY JobFacts, PreviousFacts DEF DeclaredAt, LastHealthy, TypeOK
    <3>2. CASE Hydrate(u)
      <4>1. PICK s \in Nat : previous' = previous \/ previous' = [previous EXCEPT ![u][at[u]].services = s]
        BY <3>1, <3>2 DEF Hydrate
      <4>2. [previous EXCEPT ![u][at[u]].services = s] =
              [previous EXCEPT ![u][at[u]] = [P(u) EXCEPT !.services = s]]
        BY DEF P
      <4>3. [P(u) EXCEPT !.services = s] = [commit |-> P(u).commit, services |-> s]
        BY PreviousFacts DEF Deployment
      <4>4. QED
        BY <4>1, <4>2, <4>3
    <3>3. CASE Compare(u)
      BY <3>1, <3>3 DEF Compare
    <3>4. CASE Collect(u)
      <4>1. previous' = [previous EXCEPT ![u][at[u]] = [P(u) EXCEPT !.commit = LastHealthy(u)]]
        BY <3>4 DEF Collect, P
      <4>2. [P(u) EXCEPT !.commit = LastHealthy(u)] =
              [commit |-> LastHealthy(u), services |-> P(u).services]
        BY PreviousFacts DEF Deployment
      <4>3. QED
        BY <4>1, <4>2, PreviousFacts
    <3>5. QED
      BY <1>10, <3>2, <3>3, <3>4
  <2>3. CASE previous' = previous
    BY <1>0, <1>1, <2>1, <2>3 DEF Behind
  <2>4. ASSUME NEW s \in Nat, NEW c \in {P(u).commit, LastHealthy(u)},
               previous' = [previous EXCEPT ![u][at[u]] = [commit |-> c, services |-> s]]
        PROVE  Behind'
    <3>1. [commit |-> c, services |-> s] \in Deployment /\ c <= remote
      BY <1>3, JobFacts, PreviousFacts DEF LastHealthy, Deployment, TypeOK
    <3>2. Kept
      BY <2>4, <3>1, PreviousBehind
    <3>3. QED
      BY <1>0, <1>1, <2>1, <3>2 DEF Behind
  <2>5. QED
    BY <2>2, <2>3, <2>4
<1>11. ASSUME Synced(u) PROVE Kept
  <2>1. [commit |-> commit[u], services |-> desired[u]] \in Deployment
    BY DEF Deployment, TypeOK
  <2>2. QED
    BY <1>3, <1>11, <2>1, PreviousBehind DEF Synced
<1>12. UNCHANGED previous => Kept
  BY DEF Behind
<1>13. CASE Plan(u)
  <2>1. Kept
    BY <1>11, <1>12, <1>13 DEF Plan
  <2>2. QED
    BY <1>0, <1>1, <1>13, <2>1 DEF Plan, Behind
<1>14. CASE Render(u) \/ Applied(u) \/ Failed(u)
  <2>1. \A f \in DOMAIN rendered' : rendered'[f] <= remote
    BY <1>2, <1>14 DEF Render, Applied, Failed, Removed, TypeOK, Behind
  <2>2. QED
    BY <1>0, <1>1, <1>14, <2>1 DEF Render, Applied, Failed, Behind, local
<1>15. CASE Command(u) \/ CommandFails(u)
  <2>1. \A w \in DOMAIN running' : running'[w] <= remote
    BY <1>2, <1>15 DEF Command, CommandFails, TypeOK, Behind
  <2>2. QED
    BY <1>0, <1>1, <1>15, <2>1 DEF Command, CommandFails, Behind, local
<1>16. CASE Record(u)
  <2>1. \A k \in DOMAIN recorded' : recorded'[k] <= remote
    BY <1>2, <1>16 DEF Record, TypeOK, Behind
  <2>2. Kept
    BY <1>11, <1>12, <1>16 DEF Record
  <2>3. QED
    BY <1>0, <1>1, <1>16, <2>1, <2>2 DEF Record, Behind
<1>17. QED
  BY <1>5, <1>6, <1>7, <1>8, <1>9, <1>10, <1>13, <1>14, <1>15, <1>16 DEF Step, Reads, Works

LEMMA OwnAhead ==
  ASSUME TypeOK, Behind, NEW u \in Unit, Ready(u), Ahead(u), Step(u)
  PROVE  Ahead(u)'
<1> USE DEF Fetched, Forward, OfDeployment
<1>1. fleet' = fleet /\ Deploys(u)' = Deploys(u)
  BY StepShared, SameHost
<1>2. CASE Fetch(u)
  <2>1. J(u)' = J(u) /\ running' = running /\ commit'[u] = remote
    BY <1>1, <1>2 DEF Fetch, J, TypeOK
  <2>2. running[J(u).workload] <= remote
    BY JobFacts DEF Behind
  <2>3. QED
    BY <2>1, <2>2 DEF Ahead
<1>3. CASE Open(u) \/ Load(u) \/ Hydrate(u) \/ Compare(u) \/ Collect(u) \/ Plan(u) \/ Render(u)
  <2>1. /\ J(u)' = J(u) /\ running' = running /\ commit' = commit /\ mode' = mode
        /\ pc[u] \in Fetched
    BY <1>1, <1>3 DEF Open, Load, Hydrate, Compare, Collect, Plan, Render, Go, J, local
  <2>2. QED
    BY <1>1, <2>1 DEF Ahead
<1>4. CASE Rewrite(u)
  <2>1. mode'[u] = "rollback"
    BY <1>4 DEF Rewrite, Go, Ready, InPlace, local
  <2>2. QED
    BY <2>1 DEF Ahead
<1>5. CASE Lock(u) \/ Unlock(u) \/ GiveUp(u) \/ SourceFails(u) \/ Recheck(u) \/ Resolve(u)
           \/ Restore(u) \/ VerifyFails(u) \/ Command(u) \/ CommandFails(u) \/ Applied(u) \/ Failed(u) \/ Record(u)
  <2>1. pc'[u] \notin Fetched
    BY <1>5 DEF Lock, Unlock, GiveUp, SourceFails, Recheck, Resolve, Restore, VerifyFails, Command,
         CommandFails, Applied, Failed, RollBack, Record, Go, TypeOK
  <2>2. QED
    BY <2>1 DEF Ahead
<1>6. QED
  BY <1>2, <1>3, <1>4, <1>5 DEF Step, Reads, Works

LEMMA OthersAhead ==
  ASSUME Isolation, TypeOK, Locked, NEW u \in Unit, Ready(u), Step(u),
         NEW v \in Unit, v # u, Ahead(v)
  PROVE  Ahead(v)'
<1>1. pc'[v] = pc[v] /\ commit'[v] = commit[v] /\ mode'[v] = mode[v]
  BY StepLocal
<1>2. Deploys(v)' = Deploys(v) /\ (Deploys(v) => TakesLock(v))
  BY StepShared, SameHost DEF Deploys, TakesLock
<1>3. CASE pc[v] \notin Fetched
  BY <1>1, <1>3 DEF Ahead
<1>4. CASE pc[v] \in Fetched
  <2>1. Inside(v)
    BY <1>4 DEF Fetched, Inside
  <2>2. QED
    BY <1>1, <1>2, <2>1, Undisturbed DEF Ahead
<1>5. QED
  BY <1>3, <1>4

LEMMA EnvironmentBehind ==
  ASSUME BInv, (\E a \in Agents : Start(a) \/ Crash(a)) \/ Push
  PROVE  Behind' /\ \A u \in Unit : Ahead(u)'
<1>0. fleet' = fleet /\ running' = running
  BY StepHost DEF Next, Start, Crash, Push
<1>1. Unit' = Unit /\ \A u : Deploys(u)' = Deploys(u)
  BY <1>0, SameHost
<1>2. remote \in Nat
  BY DEF BInv, IInv, TypeOK
<1>3. ASSUME NEW a \in Agents, Start(a) PROVE Behind' /\ \A u \in Unit : Ahead(u)'
  <2>1. \A u \in Unit : J(u)' = J(u)
    BY <1>0, <1>3 DEF Start, J
  <2>2. \A u \in Unit : pc'[u] \in Fetched => pc[u] \in Fetched
    BY <1>3 DEF Start, Fetched, BInv, IInv, TypeOK
  <2>3. QED
    BY <1>1, <1>3, <2>1, <2>2 DEF Start, Behind, Ahead, BInv, local
<1>4. ASSUME NEW a \in Agents, Crash(a) PROVE Behind' /\ \A u \in Unit : Ahead(u)'
  <2>1. Behind'
    <3>1. Forget(Of(a), {}) /\ UNCHANGED <<remote, tree, rendered, running, recorded>>
      BY <1>4 DEF Crash
    <3>2. QED
      BY <1>1, <3>1, ForgetBehind DEF Behind, BInv, IInv
  <2>2. ASSUME NEW u \in Unit PROVE Ahead(u)'
    <3>1. CASE u \in Of(a)
      BY <1>4, <3>1 DEF Crash, Ahead, Fetched
    <3>2. CASE u \notin Of(a)
      <4>1. pc'[u] = pc[u] /\ at'[u] = at[u] /\ commit'[u] = commit[u] /\ mode'[u] = mode[u]
        BY <1>4, <3>2 DEF Crash, Forget
      <4>2. QED
        BY <1>0, <1>1, <4>1 DEF J, Ahead, BInv
    <3>3. QED
      BY <3>1, <3>2
  <2>3. QED
    BY <2>1, <2>2
<1>5. CASE Push
  <2>1. \A u \in Unit : J(u)' = J(u)
    BY <1>0, <1>5 DEF Push, J
  <2>2. UNCHANGED <<tree, rendered, recorded, pc, commit, desired, previous, mode>> /\ remote' = remote + 1
    BY <1>5 DEF Push, local
  <2>3. Behind'
    <3>1. \A n \in Nat : n <= remote => n <= remote + 1
      BY <1>2
    <3>2. \A u \in Unit : \A i \in DOMAIN previous[u] : previous[u][i].commit \in Nat
      BY DEF BInv, IInv, TypeOK, PreviousOK, Deployment
    <3>3. \A u \in Unit : \A i \in DOMAIN previous[u] : previous[u][i].commit <= remote + 1
      BY <3>1, <3>2 DEF Behind, BInv
    <3>4. QED
      BY <1>0, <1>1, <2>2, <3>1, <3>3 DEF Behind, BInv, IInv, TypeOK
  <2>4. QED
    BY <1>0, <1>1, <2>1, <2>2, <2>3 DEF Ahead, BInv
<1>6. QED
  BY <1>3, <1>4, <1>5

\* A step that takes a Compose project back is a step of a rollback.
LEMMA BackIsRollback ==
  ASSUME BInv, Next, NEW w \in DOMAIN running, running'[w] < running[w]
  PROVE  \E u \in Unit : J(u).workload = w /\ mode[u] = "rollback"
<1>1. running[w] \in Nat
  BY DEF BInv, IInv, TypeOK
<1>2. PICK u \in Unit : Command(u) \/ CommandFails(u)
  <2>1. running' # running
    BY <1>1
  <2>2. ASSUME NEW u \in Unit, Step(u), ~(Command(u) \/ CommandFails(u))
        PROVE  running' = running
    <3>1. CASE Reads(u)
      BY <3>1 DEF Reads, Fetch, Recheck, Open, Load, Resolve, Restore, Hydrate, Compare, Collect
    <3>2. CASE Works(u)
      BY <2>2, <3>2 DEF Works, Plan, Rewrite, Render, Applied, Failed, Record
    <3>3. CASE Lock(u) \/ Unlock(u) \/ SourceFails(u) \/ GiveUp(u) \/ VerifyFails(u)
      BY <3>3 DEF Lock, Unlock, SourceFails, GiveUp, VerifyFails
    <3>4. QED
      BY <2>2, <3>1, <3>2, <3>3 DEF Step
  <2>3. ASSUME NEW a \in Agents, Start(a) \/ Crash(a) PROVE running' = running
    BY <2>3 DEF Start, Crash
  <2>4. Push => running' = running
    BY DEF Push
  <2>5. \E u \in Unit : Step(u)
    BY <2>1, <2>3, <2>4 DEF Next
  <2>6. QED
    BY <2>1, <2>2, <2>5
<1>3. pc[u] = "command" /\ TypeOK /\ Ready(u) /\ Ahead(u)
  BY <1>2 DEF Command, CommandFails, Go, BInv, IInv
<1>4. w = J(u).workload /\ running'[w] \in {running[w], rendered[J(u).file]}
  BY <1>1, <1>2, <1>3, JobFacts DEF Command, CommandFails, TypeOK
<1>5. rendered[J(u).file] = Target(u) /\ Deploys(u)
  BY <1>3 DEF Ready, InPlace, Runs, OfDeployment
<1>6. mode[u] # "deploy"
  <2>1. SUFFICES ASSUME mode[u] = "deploy" PROVE FALSE
    OBVIOUS
  <2>2. running[w] <= commit[u] /\ running'[w] \in {running[w], commit[u]}
    BY <1>3, <1>4, <1>5, <2>1 DEF Ahead, Fetched, Target
  <2>3. commit[u] \in Nat
    BY <1>3 DEF TypeOK
  <2>4. QED
    BY <1>1, <2>2, <2>3
<1>7. QED
  BY <1>3, <1>4, <1>6 DEF TypeOK

\* A unit that planned an old commit never overwrites what was deployed since.
THEOREM FleetGoesBack ==
  ASSUME Isolation
  PROVE  Spec => OnlyRollbackGoesBack
<1>1. Init => BInv
  BY InitTyped, InitLocked, InitReady, InitBehind DEF IInv, BInv
<1>2. BInv /\ [Next]_vars => BInv'
  <2>1. SUFFICES ASSUME BInv, [Next]_vars PROVE BInv'
    OBVIOUS
  <2>2. IInv'
    BY <2>1, Induction DEF BInv
  <2>3. CASE UNCHANGED vars
    <3>1. Unit' = Unit /\ \A u : J(u)' = J(u) /\ Deploys(u)' = Deploys(u)
      BY <2>3 DEF vars, host, Unit, J, Deploys
    <3>2. QED
      BY <2>1, <2>2, <2>3, <3>1 DEF vars, BInv, Behind, Ahead
  <2>4. ASSUME NEW u \in Unit, Step(u) PROVE Behind' /\ \A v \in Unit : Ahead(v)'
    <3>1. Behind'
      BY <2>1, <2>4, StepBehind DEF BInv, IInv
    <3>2. ASSUME NEW v \in Unit PROVE Ahead(v)'
      BY <2>1, <2>4, OwnAhead, OthersAhead DEF BInv, IInv
    <3>3. QED
      BY <3>1, <3>2
  <2>5. CASE Next
    <3>1. Behind' /\ \A v \in Unit : Ahead(v)'
      BY <2>1, <2>4, <2>5, EnvironmentBehind DEF Next
    <3>2. Unit' = Unit
      BY <2>5, StepHost, SameHost
    <3>3. QED
      BY <2>2, <3>1, <3>2 DEF BInv
  <2>6. QED
    BY <2>1, <2>3, <2>5
<1>3. BInv /\ [Next]_vars =>
        [\A w \in DOMAIN running : running'[w] < running[w] =>
           \E u \in Unit : J(u).workload = w /\ mode[u] = "rollback"]_vars
  BY BackIsRollback
<1>4. QED
  BY <1>1, <1>2, <1>3, PTL DEF Spec, OnlyRollbackGoesBack
-----------------------------------------------------------------------------
(****************************************************************************)
(* The cycle goes forward, and waits for no lock that is not going to be    *)
(* freed: the safety half of "a cycle ends".  Neither needs Isolation.      *)
(****************************************************************************)

\* A lock is held by a unit in a cycle of a job that takes it.
InCycleOf(u, l) == Inside(u) /\ TakesLock(u) /\ J(u).lock = l
HeldInCycle == \A l \in DOMAIN holder : holder[l] # 0 => InCycleOf(holder[l], l)

\* Where a deployment is rendered, it may be the second one of the cycle.
InOrder(u) ==
  (pc[u] \in {"resolve", "restore", "rewrite"} => mode[u] = "rollback") /\ commit[u] <= remote

FInv == TypeOK /\ HeldInCycle /\ \A u \in Unit : InOrder(u)

LEMMA InitInCycle == Init => FInv
BY InitTyped DEF Init, FInv, HeldInCycle, InOrder

\* Only the commands that take and leave a lock change who holds one.
LEMMA StepInCycle ==
  ASSUME TypeOK, HeldInCycle, NEW u \in Unit, Step(u)
  PROVE  HeldInCycle'
<1>0. fleet' = fleet
  BY StepHost DEF Next
<1>1. Unit' = Unit /\ (\A v : TakesLock(v)' = TakesLock(v)) /\ 0 \notin Unit
  BY <1>0, SameHost, FleetFacts DEF TypeOK
<1> USE <1>0, <1>1
<1> DEFINE Still(v, l) ==
             pc'[v] \notin {"rest", "lock"} /\ TakesLock(v) /\ fleet[v].jobs[at'[v]].lock = l
<1>2. /\ \A v \in Unit \ {u} : \A l : InCycleOf(v, l) => Still(v, l)
      /\ \A l \in DOMAIN holder : holder[l] # 0 => holder[l] \in Unit
  <2>1. \A v \in Unit \ {u} : pc'[v] = pc[v] /\ at'[v] = at[v]
    BY StepLocal
  <2> QED BY <2>1 DEF InCycleOf, Inside, J, TypeOK
<1>3. ASSUME DOMAIN holder' = DOMAIN holder,
             \A l \in DOMAIN holder :
               holder'[l] = holder[l] \/ holder'[l] = 0 \/ (holder'[l] = u /\ Still(u, l)),
             \A l \in DOMAIN holder : holder[l] = u => holder'[l] = 0 \/ Still(u, l)
      PROVE  HeldInCycle'
  <2> HIDE DEF Still
  <2>1. ASSUME NEW l \in DOMAIN holder, holder'[l] # 0 PROVE Still(holder'[l], l)
    <3>1. CASE holder'[l] = u
      BY <1>3, <2>1, <3>1
    <3>2. CASE holder'[l] # u
      BY <1>2, <1>3, <2>1, <3>2 DEF HeldInCycle
    <3> QED BY <3>1, <3>2
  <2> QED BY <1>3, <2>1 DEF HeldInCycle, InCycleOf, Inside, J, Still
<1>4. CASE Lock(u)
  <2>1. pc'[u] = "fetch" /\ at'[u] = at[u] /\ ~Inside(u)
    BY <1>4 DEF Lock, Go, TypeOK, Inside
  <2>2. holder' = IF TakesLock(u) THEN [holder EXCEPT ![J(u).lock] = u] ELSE holder
    BY <1>4 DEF Lock
  <2>3. TakesLock(u) => Still(u, J(u).lock)
    BY <2>1 DEF J
  <2>4. \A l \in DOMAIN holder : holder[l] # u
    BY <1>1, <2>1 DEF HeldInCycle, InCycleOf
  <2> HIDE DEF Still
  <2> QED BY <1>3, <2>2, <2>3, <2>4, JobFacts
<1>5. CASE Unlock(u) \/ GiveUp(u)
  <2>1. holder' = IF holder[J(u).lock] = u THEN [holder EXCEPT ![J(u).lock] = 0] ELSE holder
    BY <1>5 DEF Unlock, GiveUp, Released
  <2>2. \A l \in DOMAIN holder : holder[l] = u => l = J(u).lock
    BY <1>1 DEF HeldInCycle, InCycleOf
  <2> QED BY <1>3, <2>1, <2>2, JobFacts
<1>6. CASE Reads(u) \/ Works(u) \/ SourceFails(u) \/ CommandFails(u) \/ VerifyFails(u)
  <2>1. holder' = holder /\ at' = at /\ Inside(u)'
    <3>1. CASE Reads(u)
      BY <3>1 DEF Inside, Reads, Fetch, Recheck, Open, Load, Resolve, Restore, Hydrate, Compare,
           Collect, Go, TypeOK
    <3>2. CASE Works(u)
      BY <3>2 DEF Inside, Works, Plan, Rewrite, Render, Command, Applied, Failed, RollBack,
           Record, Go, TypeOK
    <3>3. CASE SourceFails(u) \/ CommandFails(u) \/ VerifyFails(u)
      BY <3>3 DEF Inside, SourceFails, CommandFails, VerifyFails, RollBack, Go, TypeOK
    <3> QED BY <1>6, <3>1, <3>2, <3>3
  <2>3. \A l : InCycleOf(u, l) => Still(u, l)
    BY <2>1 DEF InCycleOf, Inside, J
  <2>4. \A l \in DOMAIN holder : holder[l] = u => InCycleOf(u, l)
    BY <1>1 DEF HeldInCycle
  <2> QED BY <1>3, <2>1, <2>3, <2>4
<1> QED BY <1>4, <1>5, <1>6 DEF Step

LEMMA StepInOrder ==
  ASSUME TypeOK, NEW u \in Unit, Step(u), InOrder(u)
  PROVE  InOrder(u)' /\ remote' = remote
<1>0. remote \in Nat
  BY DEF TypeOK
<1>1. CASE Lock(u)
  BY <1>1 DEF Lock, Go, InOrder, TypeOK
<1>2. CASE Unlock(u) \/ GiveUp(u)
  <2>1. \E kept : Forget({u}, kept)
    BY <1>2 DEF Unlock, GiveUp
  <2>2. commit'[u] = 0 /\ pc'[u] \in {"rest", "lock"} /\ remote' = remote
    BY <1>2, <2>1 DEF Unlock, GiveUp, Go, Forget, TypeOK
  <2> QED BY <1>0, <2>2 DEF InOrder
<1>3. CASE Reads(u)
  <2>1. remote' = remote /\ commit'[u] \in {commit[u], remote}
    BY <1>3 DEF Reads, Fetch, Recheck, Open, Load, Resolve, Restore, Hydrate, Compare, Collect,
       local, TypeOK
  <2>2. /\ mode' = mode /\ pc'[u] # "resolve"
        /\ pc'[u] \in {"restore", "rewrite"} => pc[u] \in {"resolve", "restore"}
    BY <1>3 DEF Reads, Fetch, Recheck, Open, Load, Resolve, Restore, Hydrate, Compare, Collect, Go,
       local, TypeOK
  <2> QED BY <1>0, <2>1, <2>2 DEF InOrder
<1>4. CASE Plan(u) \/ Rewrite(u) \/ Render(u) \/ Command(u) \/ Applied(u) \/ Record(u)
  <2>1. remote' = remote /\ commit' = commit
    BY <1>4 DEF Plan, Rewrite, Render, Command, Applied, Record, local
  <2>2. pc'[u] \in {"render", "command", "applied", "record", "recheck", "unlock"}
    BY <1>4 DEF Plan, Rewrite, Render, Command, Applied, Record, Go, TypeOK
  <2> QED BY <2>1, <2>2 DEF InOrder
<1>5. CASE Failed(u) \/ VerifyFails(u)
  <2>1. remote' = remote /\ commit' = commit
    BY <1>5 DEF Failed, VerifyFails
  <2>2. pc'[u] = "unlock" \/ mode'[u] = "rollback"
    BY <1>5 DEF Failed, VerifyFails, RollBack, TypeOK
  <2> QED BY <2>1, <2>2 DEF InOrder
<1>6. CASE SourceFails(u) \/ CommandFails(u)
  BY <1>6 DEF SourceFails, CommandFails, Go, local, InOrder, TypeOK
<1> QED BY <1>1, <1>2, <1>3, <1>4, <1>5, <1>6 DEF Step, Works

LEMMA EnvironmentInCycle ==
  ASSUME FInv, (\E a \in Agents : Start(a) \/ Crash(a)) \/ Push
  PROVE  HeldInCycle' /\ \A u \in Unit : InOrder(u)'
<1>1. fleet' = fleet /\ remote \in Nat
  BY StepHost DEF Next, FInv, TypeOK
<1>2. /\ \A v : TakesLock(v)' = TakesLock(v)
      /\ \A l \in DOMAIN holder : holder[l] # 0 => holder[l] \in Unit
  BY <1>1, SameHost DEF FInv, TypeOK
<1>3. CASE Push
  <2>1. UNCHANGED <<holder, pc, at, mode, commit>> /\ remote' = remote + 1
    BY <1>3 DEF Push, local
  <2>2. HeldInCycle'
    BY <1>1, <1>2, <2>1 DEF FInv, HeldInCycle, InCycleOf, Inside, J
  <2>3. ASSUME NEW u \in Unit PROVE InOrder(u)'
    BY <1>1, <2>1 DEF FInv, InOrder, TypeOK
  <2> QED BY <2>2, <2>3
<1>4. ASSUME NEW a \in Agents, Start(a) PROVE HeldInCycle' /\ \A u \in Unit : InOrder(u)'
  <2>1. /\ UNCHANGED <<holder, at, mode, commit, remote>>
        /\ \A u \in Unit : /\ pc'[u] \in {pc[u], "lock"}
                           /\ u \in Of(a) => pc[u] = "rest"
                           /\ u \notin Of(a) => pc'[u] = pc[u]
    BY <1>4 DEF Start, local
  <2>2. \A l \in DOMAIN holder : holder[l] # 0 => holder[l] \notin Of(a)
    BY <1>2, <2>1 DEF FInv, HeldInCycle, InCycleOf, Inside
  <2>3. HeldInCycle'
    BY <1>1, <1>2, <2>1, <2>2 DEF FInv, HeldInCycle, InCycleOf, Inside, J
  <2> QED BY <2>1, <2>3 DEF FInv, InOrder
<1>5. ASSUME NEW a \in Agents, Crash(a) PROVE HeldInCycle' /\ \A u \in Unit : InOrder(u)'
  <2>1. /\ remote' = remote /\ 0 \notin Of(a)
        /\ holder' = [l \in DOMAIN holder |-> IF holder[l] \in Of(a) THEN 0 ELSE holder[l]]
        /\ \A u \in Unit \ Of(a) : /\ pc'[u] = pc[u] /\ at'[u] = at[u]
                                   /\ mode'[u] = mode[u] /\ commit'[u] = commit[u]
        /\ \A u \in Of(a) : u \in Unit /\ pc'[u] = "rest" /\ commit'[u] = 0
    BY <1>5, FleetFacts DEF Crash, Forget, Of, FInv, TypeOK
  <2>2. HeldInCycle'
    BY <1>1, <1>2, <2>1 DEF FInv, HeldInCycle, InCycleOf, Inside, J
  <2>3. ASSUME NEW u \in Unit PROVE InOrder(u)'
    BY <1>1, <2>1 DEF FInv, InOrder
  <2> QED BY <2>2, <2>3
<1> QED BY <1>3, <1>4, <1>5

LEMMA FInvAlways == Spec => []FInv
<1>1. FInv /\ [Next]_vars => FInv'
  <2> SUFFICES ASSUME FInv, [Next]_vars PROVE FInv'
    OBVIOUS
  <2>1. CASE UNCHANGED vars
    <3>1. TypeOK'
      BY <2>1, SameTyped DEF FInv
    <3> QED BY <2>1, <3>1 DEF FInv, HeldInCycle, InCycleOf, InOrder, vars, host, local, Inside,
               TakesLock, J, Unit
  <2>2. CASE Next
    <3>1. TypeOK'
      BY <2>2, StepTyped DEF FInv
    <3>2. Unit' = Unit
      BY <2>2, StepHost, SameHost
    <3>3. HeldInCycle' /\ \A v \in Unit : InOrder(v)'
      <4>1. ASSUME NEW u \in Unit, Step(u) PROVE HeldInCycle' /\ \A v \in Unit : InOrder(v)'
        <5>1. HeldInCycle'
          BY <4>1, StepInCycle DEF FInv
        <5>2. InOrder(u)' /\ remote' = remote
          BY <4>1, StepInOrder DEF FInv
        <5>3. ASSUME NEW v \in Unit, v # u PROVE InOrder(v)'
          BY <4>1, <5>2, <5>3, StepLocal DEF FInv, InOrder
        <5> QED BY <5>1, <5>2, <5>3
      <4> QED BY <2>2, <4>1, EnvironmentInCycle DEF Next
    <3> QED BY <3>1, <3>2, <3>3 DEF FInv
  <2> QED BY <2>1, <2>2
<1> QED BY <1>1, InitInCycle, PTL DEF Spec

\* FileLocker: a lock that someone waits for is held by a unit that is in a
\* cycle, and so waits for no lock itself; whatever crashed, gave up or failed
\* left none behind.  Units of one host cannot wait for each other.
THEOREM FleetLocksInCycles == Spec => []HeldInCycle
<1>1. FInv => HeldInCycle
  BY DEF FInv
<1> QED BY <1>1, FInvAlways, PTL

Places ==
  [lock |-> 1, fetch |-> 2, open |-> 3, load |-> 4, baseline |-> 5, plan |-> 6, resolve |-> 12,
   restore |-> 13, rewrite |-> 14, recheck |-> 20, unlock |-> 21]
Attempts == [render |-> 7, command |-> 8, applied |-> 9, failed |-> 10, record |-> 11]

\* A rollback renders, deploys and records again, further along.
Reached(place, purpose) ==
  IF place \in DOMAIN Attempts
  THEN Attempts[place] + (IF purpose = "rollback" THEN 8 ELSE 0)
  ELSE Places[place]

\* Further along in the cycle of a target, or at the next target.
Onward(u) ==
  \/ at'[u] = at[u] /\ Reached(pc[u], mode[u]) < Reached(pc'[u], mode'[u])
  \/ at'[u] = at[u] + 1 /\ pc'[u] = "lock"

\* Recheck: the branch has moved past the commit of the cycle.
MovedOn(u) == pc[u] = "recheck" /\ pc'[u] = "fetch" /\ commit[u] < remote

LEMMA StepOnward ==
  ASSUME FInv, NEW u \in Unit, Step(u)
  PROVE  pc'[u] = "rest" \/ Onward(u) \/ MovedOn(u)
<1>0. /\ pc \in [Unit -> Labels] /\ mode[u] \in {"deploy", "rollback"} /\ at \in [Unit -> Nat]
      /\ mode \in [Unit -> {"deploy", "rollback"}] /\ remote \in Nat /\ commit[u] \in Nat
  BY DEF FInv, TypeOK
<1> USE DEF Reached, Places, Attempts
<1>1. CASE Lock(u)
  BY <1>0, <1>1 DEF Lock, Go, Onward
<1>2. CASE Unlock(u) \/ GiveUp(u)
  BY <1>0, <1>2 DEF Unlock, GiveUp, Go, Onward
<1>3. CASE Recheck(u)
  <2>1. CASE remote = commit[u]
    BY <1>0, <1>3, <2>1 DEF Recheck, Go, Onward
  <2>2. CASE remote # commit[u]
    <3>1. commit[u] <= remote
      BY DEF FInv, InOrder
    <3> QED BY <1>0, <1>3, <2>2, <3>1 DEF Recheck, Go, MovedOn
  <2> QED BY <2>1, <2>2
<1>4. CASE Fetch(u) \/ Open(u) \/ Load(u) \/ Resolve(u) \/ Restore(u) \/ Hydrate(u) \/ Compare(u)
           \/ Collect(u)
  <2>1. /\ <<pc[u], pc'[u]>> \in {<<"fetch", "open">>, <<"open", "load">>, <<"load", "baseline">>,
                                 <<"resolve", "restore">>, <<"restore", "rewrite">>,
                                 <<"baseline", "plan">>}
        /\ UNCHANGED <<at, mode>>
    BY <1>0, <1>4 DEF Fetch, Open, Load, Resolve, Restore, Hydrate, Compare, Collect, Go, local
  <2> QED BY <1>0, <2>1 DEF Onward
<1>5. CASE Plan(u)
  <2>1. /\ pc[u] = "plan" /\ pc'[u] \in {"render", "record", "recheck", "unlock"}
        /\ UNCHANGED <<at, mode>>
    BY <1>0, <1>5 DEF Plan, Go
  <2> QED BY <1>0, <2>1 DEF Onward
<1>6. CASE Rewrite(u)
  <2>1. mode[u] = "rollback"
    BY <1>6 DEF FInv, InOrder, Rewrite, Go
  <2> QED BY <1>0, <1>6, <2>1 DEF Rewrite, Go, local, Onward
<1>7. CASE Render(u) \/ Command(u) \/ CommandFails(u)
  <2>1. /\ <<pc[u], pc'[u]>> \in {<<"render", "command">>, <<"render", "applied">>,
                                 <<"command", "applied">>, <<"command", "failed">>}
        /\ UNCHANGED <<at, mode>>
    BY <1>0, <1>7 DEF Render, Command, CommandFails, Go, local
  <2> QED BY <1>0, <2>1 DEF Onward
<1>8. CASE Applied(u) \/ Record(u) \/ SourceFails(u)
  <2>1. /\ \/ pc[u] = "applied" /\ pc'[u] = "record"
           \/ pc[u] = "record" /\ pc'[u] \in {"recheck", "unlock"}
           \/ pc[u] \in {"fetch", "recheck", "restore"} /\ pc'[u] = "unlock"
        /\ UNCHANGED <<at, mode>>
    BY <1>0, <1>8 DEF Applied, Record, SourceFails, Go, local
  <2> QED BY <1>0, <2>1 DEF Onward
<1>9. CASE Failed(u) \/ VerifyFails(u)
  <2>1. /\ pc[u] \in {"failed", "record", "plan"} /\ at' = at
        /\ \/ mode[u] = "deploy" /\ pc'[u] = "resolve"
           \/ pc'[u] = "unlock"
    BY <1>0, <1>9 DEF Failed, VerifyFails, RollBack
  <2> QED BY <1>0, <2>1 DEF Onward
<1> QED BY <1>1, <1>2, <1>3, <1>4, <1>5, <1>6, <1>7, <1>8, <1>9 DEF Step, Reads, Works

\* Every step of a unit, a failed one too, ends its run, takes it further in
\* the cycle of its target, or on to the next target; it turns back only for a
\* commit that is newer than the one it has reconciled.  No unit deploys or
\* rolls back twice in a cycle, and none visits a target twice in a run.
THEOREM FleetCycleIsForward ==
  Spec => [][\A u \in Unit : Step(u) => pc'[u] = "rest" \/ Onward(u) \/ MovedOn(u)]_vars
<1>1. FInv /\ [Next]_vars =>
        [\A u \in Unit : Step(u) => pc'[u] = "rest" \/ Onward(u) \/ MovedOn(u)]_vars
  BY StepOnward
<1> QED BY <1>1, FInvAlways, PTL DEF Spec
-----------------------------------------------------------------------------
(****************************************************************************)
(* Where Isolation comes from: what the validation of a document and the    *)
(* wiring of its targets give.  Its names are sequences over Part.          *)
(****************************************************************************)

WellNamed(doc, Part) ==
  /\ doc.dir \in Seq(Seq(Part))
  /\ Len(doc.projects) \in Nat /\ DOMAIN doc.projects = 1..Len(doc.projects)
  /\ \A i \in DOMAIN doc.projects :
       LET p == doc.projects[i]
       IN  /\ p.name \in Seq(Part)
           /\ Len(p.targets) \in Nat /\ DOMAIN p.targets = 1..Len(p.targets)
           /\ \A j \in DOMAIN p.targets : p.targets[j].name \in Seq(Part)

\* "api" beside "api-qa" is fine while "api" has no named target that might be
\* deployed as "api-qa".
Unambiguous(doc) ==
  \A i, k \in DOMAIN doc.projects :
    i # k /\ IsPrefix(doc.projects[i].name, doc.projects[k].name) =>
      \A j \in DOMAIN doc.projects[i].targets : doc.projects[i].targets[j].name = NoName

LEMMA PrefixOfBoth ==
  ASSUME NEW Part, NEW p \in Seq(Part), NEW q \in Seq(Part),
         NEW s \in Seq(Part), NEW t \in Seq(Part), p \o s = q \o t, Len(p) <= Len(q)
  PROVE  IsPrefix(p, q)
<1>1. \A i \in 1..Len(p) : p[i] = (p \o s)[i] /\ q[i] = (q \o t)[i]
  OBVIOUS
<1>2. \A i \in 1..Len(p) : p[i] = q[i]
  BY <1>1
<1>3. SubSeq(p, 1, Len(p)) = SubSeq(q, 1, Len(p))
  BY <1>2
<1> QED BY <1>3 DEF IsPrefix

LEMMA NoSuffix ==
  ASSUME NEW Part, NEW p \in Seq(Part), NEW q \in Seq(Part), NEW t \in Seq(Part),
         p \o <<>> = q \o t, Len(p) <= Len(q)
  PROVE  p = q
<1>1. p \o <<>> = p
  OBVIOUS
<1>2. Len(p) = Len(q) + Len(t)
  BY <1>1
<1>3. Len(t) = 0
  BY <1>2
<1>4. \A i \in 1..Len(q) : q[i] = (q \o t)[i]
  OBVIOUS
<1> QED BY <1>1, <1>2, <1>3, <1>4

\* ValidateEnsemble: "two ensemble members with the same effective Compose
\* project name would otherwise make --remove-orphans destructive".  With
\* unambiguous names what it accepts has no such members, nor any that share a
\* checkout, a file or a journal.
LEMMA MembersApart ==
  ASSUME NEW doc, NEW Part, WellNamed(doc, Part), Accepted(doc), Unambiguous(doc),
         NEW i \in DOMAIN doc.projects, NEW k \in DOMAIN doc.projects, i # k,
         NEW j \in DOMAIN doc.projects[i].targets, NEW l \in DOMAIN doc.projects[k].targets
  PROVE  Apart(Job(doc, doc.projects[i], doc.projects[i].targets[j]),
               Job(doc, doc.projects[k], doc.projects[k].targets[l]))
<1> DEFINE p == doc.projects[i]
           q == doc.projects[k]
           t == p.targets[j]
           s == q.targets[l]
<1>1. /\ doc.dir \in Seq(Seq(Part)) /\ p.name \in Seq(Part) /\ q.name \in Seq(Part)
      /\ t.name \in Seq(Part) /\ s.name \in Seq(Part)
  BY DEF WellNamed
<1>2. p.name # NoName /\ q.name # NoName /\ p.name # q.name
  <2>1. Len(doc.projects) > 1
    BY DEF WellNamed
  <2> QED BY <2>1 DEF Accepted, IsInjective
<1>3. /\ IsPrefix(p.name, q.name) => t.name = NoName
      /\ IsPrefix(q.name, p.name) => s.name = NoName
  BY DEF Unambiguous
<1> HIDE DEF p, q, t, s
<1>4. Checkout(doc, p) # Checkout(doc, q)
  <2>1. Append(doc.dir, p.name) # Append(doc.dir, q.name)
    <3>1. /\ Append(doc.dir, p.name)[Len(doc.dir) + 1] = p.name
          /\ Append(doc.dir, q.name)[Len(doc.dir) + 1] = q.name
      BY <1>1
    <3> QED BY <1>2, <3>1
  <2> QED BY <1>2, <2>1 DEF Checkout
<1>5. Journal(doc, p, t) # Journal(doc, q, s)
  BY <1>2 DEF Journal
<1>6. Workload(doc, p, t) # Workload(doc, q, s)
  <2>1. Workload(doc, p, t) = p.name \o t.name /\ Workload(doc, q, s) = q.name \o s.name
    BY <1>2 DEF Workload, Disambiguate
  <2>2. CASE Len(p.name) <= Len(q.name)
    <3>1. p.name \o t.name # q.name \o s.name
      BY <1>1, <1>2, <1>3, <2>2, PrefixOfBoth, NoSuffix DEF NoName
    <3> QED BY <2>1, <3>1
  <2>3. CASE Len(q.name) <= Len(p.name)
    <3>1. q.name \o s.name # p.name \o t.name
      BY <1>1, <1>2, <1>3, <2>3, PrefixOfBoth, NoSuffix DEF NoName
    <3> QED BY <2>1, <3>1
  <2>4. Len(p.name) \in Nat /\ Len(q.name) \in Nat
    BY <1>1
  <2> QED BY <2>2, <2>3, <2>4
<1>7. ComposeFile(doc, p, t) # ComposeFile(doc, q, s)
  BY <1>4 DEF ComposeFile
<1>8. Apart(Job(doc, p, t), Job(doc, q, s))
  BY <1>4, <1>5, <1>6, <1>7 DEF Apart, Job
<1> QED BY <1>8 DEF p, q, t, s

\* Documents of which neither lies in the directory of the other.
Elsewhere(doc, other) == ~IsPrefix(doc.dir, other.dir) /\ ~IsPrefix(other.dir, doc.dir)

\* Such documents have no checkout in common, whatever they call their projects.
LEMMA CheckoutsApart ==
  ASSUME NEW doc, NEW other, NEW Part, WellNamed(doc, Part), WellNamed(other, Part),
         Elsewhere(doc, other),
         NEW i \in DOMAIN doc.projects, NEW k \in DOMAIN other.projects
  PROVE  Checkout(doc, doc.projects[i]) # Checkout(other, other.projects[k])
<1> DEFINE d == doc.dir
           e == other.dir
           n == doc.projects[i].name
           m == other.projects[k].name
           s == IF n = NoName THEN <<>> ELSE <<n>>
           r == IF m = NoName THEN <<>> ELSE <<m>>
           own == IF n = NoName THEN d ELSE Append(d, n)
           its == IF m = NoName THEN e ELSE Append(e, m)
<1>1. d \in Seq(Seq(Part)) /\ e \in Seq(Seq(Part)) /\ n \in Seq(Part) /\ m \in Seq(Part)
  BY DEF WellNamed
<1>2. ~IsPrefix(d, e) /\ ~IsPrefix(e, d)
  BY DEF Elsewhere
<1> HIDE DEF d, e, n, m
<1>3. s \in Seq(Seq(Part)) /\ r \in Seq(Seq(Part))
  BY <1>1
<1>4. own = d \o s /\ its = e \o r
  <2>1. ASSUME NEW x \in Seq(Seq(Part)), NEW y \in Seq(Part)
        PROVE  Append(x, y) = x \o <<y>> /\ x = x \o <<>>
    <3>1. <<y>> \in Seq(Seq(Part)) /\ Append(x, y) \in Seq(Seq(Part))
      OBVIOUS
    <3>2. /\ Len(Append(x, y)) = Len(x) + 1 /\ Len(x \o <<y>>) = Len(x) + 1
          /\ x \o <<y>> \in Seq(Seq(Part))
      BY <3>1
    <3>3. ASSUME NEW j \in 1..Len(x) + 1 PROVE Append(x, y)[j] = (x \o <<y>>)[j]
      BY <3>1
    <3>4. Append(x, y) = x \o <<y>>
      BY <3>1, <3>2, <3>3
    <3> QED BY <3>4
  <2> QED BY <1>1, <2>1
<1> HIDE DEF s, r, own, its
<1>5. d \o s # e \o r
  <2>1. CASE Len(d) <= Len(e)
    BY <1>1, <1>2, <1>3, <2>1, PrefixOfBoth
  <2>2. CASE Len(e) <= Len(d)
    BY <1>1, <1>2, <1>3, <2>2, PrefixOfBoth
  <2>3. Len(d) \in Nat /\ Len(e) \in Nat
    BY <1>1
  <2> QED BY <2>1, <2>2, <2>3
<1>6. own # its
  BY <1>4, <1>5
<1>7. ASSUME NEW url, NEW there, NEW x, NEW y, <<url, x>> = <<there, y>> PROVE x = y
  BY <1>7
<1> QED BY <1>6, <1>7 DEF Checkout, own, its, d, e, n, m
-----------------------------------------------------------------------------
(* The hosts that accorda sets up. *)

\* What one process of a document runs.
Host(kind, doc, agent) == Units([kind |-> kind, doc |-> doc], agent)

\* A unit whose jobs are a document's.
IsOf(unit, doc) ==
  \A n \in DOMAIN unit.jobs :
    \E i \in DOMAIN doc.projects : \E j \in DOMAIN doc.projects[i].targets :
      unit.jobs[n] = Job(doc, doc.projects[i], doc.projects[i].targets[j])

\* The document of each unit: what deploys or plans is of one, and each status
\* is read from a directory of its own.
Located(f, home, doc, Part) ==
  \A u \in DOMAIN f :
    /\ IsOf(f[u], home[u]) /\ WellNamed(home[u], Part)
    /\ IF f[u].kind = "status" THEN \A v \in DOMAIN f \ {u} : Elsewhere(home[u], home[v])
                               ELSE home[u] = doc

\* One process, the statuses aside.
OneProcess(f, doc) ==
  \E agent : \E kind \in Kinds : \A u \in DOMAIN f :
    f[u].kind # "status" => u \in DOMAIN Host(kind, doc, agent) /\ f[u] = Host(kind, doc, agent)[u]

\* Any number of processes: they meet on the locks of the projects.
OneTargetEach(doc) == \A i \in DOMAIN doc.projects : Len(doc.projects[i].targets) = 1

Documented(f) ==
  \E doc, Part, home :
    /\ WellNamed(doc, Part) /\ Accepted(doc) /\ Unambiguous(doc)
    /\ Located(f, home, doc, Part)
    /\ OneProcess(f, doc) \/ OneTargetEach(doc)

\* A status and any other unit.
LEMMA StatusApart ==
  ASSUME NEW f, NEW home, NEW doc, NEW Part, Located(f, home, doc, Part),
         NEW u \in DOMAIN f, NEW v \in DOMAIN f \ {u}, "status" \in {f[u].kind, f[v].kind},
         NEW n \in DOMAIN f[u].jobs, NEW m \in DOMAIN f[v].jobs
  PROVE  /\ f[u].jobs[n].checkout # f[v].jobs[m].checkout
         /\ f[u].jobs[n].file # f[v].jobs[m].file
<1> DEFINE d == home[u]
           e == home[v]
<1>1. /\ WellNamed(d, Part) /\ IsOf(f[u], d)
      /\ WellNamed(e, Part) /\ IsOf(f[v], e)
  BY DEF Located
<1>2. Elsewhere(d, e)
  <2>1. CASE f[u].kind = "status"
    BY <2>1 DEF Located
  <2>2. CASE f[v].kind = "status"
    <3>1. Elsewhere(e, d)
      BY <2>2 DEF Located
    <3> QED BY <3>1 DEF Elsewhere
  <2> QED BY <2>1, <2>2
<1> HIDE DEF d, e
<1>3. PICK i \in DOMAIN d.projects : \E j \in DOMAIN d.projects[i].targets :
        f[u].jobs[n] = Job(d, d.projects[i], d.projects[i].targets[j])
  BY <1>1 DEF IsOf
<1>4. PICK j \in DOMAIN d.projects[i].targets :
        f[u].jobs[n] = Job(d, d.projects[i], d.projects[i].targets[j])
  BY <1>3
<1>5. PICK k \in DOMAIN e.projects : \E l \in DOMAIN e.projects[k].targets :
        f[v].jobs[m] = Job(e, e.projects[k], e.projects[k].targets[l])
  BY <1>1 DEF IsOf
<1>6. PICK l \in DOMAIN e.projects[k].targets :
        f[v].jobs[m] = Job(e, e.projects[k], e.projects[k].targets[l])
  BY <1>5
<1>7. Checkout(d, d.projects[i]) # Checkout(e, e.projects[k])
  BY <1>1, <1>2, CheckoutsApart
<1>8. /\ f[u].jobs[n].checkout = Checkout(d, d.projects[i])
      /\ f[u].jobs[n].file = <<Checkout(d, d.projects[i]), d.projects[i].targets[j].dir>>
  BY <1>4 DEF Job, ComposeFile
<1>9. /\ f[v].jobs[m].checkout = Checkout(e, e.projects[k])
      /\ f[v].jobs[m].file = <<Checkout(e, e.projects[k]), e.projects[k].targets[l].dir>>
  BY <1>6 DEF Job, ComposeFile
<1> QED BY <1>7, <1>8, <1>9

\* Two units of one process: they are different projects.
LEMMA ProcessApart ==
  ASSUME NEW doc, NEW Part, WellNamed(doc, Part), Accepted(doc), Unambiguous(doc),
         NEW f, OneProcess(f, doc),
         NEW u \in DOMAIN f, NEW v \in DOMAIN f \ {u},
         f[u].kind # "status", f[v].kind # "status",
         NEW n \in DOMAIN f[u].jobs, NEW m \in DOMAIN f[v].jobs
  PROVE  Apart(f[u].jobs[n], f[v].jobs[m])
<1>1. PICK agent : \E kind \in Kinds : \A w \in DOMAIN f :
        f[w].kind # "status" =>
          w \in DOMAIN Host(kind, doc, agent) /\ f[w] = Host(kind, doc, agent)[w]
  BY DEF OneProcess
<1>2. PICK kind \in Kinds : \A w \in DOMAIN f :
        f[w].kind # "status" =>
          w \in DOMAIN Host(kind, doc, agent) /\ f[w] = Host(kind, doc, agent)[w]
  BY <1>1
<1>3. CASE kind \in {"watch", "sync"}
  <2>1. Host(kind, doc, agent) =
          [i \in DOMAIN doc.projects |->
             [agent |-> agent, kind |-> kind, jobs |-> Jobs(doc, doc.projects[i])]]
    BY <1>3 DEF Host, Units
  <2>2. /\ u \in DOMAIN doc.projects /\ f[u].jobs = Jobs(doc, doc.projects[u])
        /\ v \in DOMAIN doc.projects /\ f[v].jobs = Jobs(doc, doc.projects[v])
    BY <1>2, <2>1
  <2>3. /\ n \in DOMAIN doc.projects[u].targets /\ m \in DOMAIN doc.projects[v].targets
        /\ f[u].jobs[n] = Job(doc, doc.projects[u], doc.projects[u].targets[n])
        /\ f[v].jobs[m] = Job(doc, doc.projects[v], doc.projects[v].targets[m])
    BY <2>2 DEF Jobs
  <2> QED BY <2>2, <2>3, MembersApart
<1>4. CASE kind \in {"plan", "status"}
  <2>1. DOMAIN Host(kind, doc, agent) = {1}
    BY <1>4 DEF Host, Units
  <2> QED BY <1>2, <2>1
<1> QED BY <1>3, <1>4 DEF Kinds

\* Two units of any processes, when every project has one target.
LEMMA ProcessesMeet ==
  ASSUME NEW doc, NEW Part, WellNamed(doc, Part), Accepted(doc), Unambiguous(doc),
         OneTargetEach(doc),
         NEW f, NEW home, Located(f, home, doc, Part),
         NEW u \in DOMAIN f, NEW v \in DOMAIN f,
         f[u].kind # "status", f[v].kind # "status",
         NEW n \in DOMAIN f[u].jobs, NEW m \in DOMAIN f[v].jobs
  PROVE  f[u].jobs[n].lock = f[v].jobs[m].lock \/ Apart(f[u].jobs[n], f[v].jobs[m])
<1>0. IsOf(f[u], doc) /\ IsOf(f[v], doc)
  BY DEF Located
<1>1. PICK i \in DOMAIN doc.projects : \E j \in DOMAIN doc.projects[i].targets :
        f[u].jobs[n] = Job(doc, doc.projects[i], doc.projects[i].targets[j])
  BY <1>0 DEF IsOf
<1>2. PICK k \in DOMAIN doc.projects : \E l \in DOMAIN doc.projects[k].targets :
        f[v].jobs[m] = Job(doc, doc.projects[k], doc.projects[k].targets[l])
  BY <1>0 DEF IsOf
<1>3. CASE i = k
  <2>1. DOMAIN doc.projects[i].targets = {1}
    BY DEF WellNamed, OneTargetEach
  <2>2. f[u].jobs[n] = f[v].jobs[m]
    BY <1>1, <1>2, <1>3, <2>1
  <2> QED BY <2>2
<1>4. CASE i # k
  BY <1>1, <1>2, <1>4, MembersApart
<1> QED BY <1>3, <1>4

\* The wiring of an accepted document keeps its units apart, and a status in
\* another directory keeps apart from them; so the theorems above are about the
\* hosts that accorda sets up for a document, two processes that deploy or plan
\* one with several targets excepted.
THEOREM WiredIsolation ==
  ASSUME \A f \in Fleets : Documented(f)
  PROVE  Isolation
<1> SUFFICES ASSUME NEW f \in Fleets, NEW u \in DOMAIN f, NEW v \in DOMAIN f, u # v,
                    NEW n \in DOMAIN f[u].jobs, NEW m \in DOMAIN f[v].jobs
             PROVE  IF "status" \in {f[u].kind, f[v].kind}
                    THEN /\ f[u].jobs[n].checkout # f[v].jobs[m].checkout
                         /\ f[u].jobs[n].file # f[v].jobs[m].file
                    ELSE \/ f[u].jobs[n].lock = f[v].jobs[m].lock
                         \/ Apart(f[u].jobs[n], f[v].jobs[m])
  BY DEF Isolation, Isolated
<1>1. PICK doc, Part, home :
        /\ WellNamed(doc, Part) /\ Accepted(doc) /\ Unambiguous(doc)
        /\ Located(f, home, doc, Part)
        /\ OneProcess(f, doc) \/ OneTargetEach(doc)
  BY DEF Documented
<1>2. CASE "status" \in {f[u].kind, f[v].kind}
  BY <1>1, <1>2, StatusApart
<1>3. CASE f[u].kind # "status" /\ f[v].kind # "status"
  <2>1. CASE OneProcess(f, doc)
    BY <1>1, <1>3, <2>1, ProcessApart
  <2>2. CASE OneTargetEach(doc)
    BY <1>1, <1>3, <2>2, ProcessesMeet
  <2> QED BY <1>1, <2>1, <2>2
<1> QED BY <1>2, <1>3
=============================================================================
