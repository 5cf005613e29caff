----------------------------- MODULE HealthProofs -----------------------------
(****************************************************************************)
(* What a verdict on a deployment says of its containers, for any number of *)
(* services and replicas and any timeout.  The invariant relates what the   *)
(* poll has merged so far to what it has inspected so far (Merged), and the *)
(* verdict to what was merged (Concluded).                                  *)
(****************************************************************************)
EXTENDS HealthWait, TLAPS

\* The replicas of a service that this poll has inspected.
Told(s) == {c \in Replicas : ServiceOf[c] = s /\ inspected[c] # Gone}

\* Two conditions a merge tells apart.
Differ(a, b) == a.status # b.status \/ a.health # b.health

\* A service has an entry when a replica of it was inspected; it has the image of
\* one of them.  An entry that is not degraded is what each of them told, and a
\* degraded one has two that differ.
Merged(s) ==
  /\ runtime[s] = Gone => Told(s) = {}
  /\ runtime[s] # Gone =>
       /\ \E c \in Told(s) : runtime[s].image = inspected[c].image
       /\ runtime[s].status # "degraded" => \A c \in Told(s) : ~Differ(inspected[c], runtime[s])
       /\ runtime[s].status = "degraded" => \E c, d \in Told(s) : Differ(inspected[c], inspected[d])

\* The two ways a wait is concluded.
Concluded ==
  wait = "done" =>
    \/ verdict = HealthFromRuntime(runtime) /\ ~HasStarting(verdict)
    \/ verdict = MarkTimedOut(HealthFromRuntime(runtime)) /\ clock > Timeout

\* A container is inspected once in a poll.
Fresh == wait = "inspect" => \A c \in pending : inspected[c] = Gone

IInv == TypeOK /\ Concluded /\ Fresh /\ \A s \in Deployed : Merged(s)

LEMMA Data ==
  /\ \A c \in Replicas : ServiceOf[c] \in Deployed
  /\ \A r \in RuntimeService :
       /\ r # Gone
       /\ r.health \in {NoHealth, "starting", "healthy", "unhealthy"}
       /\ r.status = "degraded" => r.health = NoHealth
  /\ \A r \in Conditions : r \in RuntimeService /\ r.status # "degraded"
  /\ NoHealth \notin {"starting", "healthy", "unhealthy", "unknown", "none"}
<1> DEFINE Healths == {NoHealth, "starting", "healthy", "unhealthy"}
<1>1. \A r \in Conditions : r \in [status : {"running", "exited"}, image : Images, health : Healths]
  BY HealthAssumption
<1>2. \A r \in RuntimeService :
        r \in [status : {"running", "exited", "degraded"}, image : Images, health : Healths]
  BY <1>1 DEF RuntimeService
<1>3. \A r \in RuntimeService :
        /\ r # Gone /\ r.health \in Healths
        /\ r.status = "degraded" => r.health = NoHealth
  BY <1>1, <1>2, HealthAssumption DEF RuntimeService
<1>4. \A r \in Conditions : r \in RuntimeService /\ r.status # "degraded"
  BY <1>1 DEF RuntimeService
<1>5. \A c \in Replicas : ServiceOf[c] \in Deployed
  BY DEF Deployed
<1> QED
  BY <1>3, <1>4, <1>5, HealthAssumption

\* Merging two conditions of replicas: what differs is degraded, and stays so.
LEMMA Merging ==
  ASSUME NEW a \in RuntimeService, NEW b \in Conditions
  PROVE  /\ MergeRuntime(a, b) \in RuntimeService
         /\ MergeRuntime(a, b).image = a.image
         /\ MergeRuntime(a, b).status # "degraded" => MergeRuntime(a, b) = a /\ ~Differ(a, b)
         /\ MergeRuntime(a, b).status = "degraded" => Differ(a, b)
<1>0. b.status # "degraded" /\ a.image \in Images
  BY Data, HealthAssumption DEF RuntimeService
<1>1. CASE Differ(a, b)
  BY <1>0, <1>1 DEF MergeRuntime, RuntimeService, Differ
<1>2. CASE ~Differ(a, b)
  BY <1>0, <1>2 DEF MergeRuntime, Differ
<1> QED
  BY <1>1, <1>2

LEMMA Verdicts ==
  ASSUME TypeOK
  PROVE  /\ HealthFromRuntime(runtime) \in [Deployed -> Status \cup {"none"}]
         /\ MarkTimedOut(HealthFromRuntime(runtime)) \in [Deployed -> Status \cup {"none"}]
         /\ ~HasStarting(MarkTimedOut(HealthFromRuntime(runtime)))
<1>1. HealthFromRuntime(runtime) \in [Deployed -> Status \cup {"none"}]
  BY Data DEF TypeOK, HealthFromRuntime, HealthStatus, Status
<1> QED
  BY <1>1 DEF MarkTimedOut, HasStarting, Status

LEMMA InspectKeeps ==
  ASSUME IInv, NEW c \in Replicas, InspectContainer(c)
  PROVE  IInv'
<1> DEFINE s == ServiceOf[c]
<1>0. TypeOK /\ s \in Deployed /\ engine[c] \in Conditions
  BY Data DEF IInv, TypeOK, InspectContainer
<1>1. /\ inspected' = [inspected EXCEPT ![c] = engine[c]]
      /\ runtime'[s] = IF runtime[s] = Gone THEN engine[c] ELSE MergeRuntime(runtime[s], engine[c])
      /\ \A t \in Deployed : t # s => runtime'[t] = runtime[t]
  BY <1>0 DEF InspectContainer, TypeOK
<1>2. runtime'[s] \in RuntimeService
  BY <1>0, <1>1, Data, Merging DEF TypeOK
<1>3. TypeOK'
  BY <1>0, <1>1, <1>2 DEF InspectContainer, TypeOK
<1>4. ASSUME NEW t \in Deployed PROVE Merged(t)'
  <2>0. c \in Told(s)' /\ Told(s)' = Told(s) \cup {c}
    BY <1>0, <1>1, Data DEF Told, TypeOK
  <2>1. CASE t # s
    <3>1. Told(t)' = Told(t) /\ \A x \in Told(t) : inspected'[x] = inspected[x]
      BY <1>0, <1>1, <2>1 DEF Told, TypeOK
    <3> QED
      BY <1>1, <2>1, <3>1 DEF IInv, Merged
  <2>2. CASE t = s /\ runtime[s] = Gone
    <3>1. Told(s)' = {c} /\ runtime'[s] = engine[c] /\ inspected'[c] = engine[c]
      BY <1>0, <1>1, <2>0, <2>2 DEF IInv, Merged, TypeOK
    <3> QED
      BY <1>0, <2>2, <3>1, Data DEF Merged, Differ
  <2>3. CASE t = s /\ runtime[s] # Gone
    <3>1. runtime[s] \in RuntimeService /\ runtime'[s] = MergeRuntime(runtime[s], engine[c])
      BY <1>0, <1>1, <2>3 DEF TypeOK
    <3>2. Merged(s)
      BY <1>0 DEF IInv
    <3>3. /\ inspected'[c] = engine[c]
          /\ \A x \in Told(s) : x # c => inspected'[x] = inspected[x]
      BY <1>0, <1>1 DEF TypeOK, Told
    <3>4. c \notin Told(s)
      BY <1>0 DEF IInv, Fresh, Told, InspectContainer
    <3>5. \E x \in Told(s)' : runtime'[s].image = inspected'[x].image
      BY <1>0, <2>0, <2>3, <3>1, <3>2, <3>3, <3>4, Merging DEF Merged
    <3>6. ASSUME runtime'[s].status # "degraded", NEW x \in Told(s)'
          PROVE  ~Differ(inspected'[x], runtime'[s])
      <4>1. runtime'[s] = runtime[s] /\ ~Differ(runtime[s], engine[c])
        BY <1>0, <3>1, <3>6, Merging
      <4>2. \A y \in Told(s) : ~Differ(inspected[y], runtime[s])
        BY <2>3, <3>2, <3>6, <4>1 DEF Merged
      <4> QED
        BY <2>0, <3>3, <3>4, <4>1, <4>2 DEF Differ
    <3>7. ASSUME runtime'[s].status = "degraded"
          PROVE  \E x, y \in Told(s)' : Differ(inspected'[x], inspected'[y])
      <4>1. CASE runtime[s].status = "degraded"
        <5>1. PICK x, y \in Told(s) : Differ(inspected[x], inspected[y])
          BY <2>3, <3>2, <4>1 DEF Merged
        <5>2. inspected'[x] = inspected[x] /\ inspected'[y] = inspected[y]
          BY <3>3, <3>4, <5>1
        <5> QED
          BY <2>0, <5>1, <5>2
      <4>2. CASE runtime[s].status # "degraded"
        <5>1. PICK x \in Told(s) : TRUE
          BY <2>3, <3>2 DEF Merged
        <5>2. ~Differ(inspected[x], runtime[s]) /\ Differ(runtime[s], engine[c])
          BY <1>0, <2>3, <3>1, <3>2, <3>7, <4>2, Merging DEF Merged
        <5>3. Differ(inspected'[x], inspected'[c])
          BY <3>3, <3>4, <5>1, <5>2 DEF Differ
        <5> QED
          BY <2>0, <5>3
      <4> QED
        BY <4>1, <4>2
    <3>8. runtime'[s] # Gone
      BY <1>0, <3>1, Merging, Data
    <3> QED
      BY <2>3, <3>5, <3>6, <3>7, <3>8 DEF Merged
  <2> QED
    BY <2>1, <2>2, <2>3
<1>5. Concluded'
  BY DEF InspectContainer, Concluded
<1>6. Fresh'
  BY <1>0, <1>1 DEF InspectContainer, IInv, Fresh, TypeOK
<1> QED
  BY <1>3, <1>4, <1>5, <1>6 DEF IInv

\* Nothing inspected yet, nothing merged.
LEMMA Emptied ==
  ASSUME inspected' = [c \in Replicas |-> Gone], runtime' = Nothing
  PROVE  \A s \in Deployed : Merged(s)'
BY DEF Merged, Nothing, Told

LEMMA Inductive == IInv /\ [Next]_vars => IInv'
<1> SUFFICES ASSUME IInv, [Next]_vars PROVE IInv'
  OBVIOUS
<1>0. TypeOK /\ \A s \in Deployed : Merged(s)
  BY DEF IInv
<1> USE HealthAssumption
<1>1. CASE ListContainers
  <2>1. Concluded' /\ \A s \in Deployed : Merged(s)'
    BY <1>1, Emptied DEF ListContainers, Concluded
  <2> QED
    BY <1>0, <1>1, <2>1 DEF ListContainers, IInv, Fresh, TypeOK, Nothing
<1>2. CASE EndWait
  <2>1. Concluded' /\ \A s \in Deployed : Merged(s)'
    BY <1>2, Emptied DEF EndWait, Concluded
  <2> QED
    BY <1>0, <1>2, <2>1 DEF EndWait, IInv, Fresh, TypeOK, Nothing, NoVerdict
<1>3. CASE Settled
  <2>1. TypeOK'
    BY <1>0, <1>3, Verdicts DEF Settled, Conclude, TypeOK
  <2> QED
    BY <1>0, <1>3, <2>1 DEF Read, Settled, Conclude, IInv, Fresh, Concluded, Merged, Told
<1>4. CASE TimedOut
  <2>1. TypeOK'
    BY <1>0, <1>4, Verdicts DEF TimedOut, Conclude, TypeOK
  <2> QED
    BY <1>0, <1>4, <2>1 DEF Read, TimedOut, Conclude, IInv, Fresh, Concluded, Merged, Told
<1>5. CASE StartWait
  <2>1. TypeOK'
    BY <1>0, <1>5 DEF StartWait, TypeOK, NoVerdict
  <2> QED
    BY <1>0, <1>5, <2>1 DEF StartWait, IInv, Fresh, Concluded, Merged, Told
<1>6. ASSUME SleepInterval \/ InspectFails \/ Broken \/ Tick \/ \E c \in Replicas : Become(c)
      PROVE  IInv'
  <2>1. TypeOK'
    <3>1. CASE SleepInterval \/ Tick
      BY <1>0, <3>1 DEF SleepInterval, Tick, Later, TypeOK
    <3>2. CASE InspectFails \/ Broken
      BY <1>0, <3>2 DEF InspectFails, Broken, TypeOK
    <3>3. CASE \E c \in Replicas : Become(c)
      BY <1>0, <3>3 DEF Become, TypeOK
    <3> QED
      BY <1>6, <3>1, <3>2, <3>3
  <2>2. wait' # "done" /\ UNCHANGED <<inspected, runtime, pending>>
    BY <1>6 DEF SleepInterval, InspectFails, Broken, Tick, Become, Read
  <2>3. wait' = "inspect" => wait = "inspect"
    BY <1>6 DEF SleepInterval, InspectFails, Broken, Tick, Become
  <2> QED
    BY <1>0, <2>1, <2>2, <2>3 DEF IInv, Fresh, Concluded, Merged, Told
<1>7. ASSUME NEW c \in Replicas, InspectContainer(c) PROVE IInv'
  BY <1>7, InspectKeeps
<1>8. CASE UNCHANGED vars
  BY <1>8 DEF vars, IInv, Fresh, TypeOK, Concluded, Merged, Told
<1> QED
  BY <1>1, <1>2, <1>3, <1>4, <1>5, <1>6, <1>7, <1>8 DEF Next, Poll

LEMMA Initially == Init => IInv
<1> SUFFICES ASSUME Init PROVE IInv
  OBVIOUS
<1>1. TypeOK
  BY HealthAssumption DEF Init, TypeOK, Nothing, NoVerdict
<1>2. Concluded /\ Fresh /\ \A s \in Deployed : Merged(s)
  BY DEF Init, Concluded, Fresh, Merged, Told, Nothing
<1> QED
  BY <1>1, <1>2 DEF IInv

LEMMA Invariance == Spec => []IInv
  BY Initially, Inductive, PTL DEF Spec

\* Type correctness; a runtime holds only what replicas can be merged to.
THEOREM HealthTyping == Spec => []TypeOK
<1>1. IInv => TypeOK
  BY DEF IInv
<1> QED
  BY <1>1, Invariance, PTL

\* What a verdict of a service comes from.
LEMMA VerdictOf ==
  ASSUME IInv, wait = "done", NEW s \in Deployed
  PROVE  /\ verdict[s] # "starting"
         /\ runtime[s] # Gone => verdict[s] # "none"
         /\ verdict[s] = "healthy" => runtime[s] # Gone /\ runtime[s].health = "healthy"
         /\ verdict[s] = "unhealthy" =>
              /\ runtime[s] # Gone
              /\ \/ runtime[s].health = "unhealthy"
                 \/ runtime[s].health = "starting" /\ clock > Timeout
         /\ runtime[s] = Gone \/ runtime[s] \in RuntimeService
<1> DEFINE h == HealthFromRuntime(runtime)
<1>1. runtime[s] = Gone \/ runtime[s] \in RuntimeService
  BY DEF IInv, TypeOK
<1>2. h[s] = IF runtime[s] = Gone THEN "none" ELSE HealthStatus(runtime[s].health)
  BY DEF HealthFromRuntime
<1>3. \/ verdict[s] = h[s] /\ verdict[s] # "starting"
      \/ verdict[s] = (IF h[s] = "starting" THEN "unhealthy" ELSE h[s]) /\ clock > Timeout
  BY DEF IInv, Concluded, MarkTimedOut, HasStarting
<1> QED
  BY <1>1, <1>2, <1>3, Data DEF HealthStatus

\* A service whose entry is unhealthy is so in the verdict.
LEMMA Unhealthy ==
  ASSUME IInv, wait = "done", NEW s \in Deployed, runtime[s] # Gone, runtime[s].health = "unhealthy"
  PROVE  verdict[s] = "unhealthy"
BY Data DEF IInv, Concluded, HealthFromRuntime, HealthStatus, MarkTimedOut

\* A service that is healthy, unhealthy or starting is not degraded: its entry
\* has the health that its replicas told.
LEMMA EntryIsTold ==
  ASSUME IInv, NEW s \in Deployed, runtime[s] \in RuntimeService, runtime[s].health # NoHealth
  PROVE  /\ Told(s) # {}
         /\ \A c \in Told(s) : inspected[c].health = runtime[s].health
BY Data DEF IInv, Merged, Differ

\* WaitForHealthy, MarkTimedOut: a verdict is conclusive, and healthy only if
\* every container inspected was.
THEOREM HealthIsConclusive == Spec => []VerdictIsConclusive
<1>1. IInv => VerdictIsConclusive
  <2> SUFFICES ASSUME IInv, wait = "done"
               PROVE  /\ ~HasStarting(verdict)
                      /\ Overall(verdict) = "healthy" =>
                           \A c \in Replicas : inspected[c] # Gone => inspected[c].health = "healthy"
    BY DEF VerdictIsConclusive
  <2>1. ~HasStarting(verdict)
    BY VerdictOf DEF HasStarting
  <2>2. ASSUME Overall(verdict) = "healthy", NEW c \in Replicas, inspected[c] # Gone
        PROVE  inspected[c].health = "healthy"
    <3>1. ServiceOf[c] \in Deployed /\ c \in Told(ServiceOf[c]) /\ runtime[ServiceOf[c]] # Gone
      BY <2>2, Data DEF IInv, Merged, Told
    <3>2. {verdict[s] : s \in Deployed} \ {"none"} = {"healthy"}
      BY <2>2 DEF Overall
    <3>3. verdict[ServiceOf[c]] = "healthy"
      BY <3>1, <3>2, VerdictOf
    <3> QED
      BY <2>2, <3>1, <3>3, VerdictOf, EntryIsTold, Data
  <2> QED
    BY <2>1, <2>2
<1> QED
  BY <1>1, Invariance, PTL

\* verify: a deployment is failed only for a container that was inspected.
THEOREM HealthFailsForAReason == Spec => []FailedForAReason
<1>1. IInv => FailedForAReason
  <2> SUFFICES ASSUME IInv, wait = "done", Overall(verdict) = "unhealthy"
               PROVE  \E c \in Replicas :
                        /\ inspected[c] # Gone
                        /\ \/ inspected[c].health = "unhealthy"
                           \/ inspected[c].health = "starting" /\ clock > Timeout
    BY DEF FailedForAReason
  <2>1. "unhealthy" \in {verdict[s] : s \in Deployed}
    BY DEF Overall
  <2>2. PICK s \in Deployed : verdict[s] = "unhealthy"
    BY <2>1
  <2>3. \E c \in Told(s) : inspected[c].health = runtime[s].health
    BY <2>2, VerdictOf, EntryIsTold, Data
  <2> QED
    BY <2>2, <2>3, VerdictOf DEF Told
<1> QED
  BY <1>1, Invariance, PTL

\* MergeRuntime: an entry is what all replicas told of status and health, or it
\* is degraded and two of them differ; an unhealthy one is not lost in it.
THEOREM HealthHidesNothing == Spec => []NoHiddenReplica
<1>1. IInv => NoHiddenReplica
  <2> SUFFICES ASSUME IInv, wait = "done", NEW c \in Replicas, inspected[c] # Gone
               PROVE  LET told == runtime[ServiceOf[c]]
                          siblings == {d \in Replicas : ServiceOf[d] = ServiceOf[c] /\ inspected[d] # Gone}
                      IN  /\ told # Gone
                          /\ \/ told.status = inspected[c].status /\ told.health = inspected[c].health
                             \/ /\ told.status = "degraded"
                                /\ \E d \in siblings : \/ inspected[d].status # inspected[c].status
                                                       \/ inspected[d].health # inspected[c].health
                          /\ inspected[c].health = "unhealthy" =>
                               told.status = "degraded" \/ verdict[ServiceOf[c]] = "unhealthy"
                          /\ \E d \in siblings : told.image = inspected[d].image
    BY DEF NoHiddenReplica
  <2> DEFINE s == ServiceOf[c]
  <2>1. s \in Deployed /\ c \in Told(s) /\ Merged(s)
    BY Data DEF IInv, Told
  <2>2. runtime[s] # Gone
    BY <2>1 DEF Merged
  <2>3. \E d \in Told(s) : runtime[s].image = inspected[d].image
    BY <2>1, <2>2 DEF Merged
  <2>4. CASE runtime[s].status # "degraded"
    <3>1. runtime[s].status = inspected[c].status /\ runtime[s].health = inspected[c].health
      BY <2>1, <2>2, <2>4 DEF Merged, Differ
    <3>2. inspected[c].health = "unhealthy" => verdict[s] = "unhealthy"
      BY <2>1, <2>2, <3>1, Unhealthy
    <3> QED
      BY <2>2, <2>3, <3>1, <3>2 DEF Told
  <2>5. CASE runtime[s].status = "degraded"
    <3>1. PICK x, y \in Told(s) : Differ(inspected[x], inspected[y])
      BY <2>1, <2>2, <2>5 DEF Merged
    <3>2. Differ(inspected[x], inspected[c]) \/ Differ(inspected[y], inspected[c])
      BY <3>1 DEF Differ
    <3>3. \E d \in Told(s) : Differ(inspected[d], inspected[c])
      BY <3>1, <3>2
    <3> QED
      BY <2>2, <2>3, <2>5, <3>3 DEF Told, Differ
  <2> QED
    BY <2>4, <2>5
<1> QED
  BY <1>1, Invariance, PTL
-----------------------------------------------------------------------------
(****************************************************************************)
(* The safety half of WaitEnds: a wait runs out of polls, and a poll out of *)
(* containers.                                                              *)
(****************************************************************************)

Waiting == wait \in {"list", "inspect"}

\* The deadline is nearer, or it is as near as before and the poll is further.
WaitForward ==
  \/ clock < clock'
  \/ clock' = clock /\ wait = "list" /\ wait' = "inspect"
  \/ /\ clock' = clock /\ wait = "inspect" /\ wait' = "inspect"
     /\ pending' \subseteq pending /\ pending' # pending

\* What a step does to a wait under way.
WaitStep ==
  /\ clock' \in clock..(Timeout + 1)
  /\ (\E c \in Replicas : Become(c)) => UNCHANGED <<wait, clock, pending>>
  /\ ~(\E c \in Replicas : Become(c)) => wait' \in {"done", "failed"} \/ WaitForward

\* WaitForHealthy: every step of a wait concludes it or brings it forward,
\* towards a deadline the clock passes by one interval at most.  Containers
\* that flap, appear or vanish meanwhile take nothing of that back.
THEOREM HealthWaitRunsOut == Spec => [][Waiting => WaitStep]_vars
<1>1. ASSUME TypeOK, Next, Waiting PROVE WaitStep
  <2> USE HealthAssumption DEF TypeOK, Waiting
  <2>1. ASSUME Tick \/ SleepInterval PROVE clock < clock' /\ clock' \in clock..(Timeout + 1)
    BY <1>1, <2>1 DEF Tick, SleepInterval, Later
  <2>2. ASSUME ListContainers \/ Settled \/ TimedOut \/ InspectFails \/ Broken
        PROVE  clock' = clock /\ (wait' \in {"done", "failed"} \/ WaitForward)
    BY <1>1, <2>2
       DEF ListContainers, Settled, TimedOut, InspectFails, Broken, Conclude, WaitForward
  <2>3. ASSUME NEW c \in Replicas, InspectContainer(c) PROVE clock' = clock /\ WaitForward
    BY <1>1, <2>3 DEF InspectContainer, WaitForward
  <2>4. ASSUME NEW c \in Replicas, Become(c) PROVE UNCHANGED <<wait, clock, pending>>
    BY <2>4 DEF Become
  <2>5. ~StartWait /\ ~EndWait
    BY <1>1 DEF StartWait, EndWait
  <2>6. clock \in 0..(Timeout + 1) /\ Timeout \in Nat
    BY <1>1
  <2>7. clock' = clock => clock' \in clock..(Timeout + 1)
    BY <2>6
  <2> QED
    BY <1>1, <2>1, <2>2, <2>3, <2>4, <2>5, <2>7 DEF Next, Poll, WaitStep, WaitForward
<1>2. TypeOK /\ [Next]_vars => [Waiting => WaitStep]_vars
  BY <1>1
<1> QED
  BY <1>2, HealthTyping, PTL DEF Spec
===============================================================================
