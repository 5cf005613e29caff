------------------------------ MODULE HealthWait ------------------------------
(****************************************************************************)
(* Verification of a deployment (internal/docker: Health, Current and the   *)
(* merging of replicas): the runtime is polled, container after container,  *)
(* until no service is starting or the timeout has passed.  Containers      *)
(* change between any two calls to the engine, and so does the clock.       *)
(****************************************************************************)
EXTENDS Naturals

CONSTANTS
  Replicas,    \* the containers of the project
  ServiceOf,   \* ServiceOf[c]: the service container c belongs to
  Images,      \* the images containers run
  Conditions,  \* what the engine may report of a container
  Timeout,     \* the health timeout, in poll intervals
  Gone, NoHealth

ASSUME HealthAssumption ==
  /\ DOMAIN ServiceOf = Replicas
  /\ Timeout \in Nat
  /\ Conditions \subseteq [status : {"running", "exited"}, image : Images,
                            health : {NoHealth, "starting", "healthy", "unhealthy"}]
  /\ Gone \notin [status : {"running", "exited", "degraded"}, image : Images,
                  health : {NoHealth, "starting", "healthy", "unhealthy"}]
  /\ NoHealth \notin {"starting", "healthy", "unhealthy", "unknown", "none"}

VARIABLES
  wait,      \* where WaitForHealthy is
  clock,     \* intervals passed since the wait began; Timeout + 1 is past the deadline
  engine,    \* engine[c]: the container as the engine would report it
  pending,   \* containers of the list not yet inspected
  inspected, \* inspected[c]: what the inspection of this poll told, for the properties
  runtime,   \* runtime[s]: RuntimeState.Services
  verdict    \* the Health returned: a status for each service, or none yet

vars == <<wait, clock, engine, pending, inspected, runtime, verdict>>

Deployed == {ServiceOf[c] : c \in Replicas}
Status == {"unknown", "healthy", "unhealthy", "starting"}

\* A service's replicas merged into one condition.
RuntimeService ==
  Conditions \cup [status : {"degraded"}, image : Images, health : {NoHealth}]

Nothing == [s \in Deployed |-> Gone]
NoVerdict == [s \in Deployed |-> "none"]

Init ==
  /\ wait = "off" /\ clock = 0
  /\ engine = [c \in Replicas |-> Gone]
  /\ pending = {}
  /\ inspected = [c \in Replicas |-> Gone]
  /\ runtime = Nothing
  /\ verdict = NoVerdict
-----------------------------------------------------------------------------
\* Mutant: the last replica wins.
MergeLast(a, b) == b

\* MergeRuntime: replicas that disagree on status or health make the service
\* degraded.  Their images are not compared; the first one's is kept.
MergeRuntime(a, b) ==
  IF a.status # b.status \/ a.health # b.health
  THEN [status |-> "degraded", image |-> a.image, health |-> NoHealth]
  ELSE a

\* Mutant: a container without a health check is not told apart.
HealthStatusRaw(h) == h

\* HealthStatus
HealthStatus(h) == IF h = NoHealth THEN "unknown" ELSE h

\* HealthFromRuntime: a service without a container has no entry.
HealthFromRuntime(r) ==
  [s \in Deployed |-> IF r[s] = Gone THEN "none" ELSE HealthStatus(r[s].health)]

HasStarting(h) == \E s \in Deployed : h[s] = "starting"

\* Mutant: the deadline passes and nothing is marked.
MarkNothing(h) == h

MarkTimedOut(h) == [s \in Deployed |-> IF h[s] = "starting" THEN "unhealthy" ELSE h[s]]

\* Summarize
Overall(h) ==
  LET told == {h[s] : s \in Deployed} \ {"none"}
  IN  CASE told = {}           -> "unknown"
        [] "unhealthy" \in told -> "unhealthy"
        [] "unhealthy" \notin told /\ "starting" \in told -> "starting"
        [] told = {"healthy"}  -> "healthy"
        [] OTHER               -> "unknown"
-----------------------------------------------------------------------------
\* Health is called after Apply, whatever state its containers are in.
StartWait ==
  /\ wait = "off"
  /\ engine' \in [Replicas -> Conditions \cup {Gone}]
  /\ wait' = "list" /\ clock' = 0
  /\ verdict' = NoVerdict
  /\ UNCHANGED <<pending, inspected, runtime>>

\* Current lists the containers of the project...
ListContainers ==
  /\ wait = "list"
  /\ pending' = {c \in Replicas : engine[c] # Gone}
  /\ inspected' = [c \in Replicas |-> Gone]
  /\ runtime' = Nothing
  /\ wait' = "inspect"
  /\ UNCHANGED <<clock, engine, verdict>>

\* ... and inspects them one by one.
InspectContainer(c) ==
  /\ wait = "inspect" /\ c \in pending /\ engine[c] # Gone
  /\ pending' = pending \ {c}
  /\ inspected' = [inspected EXCEPT ![c] = engine[c]]
  /\ runtime' = [runtime EXCEPT ![ServiceOf[c]] =
       IF @ = Gone THEN engine[c] ELSE MergeRuntime(@, engine[c])]
  /\ UNCHANGED <<wait, clock, engine, verdict>>

Read == wait = "inspect" /\ pending = {}

Conclude(h) == wait' = "done" /\ verdict' = h

\* No service is starting: the wait ends.
Settled ==
  /\ Read /\ ~HasStarting(HealthFromRuntime(runtime))
  /\ Conclude(HealthFromRuntime(runtime))
  /\ UNCHANGED <<clock, engine, pending, inspected, runtime>>

\* Mutant: the deadline is only looked at when the services have settled.
TimedOutNever ==
  /\ Read /\ ~HasStarting(HealthFromRuntime(runtime)) /\ clock > Timeout
  /\ Conclude(HealthFromRuntime(runtime))
  /\ UNCHANGED <<clock, engine, pending, inspected, runtime>>

\* Mutant: the deadline is not looked at.
TimedOutEarly ==
  /\ Read /\ HasStarting(HealthFromRuntime(runtime))
  /\ Conclude(MarkTimedOut(HealthFromRuntime(runtime)))
  /\ UNCHANGED <<clock, engine, pending, inspected, runtime>>

\* Some service still is, after the deadline.
TimedOut ==
  /\ Read /\ HasStarting(HealthFromRuntime(runtime)) /\ clock > Timeout
  /\ Conclude(MarkTimedOut(HealthFromRuntime(runtime)))
  /\ UNCHANGED <<clock, engine, pending, inspected, runtime>>

Later == clock' = IF clock > Timeout THEN clock ELSE clock + 1

\* SleepCtx, for one interval.
SleepInterval ==
  /\ Read /\ HasStarting(HealthFromRuntime(runtime)) /\ clock <= Timeout
  /\ wait' = "list"
  /\ Later
  /\ UNCHANGED <<engine, pending, inspected, runtime, verdict>>

\* A container of the list is gone: Current fails, the deployment is not verified.
InspectFails ==
  /\ wait = "inspect" /\ \E c \in pending : engine[c] = Gone
  /\ wait' = "failed"
  /\ UNCHANGED <<clock, engine, pending, inspected, runtime, verdict>>

\* A call to the engine fails, or the context is cancelled during it or during
\* the sleep.
Broken ==
  /\ wait \in {"list", "inspect"}
  /\ wait' = "failed"
  /\ UNCHANGED <<clock, engine, pending, inspected, runtime, verdict>>

\* The cycle goes on with the verdict or fails without one.
EndWait ==
  /\ wait \in {"done", "failed"}
  /\ wait' = "off" /\ clock' = 0
  /\ engine' = [c \in Replicas |-> Gone]
  /\ pending' = {} /\ inspected' = [c \in Replicas |-> Gone]
  /\ runtime' = Nothing /\ verdict' = NoVerdict

\* The engine: a container changes, is removed or comes up.  One that was listed
\* and removed is inspected by its ID, under which no other comes up.
Become(c) ==
  /\ wait \in {"list", "inspect"} /\ (c \in pending => engine[c] # Gone)
  /\ \E r \in Conditions \cup {Gone} : engine' = [engine EXCEPT ![c] = r]
  /\ UNCHANGED <<wait, clock, pending, inspected, runtime, verdict>>

\* Time passes during the calls.
Tick ==
  /\ wait \in {"list", "inspect"} /\ clock <= Timeout
  /\ Later
  /\ UNCHANGED <<wait, engine, pending, inspected, runtime, verdict>>

Poll ==
  \/ ListContainers \/ Settled \/ TimedOut \/ SleepInterval \/ InspectFails
  \/ \E c \in Replicas : InspectContainer(c)
Next ==
  \/ StartWait \/ Poll \/ Broken \/ EndWait \/ Tick
  \/ \E c \in Replicas : Become(c)

Spec == Init /\ [][Next]_vars

\* The process runs on, and a call to the engine returns.
FairSpec == Spec /\ WF_vars(StartWait \/ Poll \/ EndWait)
-----------------------------------------------------------------------------
TypeOK ==
  /\ wait \in {"off", "list", "inspect", "done", "failed"}
  /\ clock \in 0..(Timeout + 1)
  /\ engine \in [Replicas -> Conditions \cup {Gone}]
  /\ pending \subseteq Replicas
  /\ inspected \in [Replicas -> Conditions \cup {Gone}]
  /\ runtime \in [Deployed -> RuntimeService \cup {Gone}]
  /\ verdict \in [Deployed -> Status \cup {"none"}]

\* The verdict of a wait never says "starting" (MarkTimedOut), and if it says
\* that all is healthy then every container that was inspected in the last poll
\* was healthy, replicas that disagree included.
VerdictIsConclusive ==
  wait = "done" =>
    /\ ~HasStarting(verdict)
    /\ Overall(verdict) = "healthy" =>
         \A c \in Replicas : inspected[c] # Gone => inspected[c].health = "healthy"

\* A deployment is failed for a container of this poll: one that was inspected
\* unhealthy, or starting after the deadline.
FailedForAReason ==
  wait = "done" /\ Overall(verdict) = "unhealthy" =>
    \E c \in Replicas :
      /\ inspected[c] # Gone
      /\ \/ inspected[c].health = "unhealthy"
         \/ inspected[c].health = "starting" /\ clock > Timeout

\* Current: when "the replicas' runtime states disagree [...] Current reports a
\* degraded status rather than silently letting the last container win, so
\* per-replica drift is not hidden".  So it is with status and health, in
\* whatever order the replicas are inspected and however many there are: an
\* entry shows what all of them told or is degraded, it is degraded only if two
\* of them differ, and an unhealthy one fails its service unless the entry is
\* degraded.  Of the images the entry has one, which need not be that of all.
NoHiddenReplica ==
  wait = "done" =>
    \A c \in Replicas : inspected[c] # Gone =>
      LET told == runtime[ServiceOf[c]]
          siblings == {d \in Replicas : ServiceOf[d] = ServiceOf[c] /\ inspected[d] # Gone}
      IN  /\ told # Gone
          /\ \/ told.status = inspected[c].status /\ told.health = inspected[c].health
             \/ /\ told.status = "degraded"
                /\ \E d \in siblings : \/ inspected[d].status # inspected[c].status
                                       \/ inspected[d].health # inspected[c].health
          /\ inspected[c].health = "unhealthy" =>
               told.status = "degraded" \/ verdict[ServiceOf[c]] = "unhealthy"
          /\ \E d \in siblings : told.image = inspected[d].image

\* WaitForHealthy ends, whether the containers settle, flap for ever or vanish.
WaitEnds == (wait = "list") ~> (wait \in {"done", "failed"})
=============================================================================
