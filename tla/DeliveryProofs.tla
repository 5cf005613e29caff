---------------------------- MODULE DeliveryProofs ----------------------------
(****************************************************************************)
(* What holds of the deliveries of a process however many events it         *)
(* publishes, with any number of slots and of retries.                      *)
(*                                                                          *)
(* The invariant has two parts.  One speaks of each event by itself (Kept): *)
(* how many requests it may still cost, and which answer or report explains *)
(* that its delivery has ended.  The other counts: a token is in the        *)
(* channel for each delivery in flight.                                     *)
(****************************************************************************)
EXTENDS Delivery, FiniteSetTheorems, TLAPS

\* An event is either not yet published; dropped, and the sink told; being
\* delivered, with requests left; or ended with an answer or a report.
Kept(e) ==
  /\ e > published => stage[e] = "none"
  /\ stage[e] = "none" => posts[e] = 0
  /\ stage[e] = "none" /\ e <= published => e \in sink
  /\ stage[e] \in {"due", "sleeping"} => posts[e] <= MaxRetries
  /\ stage[e] = "sleeping" => posts[e] > 0
  /\ accepted[e] <= posts[e]
  /\ stage[e] = "posted" => accepted[e] < posts[e]
  /\ answer[e] # "none" => stage[e] \in {"failed", "ending", "done"}
  /\ answer[e] = "ok" => accepted[e] > 0
  /\ stage[e] \in {"ending", "done"} => answer[e] = "ok" \/ e \in sink

IInv == TypeOK /\ SlotsAreInFlight /\ \A e \in Event : Kept(e)

\* A delivery that goes on to another stage of its life keeps its slot.
LEMMA GoesOn ==
  ASSUME TypeOK, NEW e \in Event, stage[e] \in Busy, NEW s \in Busy,
         stage' = [stage EXCEPT ![e] = s]
  PROVE  InFlight' = InFlight
BY DEF TypeOK, InFlight

LEMMA FiniteFlight == IsFiniteSet(InFlight) /\ Cardinality(InFlight) \in Nat
<1>1. IsFiniteSet(Event)
  BY DeliveryAssumption, FS_Interval DEF Event
<1> QED
  BY <1>1, FS_Subset, FS_CardinalityType DEF InFlight

\* The steps of a delivery under way, but for its release.
LEMMA DeliverKeeps ==
  ASSUME IInv, NEW e \in Event,
         \/ Attempt(e) \/ Accepted(e) \/ Rejected(e) \/ Unheard(e) \/ Sleep(e) \/ Report(e)
  PROVE  IInv'
<1> USE DeliveryAssumption
<1>0. /\ stage[e] \in Busy /\ UNCHANGED <<published, slots>>
      /\ process' = process
      /\ \E s \in Busy : stage' = [stage EXCEPT ![e] = s]
  BY DEF Attempt, Accepted, Rejected, Unheard, Sleep, Report, Alive, To, Again, Busy
<1>1. SlotsAreInFlight'
  <2>1. InFlight' = InFlight
    BY <1>0, GoesOn DEF IInv
  <2> QED
    BY <1>0, <2>1 DEF IInv, SlotsAreInFlight
<1>2. TypeOK' /\ \A x \in Event : Kept(x)'
  <2> USE DEF IInv, TypeOK, Kept, Alive, To, Stages
  <2>1. CASE Attempt(e)
    BY <2>1 DEF Attempt
  <2>2. CASE Accepted(e)
    BY <2>2 DEF Accepted
  <2>3. CASE Rejected(e)
    BY <2>3 DEF Rejected
  <2>4. CASE Unheard(e)
    BY <2>4 DEF Unheard, Again
  <2>5. CASE Sleep(e)
    BY <2>5 DEF Sleep, Doubled
  <2>6. CASE Report(e)
    BY <2>6 DEF Report
  <2> QED
    BY <2>1, <2>2, <2>3, <2>4, <2>5, <2>6
<1> QED
  BY <1>1, <1>2 DEF IInv

\* The release gives back the one slot of its delivery.
LEMMA ReleaseKeeps ==
  ASSUME IInv, NEW e \in Event, Release(e)
  PROVE  IInv'
<1> USE DeliveryAssumption
<1>1. e \in InFlight /\ InFlight' = InFlight \ {e}
  BY DEF Release, Alive, To, InFlight, Busy, IInv, TypeOK
<1>2. Cardinality(InFlight') = Cardinality(InFlight) - 1
  BY <1>1, FiniteFlight, FS_RemoveElement
<1>3. Cardinality(InFlight) # 0
  BY <1>1, FiniteFlight, FS_EmptySet
<1>4. SlotsAreInFlight' /\ slots' \in 0..Slots
  BY <1>2, <1>3, FiniteFlight DEF Release, IInv, SlotsAreInFlight, TypeOK
<1>5. TypeOK' /\ \A x \in Event : Kept(x)'
  BY <1>4 DEF Release, Alive, To, IInv, TypeOK, Kept, Stages
<1> QED
  BY <1>4, <1>5 DEF IInv

\* An event is given a slot that was free, or dropped and reported.
LEMMA PublishKeeps ==
  ASSUME IInv, Publish
  PROVE  IInv'
<1> USE DeliveryAssumption
<1> DEFINE n == published + 1
<1>1. n \in Event /\ stage[n] = "none" /\ published' = n
  BY DEF Publish, IInv, TypeOK, Kept, Event
<1>2. CASE slots < Slots /\ slots' = slots + 1 /\ To(n, "due") /\ UNCHANGED sink
  <2>1. n \notin InFlight /\ InFlight' = InFlight \cup {n}
    BY <1>1, <1>2 DEF To, InFlight, Busy, IInv, TypeOK
  <2>2. Cardinality(InFlight') = Cardinality(InFlight) + 1
    BY <2>1, FiniteFlight, FS_AddElement
  <2>3. SlotsAreInFlight' /\ slots' \in 0..Slots
    BY <1>2, <2>2 DEF IInv, SlotsAreInFlight, TypeOK
  <2> QED
    BY <1>1, <1>2, <2>3 DEF Publish, To, IInv, TypeOK, Kept, Event, Stages
<1>3. CASE sink' = sink \cup {n} /\ UNCHANGED <<slots, stage>>
  <2>1. InFlight' = InFlight
    BY <1>3 DEF InFlight
  <2> QED
    BY <1>1, <1>3, <2>1 DEF Publish, IInv, TypeOK, SlotsAreInFlight, Kept, Event
<1> QED
  BY <1>2, <1>3 DEF Publish

LEMMA Inductive == IInv /\ [Next]_vars => IInv'
<1> SUFFICES ASSUME IInv, [Next]_vars PROVE IInv'
  OBVIOUS
<1>1. CASE Publish
  BY <1>1, PublishKeeps
<1>2. ASSUME NEW e \in Event, Deliver(e) PROVE IInv'
  BY <1>2, DeliverKeeps, ReleaseKeeps DEF Deliver
<1>3. CASE Interrupt \/ Exit \/ UNCHANGED vars
  <2>1. /\ UNCHANGED <<published, slots, stage, posts, backoff, accepted, answer, sink>>
        /\ process' \in {process, "interrupted", "exited"}
    BY <1>3 DEF Interrupt, Exit, vars
  <2>2. InFlight' = InFlight
    BY <2>1 DEF InFlight
  <2> QED
    BY <2>1, <2>2 DEF IInv, TypeOK, SlotsAreInFlight, Kept
<1> QED
  BY <1>1, <1>2, <1>3 DEF Next

LEMMA Initially == Init => IInv
<1> SUFFICES ASSUME Init PROVE IInv
  OBVIOUS
<1> USE DeliveryAssumption
<1>1. InFlight = {} /\ Cardinality(InFlight) = 0
  BY FS_EmptySet DEF Init, InFlight, Busy
<1> QED
  BY <1>1 DEF Init, IInv, TypeOK, SlotsAreInFlight, Kept, Stages, Event

LEMMA Invariance == Spec => []IInv
  BY Initially, Inductive, PTL DEF Spec

\* Type correctness: in particular no event costs more than MaxRetries + 1
\* requests, and the channel never holds more tokens than it has room for.
THEOREM DeliveryTyping == Spec => []TypeOK
<1>1. IInv => TypeOK
  BY DEF IInv
<1> QED
  BY <1>1, Invariance, PTL

\* Handle, deliverAsync: the tokens in the channel are the deliveries in
\* flight, so no slot leaks and none is freed twice.
THEOREM DeliverySlots == Spec => []SlotsAreInFlight
<1>1. IInv => SlotsAreInFlight
  BY DEF IInv
<1> QED
  BY <1>1, Invariance, PTL

\* Handle, deliver: every published event is in flight, accepted or reported.
THEOREM DeliveryIsTold == Spec => []NothingIsSilent
<1>1. IInv => NothingIsSilent
  <2> SUFFICES ASSUME IInv, NEW e \in 1..published
               PROVE  e \in InFlight \/ (answer[e] = "ok" /\ accepted[e] > 0) \/ e \in sink
    BY DEF NothingIsSilent
  <2>1. e \in Event /\ e <= published
    BY DeliveryAssumption DEF Event, IInv, TypeOK
  <2>2. stage[e] \in Busy \cup {"none", "done"}
    BY <2>1 DEF IInv, TypeOK, Stages, Busy
  <2> QED
    BY <2>1, <2>2 DEF IInv, Kept, InFlight
<1> QED
  BY <1>1, Invariance, PTL

\* deliver: no request follows a conclusive answer, and the receiver processes
\* none beyond the attempts allowed.
THEOREM DeliveryRetries == Spec => NoRetryAfterAnswer
<1> DEFINE Step ==
      \A e \in Event :
        /\ answer[e] # "none" => posts'[e] = posts[e]
        /\ accepted'[e] > accepted[e] => posts[e] <= MaxRetries + 1
<1>1. IInv /\ [Next]_vars => [Step]_vars
  <2> SUFFICES ASSUME IInv, Next, NEW e \in Event
               PROVE  /\ answer[e] # "none" => posts'[e] = posts[e]
                      /\ posts[e] <= MaxRetries + 1
    BY DEF vars
  <2>1. posts[e] <= MaxRetries + 1
    BY DeliveryAssumption DEF IInv, TypeOK
  <2>2. ASSUME NEW x \in Event, Attempt(x), answer[e] # "none" PROVE posts'[e] = posts[e]
    BY <2>2 DEF Attempt, Alive, To, IInv, TypeOK, Kept
  <2>3. (~ \E x \in Event : Attempt(x)) => posts' = posts
    BY DEF Next, Deliver, Publish, Interrupt, Exit, Accepted, Rejected, Unheard, Sleep,
           Report, Release
  <2> QED
    BY <2>1, <2>2, <2>3
<1> QED
  BY <1>1, Invariance, PTL DEF Spec, NoRetryAfterAnswer
-----------------------------------------------------------------------------
(****************************************************************************)
(* The safety half of CapacityReturns: a delivery runs out of steps.  How   *)
(* many it has left at most follows from its stage and from the requests it *)
(* may still send.                                                          *)
(****************************************************************************)

Requests(e) == MaxRetries + 1 - posts[e]

StepsLeft(e) ==
  CASE stage[e] = "due"      -> 3 * Requests(e) + 3
    [] stage[e] = "posted"   -> 3 * Requests(e) + 5
    [] stage[e] = "sleeping" -> 3 * Requests(e) + 4
    [] stage[e] = "failed"   -> 2
    [] stage[e] = "ending"   -> 1
    [] stage[e] \in {"none", "done"} -> 0

LEMMA StepsLeftBound ==
  ASSUME IInv, NEW e \in InFlight
  PROVE  StepsLeft(e) \in 1..(3 * MaxRetries + 6)
<1>1. e \in Event /\ stage[e] \in Busy /\ TypeOK /\ Kept(e)
  BY DEF InFlight, IInv
<1>2. posts[e] \in 0..(MaxRetries + 1) /\ accepted[e] \in Nat
  BY <1>1, DeliveryAssumption DEF TypeOK
<1>3. Requests(e) \in 0..(MaxRetries + 1)
  BY <1>2, DeliveryAssumption DEF Requests
<1>4. stage[e] \in {"posted", "sleeping"} => Requests(e) <= MaxRetries
  BY <1>1, <1>2, DeliveryAssumption DEF Kept, Requests
<1> QED
  BY <1>1, <1>3, <1>4, DeliveryAssumption DEF Busy, StepsLeft

LEMMA DeliverSpends ==
  ASSUME IInv, NEW e \in Event, Deliver(e)
  PROVE  /\ StepsLeft(e)' < StepsLeft(e)
         /\ \A x \in Event \ {e} : stage'[x] = stage[x] /\ posts'[x] = posts[x]
<1> USE DeliveryAssumption DEF IInv, TypeOK, Stages, Kept, Alive, To, StepsLeft, Requests
<1>1. CASE Attempt(e)
  BY <1>1 DEF Attempt
<1>2. CASE Accepted(e)
  BY <1>2 DEF Accepted
<1>3. CASE Rejected(e)
  BY <1>3 DEF Rejected
<1>4. CASE Unheard(e)
  BY <1>4 DEF Unheard, Again
<1>5. CASE Sleep(e)
  BY <1>5 DEF Sleep
<1>6. CASE Report(e)
  BY <1>6 DEF Report
<1>7. CASE Release(e)
  BY <1>7 DEF Release
<1> QED
  BY <1>1, <1>2, <1>3, <1>4, <1>5, <1>6, <1>7 DEF Deliver

\* deliver: whatever the receiver does, a delivery under way takes at most
\* 3 * MaxRetries + 6 steps more, each of its own steps takes one off, and
\* nothing that others do gives it one back.
THEOREM DeliveryRunsOut ==
  Spec => [][\A e \in InFlight :
               /\ StepsLeft(e) \in 1..(3 * MaxRetries + 6)
               /\ Deliver(e) => StepsLeft(e)' < StepsLeft(e)
               /\ ~Deliver(e) => StepsLeft(e)' = StepsLeft(e)]_vars
<1> DEFINE Spends(e) == /\ StepsLeft(e) \in 1..(3 * MaxRetries + 6)
                        /\ Deliver(e) => StepsLeft(e)' < StepsLeft(e)
                        /\ ~Deliver(e) => StepsLeft(e)' = StepsLeft(e)
<1>1. ASSUME IInv, Next, NEW e \in InFlight PROVE Spends(e)
  <2>1. e \in Event /\ stage[e] \in Busy /\ TypeOK
    BY <1>1 DEF InFlight, IInv
  <2>2. StepsLeft(e) \in 1..(3 * MaxRetries + 6)
    BY <1>1, StepsLeftBound
  <2>3. ASSUME ~Deliver(e) PROVE stage'[e] = stage[e] /\ posts'[e] = posts[e]
    <3>1. CASE Publish
      <4>1. published + 1 \in Event /\ stage[published + 1] = "none"
        BY <1>1, <3>1, DeliveryAssumption DEF Publish, IInv, TypeOK, Kept, Event
      <4>2. e # published + 1
        BY <2>1, <4>1 DEF Busy
      <4> QED
        BY <2>1, <3>1, <4>2 DEF Publish, To, TypeOK
    <3>2. CASE Interrupt \/ Exit
      BY <3>2 DEF Interrupt, Exit
    <3>3. ASSUME NEW x \in Event, Deliver(x) PROVE stage'[e] = stage[e] /\ posts'[e] = posts[e]
      BY <1>1, <2>1, <2>3, <3>3, DeliverSpends
    <3> QED
      BY <1>1, <3>1, <3>2, <3>3 DEF Next
  <2>4. ~Deliver(e) => StepsLeft(e)' = StepsLeft(e)
    BY <2>3 DEF StepsLeft, Requests
  <2> QED
    BY <1>1, <2>1, <2>2, <2>4, DeliverSpends
<1>2. IInv /\ [Next]_vars => [\A e \in InFlight : Spends(e)]_vars
  BY <1>1
<1> QED
  BY <1>2, Invariance, PTL DEF Spec
===============================================================================
