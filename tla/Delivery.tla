------------------------------- MODULE Delivery -------------------------------
(****************************************************************************)
(* Notifications of one project: the event bus (internal/core/events) calls *)
(* the webhook consumer (internal/notifications/webhook) synchronously from *)
(* the reconcile loop, and the consumer delivers each event in a goroutine  *)
(* of its own.  Deliveries share a bounded number of slots, retry with a    *)
(* growing delay, and die with the process, which waits for none of them.   *)
(*                                                                          *)
(* An event is its number in the order of publication.  The receiver is the *)
(* environment: it may process a request and still not be heard.            *)
(****************************************************************************)
EXTENDS Naturals, FiniteSets

CONSTANTS
  Events,      \* how many events the process publishes, if it is not interrupted
  Slots,       \* maxConcurrentDeliveries
  MaxRetries,  \* webhooks.max_retries, as validated and defaulted
  MinBackoff, MaxBackoff

ASSUME DeliveryAssumption ==
  /\ Events \in Nat /\ MaxRetries \in Nat
  /\ Slots \in Nat \ {0}
  /\ MinBackoff \in Nat \ {0} /\ MaxBackoff \in Nat /\ MinBackoff <= MaxBackoff

VARIABLES
  process,    \* "running", "interrupted" (its context is cancelled), "exited"
  published,  \* events handed to the bus so far
  slots,      \* Consumer.sem: tokens in the channel
  stage,      \* stage[e]: where the delivery of e is
  posts,      \* posts[e]: requests sent for e
  backoff,    \* backoff[e]: the delay before the next request
  accepted,   \* accepted[e]: times the receiver processed e
  answer,     \* answer[e]: the conclusive answer the consumer got, if any
  sink        \* events whose failure or drop the error sink was told

vars == <<process, published, slots, stage, posts, backoff, accepted, answer, sink>>

Event == 1..Events

\* "due" is the head of the retry loop; the goroutine has ended at "done".
Stages == {"none", "due", "posted", "sleeping", "failed", "ending", "done"}

Busy == {"due", "posted", "sleeping", "failed", "ending"}
InFlight == {e \in Event : stage[e] \in Busy}

Init ==
  /\ process = "running"
  /\ published = 0
  /\ slots = 0
  /\ stage = [e \in Event |-> "none"]
  /\ posts = [e \in Event |-> 0]
  /\ backoff = [e \in Event |-> MinBackoff]
  /\ accepted = [e \in Event |-> 0]
  /\ answer = [e \in Event |-> "none"]
  /\ sink = {}

To(e, s) == stage' = [stage EXCEPT ![e] = s]
-----------------------------------------------------------------------------
(* Handle, on the publisher's goroutine. *)

\* Mutant: an event that finds no slot is dropped without a word.
PublishSilently ==
  /\ process # "exited" /\ published < Events
  /\ published' = published + 1
  /\ \/ /\ slots < Slots
        /\ slots' = slots + 1
        /\ To(published + 1, "due")
     \/ /\ slots >= Slots
        /\ UNCHANGED <<slots, stage>>
  /\ UNCHANGED <<process, posts, backoff, accepted, answer, sink>>

\* Publish calls Handle, which takes a slot and starts the goroutine, or drops
\* the event and tells the error sink.
Publish ==
  /\ process # "exited" /\ published < Events
  /\ published' = published + 1
  /\ \/ /\ slots < Slots
        /\ slots' = slots + 1
        /\ To(published + 1, "due")
        /\ UNCHANGED sink
     \/ /\ slots >= Slots
        /\ sink' = sink \cup {published + 1}
        /\ UNCHANGED <<slots, stage>>
  /\ UNCHANGED <<process, posts, backoff, accepted, answer>>
-----------------------------------------------------------------------------
(* deliver, on the goroutine of one event. *)

Alive(e, s) == process # "exited" /\ stage[e] = s

\* The head of the loop: a cancelled context ends it, else a request goes out.
Attempt(e) ==
  /\ Alive(e, "due")
  /\ \/ /\ process = "interrupted"
        /\ To(e, "failed")
        /\ UNCHANGED posts
     \/ /\ process = "running"
        /\ To(e, "posted")
        /\ posts' = [posts EXCEPT ![e] = @ + 1]
  /\ UNCHANGED <<process, published, slots, backoff, accepted, answer, sink>>

\* Mutant: attempts are counted from zero.
RetryOrFail(e) == To(e, IF posts[e] > MaxRetries + 1 THEN "failed" ELSE "sleeping")

\* A retryable failure: sleep, unless this was the last attempt.
Again(e) == To(e, IF posts[e] = MaxRetries + 1 THEN "failed" ELSE "sleeping")

\* The receiver processes the request and its 2xx arrives.
Accepted(e) ==
  /\ Alive(e, "posted")
  /\ accepted' = [accepted EXCEPT ![e] = @ + 1]
  /\ answer' = [answer EXCEPT ![e] = "ok"]
  /\ To(e, "ending")
  /\ UNCHANGED <<process, published, slots, posts, backoff, sink>>

\* Mutant: every status but 2xx is retried.
RejectedRetried(e) ==
  /\ Alive(e, "posted")
  /\ answer' = [answer EXCEPT ![e] = "rejected"]
  /\ Again(e)
  /\ UNCHANGED <<process, published, slots, posts, backoff, accepted, sink>>

\* 4xx: not retryable.
Rejected(e) ==
  /\ Alive(e, "posted")
  /\ answer' = [answer EXCEPT ![e] = "rejected"]
  /\ To(e, "failed")
  /\ UNCHANGED <<process, published, slots, posts, backoff, accepted, sink>>

\* 5xx, 429, a redirect, no connection, the client's timeout or a cancelled
\* request: retryable.  The receiver may have processed it all the same.
Unheard(e) ==
  /\ Alive(e, "posted")
  /\ accepted' \in {accepted, [accepted EXCEPT ![e] = @ + 1]}
  /\ Again(e)
  /\ UNCHANGED <<process, published, slots, posts, backoff, answer, sink>>

Doubled(d) == IF 2 * d > MaxBackoff THEN MaxBackoff ELSE 2 * d

\* The delay ends, or the context is cancelled during it.
Sleep(e) ==
  /\ Alive(e, "sleeping")
  /\ \/ /\ To(e, "due")
        /\ backoff' = [backoff EXCEPT ![e] = Doubled(@)]
     \/ /\ process = "interrupted"
        /\ To(e, "failed")
        /\ UNCHANGED backoff
  /\ UNCHANGED <<process, published, slots, posts, accepted, answer, sink>>

\* Mutant: a failed delivery returns past the release of its slot.
ReportAndReturn(e) ==
  /\ Alive(e, "failed")
  /\ sink' = sink \cup {e}
  /\ To(e, "done")
  /\ UNCHANGED <<process, published, slots, posts, backoff, accepted, answer>>

\* deliverAsync tells the sink, still holding its slot.
Report(e) ==
  /\ Alive(e, "failed")
  /\ sink' = sink \cup {e}
  /\ To(e, "ending")
  /\ UNCHANGED <<process, published, slots, posts, backoff, accepted, answer>>

\* The deferred release.
Release(e) ==
  /\ Alive(e, "ending")
  /\ slots' = slots - 1
  /\ To(e, "done")
  /\ UNCHANGED <<process, published, posts, backoff, accepted, answer, sink>>
-----------------------------------------------------------------------------
\* SIGINT or SIGTERM cancels the context of the command, and so of every event.
Interrupt ==
  /\ process = "running"
  /\ process' = "interrupted"
  /\ UNCHANGED <<published, slots, stage, posts, backoff, accepted, answer, sink>>

\* The command returns: a one-shot sync after its last event, a watch after it
\* was interrupted.  It unsubscribes and exits; what is in flight ends nowhere.
Exit ==
  /\ \/ process = "running" /\ published = Events
     \/ process = "interrupted"
  /\ process' = "exited"
  /\ UNCHANGED <<published, slots, stage, posts, backoff, accepted, answer, sink>>

Deliver(e) ==
  \/ Attempt(e) \/ Accepted(e) \/ Rejected(e) \/ Unheard(e) \/ Sleep(e)
  \/ Report(e) \/ Release(e)

Next == Publish \/ Interrupt \/ Exit \/ \E e \in Event : Deliver(e)

Spec == Init /\ [][Next]_vars

\* The reconcile loop runs on; a goroutine is scheduled, and a request ends by
\* its answer or by the client's timeout.
FairSpec == Spec /\ WF_vars(Publish) /\ \A e \in Event : WF_vars(Deliver(e))
-----------------------------------------------------------------------------
TypeOK ==
  /\ process \in {"running", "interrupted", "exited"}
  /\ published \in 0..Events
  /\ slots \in 0..Slots
  /\ stage \in [Event -> Stages]
  /\ posts \in [Event -> 0..(MaxRetries + 1)]
  /\ backoff \in [Event -> MinBackoff..MaxBackoff]
  /\ accepted \in [Event -> 0..(MaxRetries + 1)]
  /\ answer \in [Event -> {"none", "ok", "rejected"}]
  /\ sink \in SUBSET Event

\* maxConcurrentDeliveries: "bounds the number of in-flight delivery
\* goroutines", and a slot is held exactly as long as one runs.
SlotsAreInFlight == slots = Cardinality(InFlight) /\ slots <= Slots

\* "a delivery error is reported to the error sink": an event published so far
\* is still being delivered, was processed by the receiver, or is known to the
\* sink.  Only the exit of the process ends a delivery otherwise, which is why
\* an event in flight at that moment may be lost silently.
NothingIsSilent ==
  \A e \in 1..published :
    e \in InFlight \/ (answer[e] = "ok" /\ accepted[e] > 0) \/ e \in sink

\* deliver retries "transient failures up to MaxRetries times", and no event
\* is sent again after a conclusive answer: a receiver that is heard processes
\* it once, one that is not at most MaxRetries + 1 times.
NoRetryAfterAnswer ==
  [][\A e \in Event :
       /\ answer[e] # "none" => posts'[e] = posts[e]
       /\ accepted'[e] > accepted[e] => posts[e] <= MaxRetries + 1]_vars

\* Capacity comes back: a slow or failing receiver cannot use up the slots for
\* good.
CapacityReturns == (slots = Slots) ~> (slots < Slots \/ process = "exited")
===============================================================================
