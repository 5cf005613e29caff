----------------------------- MODULE MCHealthWait -----------------------------
(* Small instance of HealthWait: a function and a set that a .cfg cannot write. *)
EXTENDS HealthWait

\* Two replicas of one service and one of another.
MCServiceOf == [c \in {"web1", "web2", "job1"} |-> IF c = "job1" THEN "job" ELSE "web"]

\* A container with a health check runs in any state of it; one without has
\* ended.  A healthy one may be of the image that was there before.
MCConditions ==
  [status : {"running"}, image : {"new"}, health : {"starting", "healthy", "unhealthy"}]
    \cup [status : {"running"}, image : {"old"}, health : {"healthy"}]
    \cup [status : {"exited"}, image : {"new"}, health : {NoHealth}]
=============================================================================
