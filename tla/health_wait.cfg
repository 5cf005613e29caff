SPECIFICATION FairSpec
CONSTANTS
  Replicas = {"web1", "web2", "job1"}
  ServiceOf <- MCServiceOf
  Images = {"new", "old"}
  Conditions <- MCConditions
  Timeout = 1
  Gone = Gone
  NoHealth = NoHealth
INVARIANTS TypeOK VerdictIsConclusive FailedForAReason NoHiddenReplica
PROPERTIES WaitEnds
