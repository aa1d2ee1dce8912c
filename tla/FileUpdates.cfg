SPECIFICATION FairSpec
CONSTANTS
  Workers = {health, relay}
  Periodic = {health}
  Supervisors = {connect, gain}
  NoFile = noFile
  NoThread = noThread
  Empty = empty
  MaxUpdates = 1
INVARIANTS
  TypeOK
  EmptyOnlyBySupervisors
  LossesExplained
PROPERTY WorkerFieldsRepaired
