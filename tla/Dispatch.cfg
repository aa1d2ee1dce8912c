SPECIFICATION FairSpec
CONSTANTS
  MetaProducers = {meta}
  SidecarProducers = {control, cue}
  Keys = {key}
  Capacities = {0, 2}
  Retries = {1}
  MaxOffers = 2
  MaxWindows = 1
INVARIANTS
  TypeOK
  QueueExact
  OncePerWindow
PROPERTIES
  DropOnlyWhenKindFull
  ImplementsLog
  DispatchDrains
