SPECIFICATION MigrationSpec
CONSTANTS
  older = older  newer = newer  bare = bare  edited = edited  Unrecorded = Unrecorded
  Processes <- Four
  Owners <- Migrating
  Image <- Images
  MaxStops = 2
INVARIANTS TakesEffectOnce InOrder
PROPERTIES EventuallyServes
