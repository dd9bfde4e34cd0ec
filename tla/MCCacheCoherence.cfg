\* Two requests at a time.  No symmetry, because of the liveness property.
CONSTANTS
  Names = {a, b}
  Clients = {c1, c2}
  Sizes = {1, 2}
  Batch = 2
  MaxEvents = 2
  MaxInodes = 3
  MaxChanges = 2
  MaxWatches = 2
  Faults = {"error", "unwatchable"}
  NULL = NULL
SPECIFICATION MCSpec
INVARIANTS TypeOK LostOnlyInKnownWays NoWatchLeaks
PROPERTY ChangesNoticed
CHECK_DEADLOCK FALSE
