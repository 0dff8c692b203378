SPECIFICATION Spec
CONSTANTS
  MaxSlug = 3
  MaxBody = 5
  Cap = 3
  Attempts = 5
  Chunk = 3
  Bodies <- AllBodies
  Slugs <- Typed
INVARIANTS TypeOK RepliesTellEffects  SlugsFound
