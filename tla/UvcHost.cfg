SPECIFICATION Spec
CONSTANTS
  Urbs = {u1, u2}
  NumFrames = 2
  Kinds = {"isoc", "bulk"}
  MaxInits = 2
  MaxUnplugs = 1
INVARIANTS FramesCounted OwnAnswer NoAbort StreamFed
PROPERTY CallReturns
CHECK_DEADLOCK FALSE
