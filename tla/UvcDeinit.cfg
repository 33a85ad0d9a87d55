SPECIFICATION Spec
CONSTANTS
  Urbs = {u1}
  NumFrames = 2
  Kinds = {"isoc"}
  MaxInits = 1
  MaxUnplugs = 0
INVARIANT DeinitReleases
CHECK_DEADLOCK FALSE
