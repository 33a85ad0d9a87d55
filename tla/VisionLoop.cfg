SPECIFICATION Spec
CONSTANTS
  NoFrame = NoFrame
  Absent = Absent
  Frames = {f1, f2}
  ConfiguredRetries = 5
  MaxBlindRounds = 2
  Requested <- MCRequested
INVARIANTS PictureIsScreen BoxesMatchPicture TriesEnd
PROPERTIES SkipSeenOnly KeepsAsking
CHECK_DEADLOCK FALSE
