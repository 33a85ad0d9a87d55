SPECIFICATION Spec
CONSTANTS
  Frames = {f1, f2, f3, f4}
  NoFrame = NoFrame
  Consumers = {agent, httpd}
  Capacity = 2
  Formats = {"MJPEG", "RAW"}
  EofBits = {TRUE, FALSE}
SYMMETRY Symmetry
CONSTRAINT NotRaced
INVARIANTS PoolServes Announced RawOverflowDiscarded
