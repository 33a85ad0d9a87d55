---------------------------- MODULE MCAgentVision ----------------------------
(* The views an answer may ask for: the whole frame, a box with its bounds    *)
(* swapped and lying partly and wholly outside, and a sliver, which is ignored.*)
EXTENDS AgentVision

Box(a, b, c, d, s) == [box |-> TRUE, y0 |-> a, x0 |-> b, y1 |-> c, x1 |-> d, scale |-> s]

MCRequested ==
  {[box |-> FALSE, scale |-> 1],
   Box(500, -50, -100, -100, 2),
   Box(990, 990, 1000, 1000, 1)}
=============================================================================
