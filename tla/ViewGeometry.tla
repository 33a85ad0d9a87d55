---------------------------- MODULE ViewGeometry ----------------------------
(* The field of view of a screenshot (view_spec_t of jpeg_utils) and the      *)
(* pixel geometry of the two transforms that follow it.  A view is a box in   *)
(* the frame and a downscale factor; the code's floats in [0,1] are integers  *)
(* in 0..Unit here, so a float comparison is exact and a float product is     *)
(* rounded down, as the code's casts to uint32_t round it.                    *)
EXTENDS Integers

Unit == 1000

Full == [y0 |-> 0, x0 |-> 0, y1 |-> Unit, x1 |-> Unit, scale |-> 1]

MinExtent == Unit \div 50

Abs(n) == IF n < 0 THEN -n ELSE n

\* The larger and the smaller of two integers.
Larger(a, b)  == IF a > b THEN a ELSE b
Smaller(a, b) == IF a < b THEN a ELSE b

IsFull(v) ==
  v.y0 <= 0 /\ v.x0 <= 0 /\ v.y1 >= Unit /\ v.x1 >= Unit /\ v.scale <= 1

\* Two views are the same when no bound differs by more than half a thousandth
\* of the frame, which is exact equality at this resolution.
SameView(v, w) == v = w

\* The bounds of one axis, ordered and clamped into the frame.  Only the lower
\* end is raised and only the upper end is lowered.
Clamped(a, b) == [lo |-> Larger(Smaller(a, b), 0), hi |-> Smaller(Larger(a, b), Unit)]

\* Mutant of Grown: not pushed back into the frame.
GrownInPlace(r) ==
  IF r.hi - r.lo >= MinExtent THEN r
  ELSE LET c == (r.lo + r.hi) \div 2
       IN  [lo |-> c - MinExtent \div 2, hi |-> c + MinExtent \div 2]

\* A clamped axis narrower than the minimum grows about its centre and is then
\* pushed back into the frame, first from below and then from above.
Grown(r) ==
  IF r.hi - r.lo >= MinExtent THEN r
  ELSE LET c     == (r.lo + r.hi) \div 2
           lo    == c - MinExtent \div 2
           hi    == c + MinExtent \div 2
           below == IF lo < 0 THEN [lo |-> 0, hi |-> hi - lo] ELSE [lo |-> lo, hi |-> hi]
       IN  IF below.hi > Unit THEN [lo |-> below.lo - (below.hi - Unit), hi |-> Unit]
           ELSE below

\* view_normalize with its callers' fallback: a view without area is Full.
Normalized(v) ==
  LET y == Grown(Clamped(v.y0, v.y1))
      x == Grown(Clamped(v.x0, v.x1))
  IN  IF y.hi > y.lo /\ x.hi > x.lo
      THEN [y0 |-> y.lo, x0 |-> x.lo, y1 |-> y.hi, x1 |-> x.hi,
            scale |-> IF v.scale \in {1, 2, 4} THEN v.scale ELSE 1]
      ELSE Full

\* The full-frame position of a point of the picture the model was shown.
ToFull(v, p) ==
  IF IsFull(v) THEN p
  ELSE [x |-> v.x0 + (p.x * (v.x1 - v.x0)) \div Unit,
        y |-> v.y0 + (p.y * (v.y1 - v.y0)) \div Unit]

Even(n) == n - (n % 2)

\* One axis of the crop rectangle of jpeg_crop_scale in an image of len pixels:
\* even, at least 16 pixels where the image has them, inside the image.
CropAxis(lo, hi, len) ==
  LET wanted == Smaller(Even(((hi - lo) * len) \div Unit), Even(len))
      size   == IF wanted < 16 THEN (IF len >= 16 THEN 16 ELSE Even(len)) ELSE wanted
      at     == Even((lo * len) \div Unit)
  IN  [at |-> IF at + size > len THEN Larger(len - size, 0) ELSE at, size |-> size]

\* The size of the encoded picture: the crop divided by the scale, unless that
\* would leave fewer than 16 pixels on an axis.
Scaled(cw, ch, scale) ==
  LET w == Even(cw \div scale)
      h == Even(ch \div scale)
  IN  IF w < 16 \/ h < 16 THEN [w |-> cw, h |-> ch] ELSE [w |-> w, h |-> h]

\* The size jpeg_compress gives a w by h frame under a limit on its longer side.
Compressed(w, h, maxDim) ==
  LET longer == Larger(w, h)
      cw == IF maxDim > 0 /\ longer > maxDim THEN Even((w * maxDim) \div longer) ELSE w
      ch == IF maxDim > 0 /\ longer > maxDim THEN Even((h * maxDim) \div longer) ELSE h
  IN  IF cw < 16 \/ ch < 16 THEN [w |-> w, h |-> h] ELSE [w |-> cw, h |-> ch]
=============================================================================
