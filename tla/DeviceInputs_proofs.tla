------------------------ MODULE DeviceInputs_proofs ------------------------
(***************************************************************************)
(* Theorems about DeviceInputs: what the pure functions make of cameras,   *)
(* boxes and texts, for cameras, screens, views, boxes, answers and texts  *)
(* of any size.                                                            *)
(***************************************************************************)
EXTENDS DeviceInputs, FiniteSetTheorems, SequenceTheorems, TLAPS

-----------------------------------------------------------------------------
(* Products and floored quotients. *)
LEMMA TimesMono ==
  ASSUME NEW a \in Int, NEW b \in Int, NEW c \in Nat, a <= b
  PROVE  a * c <= b * c /\ a * c \in Int /\ b * c \in Int
OBVIOUS

LEMMA Floor ==
  ASSUME NEW a \in Int, NEW d \in Nat \ {0}
  PROVE  /\ a \div d \in Int
         /\ (a \div d) * d <= a
         /\ a < (a \div d) * d + d
OBVIOUS

(* The quotient is the only number with these bounds. *)
LEMMA FloorIs ==
  ASSUME NEW a \in Int, NEW d \in Nat \ {0}, NEW q \in Int, q * d <= a
  PROVE  q <= a \div d
<1> DEFINE p == a \div d
<1>1. p \in Int /\ a < p * d + d
  BY Floor
<1> HIDE DEF p
<1>2. ASSUME p < q PROVE FALSE
  <2>1. (p + 1) * d <= q * d
    BY <1>1, <1>2, TimesMono
  <2>2. (p + 1) * d = p * d + d
    BY <1>1
  <2> QED BY <1>1, <2>1, <2>2
<1>3. q <= p
  BY <1>1, <1>2
<1> QED BY <1>3 DEF p

LEMMA FloorMono ==
  ASSUME NEW a \in Int, NEW b \in Int, a <= b, NEW d \in Nat \ {0}
  PROVE  a \div d <= b \div d
<1>1. (a \div d) * d <= b /\ a \div d \in Int
  BY Floor
<1> QED BY <1>1, FloorIs

(* A whole number of steps, and a bound that is one. *)
LEMMA FloorBetween ==
  ASSUME NEW a \in Int, NEW d \in Nat \ {0}, NEW lo \in Int, NEW hi \in Int,
         lo * d <= a, a <= hi * d
  PROVE  lo <= a \div d /\ a \div d <= hi
<1>1. lo <= a \div d
  BY FloorIs
<1>2. a \div d \in Int /\ (a \div d) * d <= hi * d
  BY Floor
<1> DEFINE p == a \div d
<1> HIDE DEF p
<1>3. p \in Int /\ p * d <= hi * d
  BY <1>2 DEF p
<1>4. ASSUME hi < p PROVE FALSE
  <2>1. (hi + 1) * d <= p * d
    BY <1>3, <1>4, TimesMono
  <2> QED BY <2>1, <1>3
<1> QED BY <1>1, <1>3, <1>4 DEF p

-----------------------------------------------------------------------------
(* The pointer is on the screen wherever the box is (box_to_pixel). *)
LEMMA OnScreenInside ==
  ASSUME NEW n \in Int, NEW size \in Nat \ {0}
  PROVE  /\ P!OnScreen(n, size) \in 0 .. (size - 1)
         /\ \A lo \in 0 .. size : lo <= n => lo - 1 <= P!OnScreen(n, size)
         /\ \A hi \in Nat : n <= hi => P!OnScreen(n, size) <= hi
BY DEF P!OnScreen, P!Smaller, P!Larger

(* The position the device reports, in pixels, is at most one below the one  *)
(* it was sent to (pixel_to_abs, build_status_text).                         *)
LEMMA RoundTrip ==
  ASSUME NEW size \in 1 .. P!AbsMax, NEW pixel \in 0 .. (size - 1)
  PROVE  pixel - P!Cursor(P!Absolute(pixel, size), size) \in {0, 1}
<1> DEFINE A == P!AbsMax
           q == (pixel * A) \div size
<1>1. A = 32767
  BY DEF P!AbsMax
<1>2. P!Absolute(pixel, size) = q
  BY DEF P!Absolute, P!Smaller
<1>3. P!Cursor(P!Absolute(pixel, size), size) = (q * size) \div A
  BY <1>2 DEF P!Cursor
<1> HIDE DEF A
<1>4. pixel * A \in Int
  BY <1>1
<1>5. q \in Int /\ q * size <= pixel * A /\ pixel * A < q * size + size
  BY <1>4, Floor DEF A
<1> HIDE DEF q
<1>6. q * size \in Int /\ size \in Int /\ size <= A
  BY <1>1, <1>5 DEF A
<1>7. (pixel - 1) * A = pixel * A - A
  BY <1>1, SMTT(40)
<1>8. (pixel - 1) * A <= q * size
  BY <1>4, <1>5, <1>6, <1>7, <1>1
<1>9. pixel - 1 <= (q * size) \div A /\ (q * size) \div A <= pixel
  BY <1>1, <1>5, <1>6, <1>8, FloorBetween
<1>10. (q * size) \div A \in Int
  BY <1>1, <1>6, Floor
<1> QED BY <1>3, <1>9, <1>10

(* The drag's points lie between its ends, and the last is the second end. *)
LEMMA DragBetween ==
  ASSUME NEW from \in Nat, NEW to \in Nat
  PROVE  /\ P!DragPath(from, to)[8] = to
         /\ \A k \in 1 .. 8 : /\ P!DragPath(from, to)[k] <= P!Larger(to, from)
                              /\ P!DragPath(from, to)[k] >= P!Smaller(to, from)
<1> USE DEF P!DragPath, P!Quotient, P!Larger, P!Smaller
<1> DEFINE d == to - from
<1>1. P!DragPath(from, to)[8] = to
  OBVIOUS
<1>2. ASSUME NEW k \in 1 .. 8
      PROVE  /\ P!DragPath(from, to)[k] <= P!Larger(to, from)
             /\ P!DragPath(from, to)[k] >= P!Smaller(to, from)
  <2>1. P!DragPath(from, to)[k] = from + P!Quotient(d * k, 8)
    OBVIOUS
  <2>2. CASE d >= 0
    <3>1. 0 <= d * k /\ d * k <= d * 8
      BY <2>2
    <3>2. 0 <= (d * k) \div 8 /\ (d * k) \div 8 <= d /\ (d * k) \div 8 \in Int
      BY <2>2, <3>1
    <3> QED BY <2>1, <2>2, <3>1, <3>2
  <2>3. CASE d < 0
    <3>1. d * k < 0 /\ 0 <= -(d * k) /\ -(d * k) <= (-d) * 8 /\ d * k \in Int
      BY <2>3
    <3>2. 0 <= (-(d * k)) \div 8 /\ (-(d * k)) \div 8 <= -d
      BY <2>3, <3>1
    <3>3. P!Quotient(d * k, 8) = -((-(d * k)) \div 8)
      BY <3>1
    <3> QED BY <2>1, <2>3, <3>2, <3>3
  <2> QED BY <2>2, <2>3
<1> QED BY <1>1, <1>2

AnyView == [y0 : Int, x0 : Int, y1 : Int, x1 : Int, scale : Int]

(* A view the executor keeps has an area inside the frame (view_normalize). *)
LEMMA GrownInside ==
  ASSUME NEW a \in Int, NEW b \in Int
  PROVE  LET g == P!Grown(P!Clamped(a, b))
         IN  g.lo \in Nat /\ g.hi \in Nat /\ g.lo < g.hi /\ g.hi <= P!Unit
<1> DEFINE r == P!Clamped(a, b)
           g == P!Grown(r)
<1> SUFFICES g.lo \in Nat /\ g.hi \in Nat /\ g.lo < g.hi /\ g.hi <= P!Unit
  OBVIOUS
<1>1. r.lo \in Nat /\ r.hi \in Int /\ r.hi <= 1000
  BY DEF P!Clamped, P!Larger, P!Smaller, P!Unit
<1>2. P!MinExtent = 20 /\ P!MinExtent \div 2 = 10 /\ P!Unit = 1000
  BY DEF P!MinExtent, P!Unit
<1> HIDE DEF r
<1>3. CASE r.hi - r.lo >= 20
  <2>1. g = r
    BY <1>2, <1>3 DEF P!Grown
  <2> QED BY <1>1, <1>2, <1>3, <2>1
<1>4. CASE ~(r.hi - r.lo >= 20)
  <2>1. PICK c \in Int : c = (r.lo + r.hi) \div 2
    BY <1>1
  <2>2. g = [lo |-> 0, hi |-> 20] \/ g = [lo |-> 980, hi |-> 1000]
        \/ (g = [lo |-> c - 10, hi |-> c + 10] /\ c - 10 >= 0 /\ c + 10 <= 1000)
    BY <1>1, <1>2, <1>4, <2>1 DEF P!Grown
  <2> QED BY <1>2, <2>1, <2>2
<1> QED BY <1>3, <1>4

LEMMA KeptView ==
  ASSUME NEW view \in AnyView
  PROVE  LET v == P!SetView(view)
         IN  /\ v.x0 \in Nat /\ v.x1 \in Nat /\ v.x0 < v.x1 /\ v.x1 <= P!Unit
             /\ v.y0 \in Nat /\ v.y1 \in Nat /\ v.y0 < v.y1 /\ v.y1 <= P!Unit
<1> DEFINE y == P!Grown(P!Clamped(view.y0, view.y1))
           x == P!Grown(P!Clamped(view.x0, view.x1))
<1>1. view.y0 \in Int /\ view.y1 \in Int /\ view.x0 \in Int /\ view.x1 \in Int
  BY DEF AnyView
<1>2. y.lo \in Nat /\ y.hi \in Nat /\ y.lo < y.hi /\ y.hi <= P!Unit
  BY <1>1, GrownInside
<1>3. x.lo \in Nat /\ x.hi \in Nat /\ x.lo < x.hi /\ x.hi <= P!Unit
  BY <1>1, GrownInside
<1>4. P!SetView(view) = [y0 |-> y.lo, x0 |-> x.lo, y1 |-> y.hi, x1 |-> x.hi,
                         scale |-> IF view.scale \in {1, 2, 4} THEN view.scale ELSE 1]
  BY <1>2, <1>3 DEF P!SetView, P!Normalized
<1> HIDE DEF x, y
<1> QED BY <1>2, <1>3, <1>4

(* A point of the picture stays inside the view it is mapped through. *)
LEMMA AreaHolds ==
  ASSUME NEW c \in 0 .. P!Unit, NEW lo \in Nat, NEW hi \in Nat, lo < hi, hi <= P!Unit
  PROVE  LET n == lo + (c * (hi - lo)) \div P!Unit
         IN  n \in Int /\ lo <= n /\ n <= hi
<1> DEFINE w == hi - lo
<1>1. P!Unit = 1000 /\ w \in Nat
  BY DEF P!Unit
<1>2. 0 * P!Unit <= c * w /\ c * w \in Int
  BY <1>1
<1>3. c * w <= P!Unit * w
  BY <1>1, TimesMono
<1>4. c * w <= w * P!Unit
  BY <1>1, <1>3
<1> HIDE DEF w
<1>5. 0 <= (c * w) \div P!Unit /\ (c * w) \div P!Unit <= w
  BY <1>1, <1>2, <1>4, FloorBetween
<1>6. (c * w) \div P!Unit \in Int
  BY <1>1, <1>2
<1> QED BY <1>5, <1>6 DEF w

(* One axis of a point of the picture: on the part of the screen it showed. *)
LEMMA AxisShown ==
  ASSUME NEW lo \in Nat, NEW hi \in Nat, NEW n \in Int, lo <= n, n <= hi, hi <= P!Unit,
         NEW size \in Nat \ {0}
  PROVE  LET p == P!OnScreen((n * size) \div P!Unit, size)
         IN  p >= (lo * size) \div P!Unit - 1 /\ p <= (hi * size) \div P!Unit
<1> DEFINE a == (lo * size) \div P!Unit
           m == (n * size) \div P!Unit
           b == (hi * size) \div P!Unit
<1>1. P!Unit \in Nat \ {0}
  BY DEF P!Unit
<1>2. /\ lo * size <= n * size /\ lo * size \in Int
      /\ n * size <= hi * size /\ n * size \in Int /\ hi * size \in Int
  BY TimesMono
<1>3. a <= m /\ m <= b /\ a \in Int /\ m \in Int /\ b \in Int
  BY <1>1, <1>2, FloorMono, Floor
<1>4. 0 * P!Unit <= lo * size
  BY <1>1
<1>5. lo * size <= P!Unit * size /\ P!Unit * size = size * P!Unit
  BY <1>1, TimesMono
<1>6. 0 <= a /\ a <= size
  BY <1>1, <1>2, <1>4, <1>5, FloorBetween
<1> HIDE DEF a, m, b
<1>7. P!OnScreen(m, size) >= a - 1 /\ P!OnScreen(m, size) <= b
  BY <1>3, <1>6, OnScreenInside
<1> QED BY <1>7 DEF a, m, b

LEMMA ScreenSize ==
  /\ Width \in 1 .. P!AbsMax /\ Height \in 1 .. P!AbsMax
  /\ Width \in Nat \ {0} /\ Height \in Nat \ {0}
  /\ P!Unit \in Nat \ {0}
<1>1. Width \in 1 .. P!AbsMax /\ Height \in 1 .. P!AbsMax
  BY InputAssumption
<1>2. P!AbsMax \in Int /\ P!Unit \in Nat \ {0}
  BY DEF P!AbsMax, P!Unit
<1> QED BY <1>1, <1>2

(* What box_to_pixel makes of a box, one axis at a time. *)
LEMMA PointParts ==
  ASSUME NEW view \in AnyView, NEW box \in [1 .. 4 -> Int]
  PROVE  LET v == P!SetView(view)
             c == P!Centre(box)
             n == P!ToFull(v, c)
             p == PointOf(view, box)
         IN  /\ c.x \in Int /\ c.y \in Int /\ n.x \in Int /\ n.y \in Int
             /\ P!InPixels(box) => /\ p.x = P!OnScreen(c.x \div P!Unit, Width)
                                   /\ p.y = P!OnScreen(c.y \div P!Unit, Height)
             /\ ~P!InPixels(box) =>
                    /\ p.x = P!OnScreen((n.x * Width) \div P!Unit, Width)
                    /\ p.y = P!OnScreen((n.y * Height) \div P!Unit, Height)
<1> DEFINE v == P!SetView(view)
           c == P!Centre(box)
           n == P!ToFull(v, c)
<1>1. box[1] \in Int /\ box[2] \in Int /\ box[3] \in Int /\ box[4] \in Int /\ box # <<>>
  <2>1. 1 \in DOMAIN box
    OBVIOUS
  <2>2. 1 \notin DOMAIN <<>>
    OBVIOUS
  <2> QED BY <2>1, <2>2
<1>2. c.x \in Int /\ c.y \in Int
  BY <1>1 DEF P!Centre
<1>3. /\ v.x0 \in Int /\ v.x1 \in Int /\ v.y0 \in Int /\ v.y1 \in Int
  BY KeptView
<1>4. n.x \in Int /\ n.y \in Int
  <2>1. CASE P!IsFull(v)
    BY <2>1, <1>2 DEF P!ToFull
  <2>2. CASE ~P!IsFull(v)
    <3>1. /\ n.x = v.x0 + (c.x * (v.x1 - v.x0)) \div P!Unit
          /\ n.y = v.y0 + (c.y * (v.y1 - v.y0)) \div P!Unit
      BY <2>2 DEF P!ToFull
    <3> HIDE DEF n, c, v
    <3>2. c.x * (v.x1 - v.x0) \in Int /\ c.y * (v.y1 - v.y0) \in Int
      BY <1>2, <1>3
    <3> QED BY <3>1, <3>2, <1>3 DEF P!Unit
  <2> QED BY <2>1, <2>2
<1>5. PointOf(view, box) =
        IF P!InPixels(box)
        THEN [x |-> P!OnScreen(c.x \div P!Unit, Width),
              y |-> P!OnScreen(c.y \div P!Unit, Height)]
        ELSE [x |-> P!OnScreen((n.x * Width) \div P!Unit, Width),
              y |-> P!OnScreen((n.y * Height) \div P!Unit, Height)]
  BY <1>1 DEF PointOf, P!BoxPoint
<1> HIDE DEF v, c, n
<1>6. QED
  BY <1>2, <1>4, <1>5 DEF v, c, n

(* A box in [0,1] is mapped into the view. *)
LEMMA MeanInside ==
  ASSUME NEW u \in Nat, NEW a \in 0 .. u, NEW b \in 0 .. u
  PROVE  (a + b) \div 2 \in 0 .. u /\ ~(a > 2 * u)
OBVIOUS

LEMMA NormalisedCentre ==
  ASSUME NEW box \in [1 .. 4 -> Int], Normalised(box)
  PROVE  /\ ~P!InPixels(box)
         /\ P!Centre(box).x \in 0 .. P!Unit /\ P!Centre(box).y \in 0 .. P!Unit
<1>1. /\ box[1] \in 0 .. P!Unit /\ box[2] \in 0 .. P!Unit
      /\ box[3] \in 0 .. P!Unit /\ box[4] \in 0 .. P!Unit
  BY DEF Normalised
<1>2. P!Unit \in Nat
  BY DEF P!Unit
<1>3. ASSUME NEW k \in 1 .. 4 PROVE ~(box[k] > 2 * P!Unit)
  <2>1. box[k] \in 0 .. P!Unit
    BY DEF Normalised
  <2> QED BY <1>2, <2>1, MeanInside
<1>4. (box[2] + box[4]) \div 2 \in 0 .. P!Unit /\ (box[1] + box[3]) \div 2 \in 0 .. P!Unit
  BY <1>1, <1>2, MeanInside
<1> QED BY <1>3, <1>4 DEF P!InPixels, P!Centre

LEMMA NormalisedInside ==
  ASSUME NEW view \in AnyView, NEW box \in [1 .. 4 -> Int], Normalised(box)
  PROVE  LET v == P!SetView(view)
             n == P!ToFull(v, P!Centre(box))
         IN  /\ ~P!InPixels(box)
             /\ n.x \in Int /\ v.x0 <= n.x /\ n.x <= v.x1
             /\ n.y \in Int /\ v.y0 <= n.y /\ n.y <= v.y1
<1> DEFINE v == P!SetView(view)
           c == P!Centre(box)
           n == P!ToFull(v, c)
<1>2. ~P!InPixels(box)
  BY NormalisedCentre
<1>3. c.x \in 0 .. P!Unit /\ c.y \in 0 .. P!Unit
  BY NormalisedCentre
<1>4. /\ v.x0 \in Nat /\ v.x1 \in Nat /\ v.x0 < v.x1 /\ v.x1 <= P!Unit
      /\ v.y0 \in Nat /\ v.y1 \in Nat /\ v.y0 < v.y1 /\ v.y1 <= P!Unit
  BY KeptView
<1> HIDE DEF v, c
<1>5. CASE P!IsFull(v)
  <2>1. v.x0 = 0 /\ v.y0 = 0 /\ v.x1 = P!Unit /\ v.y1 = P!Unit
    BY <1>4, <1>5 DEF P!IsFull, P!Unit
  <2>2. n = c
    BY <1>5 DEF P!ToFull
  <2>3. n.x \in 0 .. P!Unit /\ n.y \in 0 .. P!Unit
    BY <1>3, <2>2
  <2> HIDE DEF n
  <2>4. P!Unit \in Int
    BY DEF P!Unit
  <2>5. /\ n.x \in Int /\ v.x0 <= n.x /\ n.x <= v.x1
        /\ n.y \in Int /\ v.y0 <= n.y /\ n.y <= v.y1
    BY <2>1, <2>3, <2>4
  <2> QED BY <1>2, <2>5 DEF n, v, c
<1>6. CASE ~P!IsFull(v)
  <2>1. /\ n.x = v.x0 + (c.x * (v.x1 - v.x0)) \div P!Unit
        /\ n.y = v.y0 + (c.y * (v.y1 - v.y0)) \div P!Unit
    BY <1>6 DEF P!ToFull
  <2> HIDE DEF n
  <2>2. n.x \in Int /\ v.x0 <= n.x /\ n.x <= v.x1
    BY <1>3, <1>4, <2>1, AreaHolds
  <2>3. n.y \in Int /\ v.y0 <= n.y /\ n.y <= v.y1
    BY <1>3, <1>4, <2>1, AreaHolds
  <2> QED BY <1>2, <2>2, <2>3 DEF n, v, c
<1> QED BY <1>5, <1>6

LEMMA BoxRight ==
  ASSUME NEW view \in AnyView, NEW box \in [1 .. 4 -> Int]
  PROVE  LET p == PointOf(view, box) IN
           /\ p.x \in 0 .. (Width - 1) /\ p.y \in 0 .. (Height - 1)
           /\ Normalised(box) => Shows(view, p)
<1> DEFINE v == P!SetView(view)
           c == P!Centre(box)
           n == P!ToFull(v, c)
           p == PointOf(view, box)
<1>1. /\ c.x \in Int /\ c.y \in Int /\ n.x \in Int /\ n.y \in Int
      /\ P!InPixels(box) => /\ p.x = P!OnScreen(c.x \div P!Unit, Width)
                            /\ p.y = P!OnScreen(c.y \div P!Unit, Height)
      /\ ~P!InPixels(box) => /\ p.x = P!OnScreen((n.x * Width) \div P!Unit, Width)
                             /\ p.y = P!OnScreen((n.y * Height) \div P!Unit, Height)
  BY PointParts
<1>2. Width \in Nat \ {0} /\ Height \in Nat \ {0} /\ P!Unit \in Nat \ {0}
  BY ScreenSize
<1>3. /\ v.x0 \in Nat /\ v.x1 \in Nat /\ v.x1 <= P!Unit
      /\ v.y0 \in Nat /\ v.y1 \in Nat /\ v.y1 <= P!Unit
  BY KeptView
<1>4. Normalised(box) => /\ ~P!InPixels(box)
                         /\ v.x0 <= n.x /\ n.x <= v.x1 /\ v.y0 <= n.y /\ n.y <= v.y1
  BY NormalisedInside
<1> HIDE DEF v, c, n, p
<1>5. p.x \in 0 .. (Width - 1) /\ p.y \in 0 .. (Height - 1)
  <2>1. /\ c.x \div P!Unit \in Int /\ c.y \div P!Unit \in Int
        /\ n.x * Width \in Int /\ n.y * Height \in Int
    BY <1>1, <1>2
  <2>2. (n.x * Width) \div P!Unit \in Int /\ (n.y * Height) \div P!Unit \in Int
    BY <2>1, <1>2, Floor
  <2> QED BY <1>1, <1>2, <2>1, <2>2, OnScreenInside
<1>6. ASSUME Normalised(box) PROVE Shows(view, p)
  <2>1. /\ p.x >= (v.x0 * Width) \div P!Unit - 1
        /\ p.x <= (v.x1 * Width) \div P!Unit
    BY <1>1, <1>2, <1>3, <1>4, <1>6, AxisShown, ZenonT(60)
  <2>2. /\ p.y >= (v.y0 * Height) \div P!Unit - 1
        /\ p.y <= (v.y1 * Height) \div P!Unit
    BY <1>1, <1>2, <1>3, <1>4, <1>6, AxisShown, ZenonT(60)
  <2> QED BY <2>1, <2>2 DEF Shows, v
<1> QED BY <1>5, <1>6 DEF p

-----------------------------------------------------------------------------
(* What there is to look at is one input, or nothing. *)
InputOK == input = Nothing \/ input \in Inputs

LEMMA InputAlways == Spec => []InputOK
<1>1. Init => InputOK
  BY DEF Init, InputOK
<1>2. ASSUME InputOK, [Next]_input PROVE InputOK'
  <2>1. CASE Arrive
    BY <2>1 DEF Arrive, InputOK
  <2>2. CASE Done
    BY <2>2 DEF Done, InputOK
  <2>3. CASE UNCHANGED input
    BY <1>2, <2>3 DEF InputOK, Inputs, Nothing
  <2> QED BY <1>2, <2>1, <2>2, <2>3 DEF Next
<1> QED BY <1>1, <1>2, PTL DEF Spec

LEMMA InputKinds ==
  ASSUME InputOK
  PROVE  /\ input.kind = "camera" => input.camera \in Cameras
         /\ input.kind = "box" => input.view \in Views /\ input.box \in Boxes
         /\ input.kind = "answer" => input.answer \in Answers
         /\ input.kind = "text" => input.text \in Texts
<1>1. CASE input = Nothing
  BY <1>1 DEF Nothing
<1>2. CASE input \in Inputs
  BY <1>2 DEF Inputs
<1> QED BY <1>1, <1>2 DEF InputOK

(* PointsRight, whatever the screen, the view and the box: a box puts the    *)
(* pointer on the screen, inside what the picture showed when it is in       *)
(* [0,1], and the cursor the model is told of next is at most one pixel off. *)
THEOREM PointsAlwaysRight == Spec => []PointsRight
<1>1. InputOK => PointsRight
  <2> SUFFICES ASSUME InputOK, input.kind = "box", input.box # <<>>
               PROVE  LET p == PointOf(input.view, input.box)
                          q == PointOf(P!Full, input.box)
                          path == P!DragPath(q.x, p.x)
                      IN  /\ p.x \in 0 .. (Width - 1) /\ p.y \in 0 .. (Height - 1)
                          /\ Normalised(input.box) => Shows(input.view, p)
                          /\ P!InPixels(input.box) => p = q
                          /\ p.x - P!Cursor(P!Absolute(p.x, Width), Width) \in {0, 1}
                          /\ p.y - P!Cursor(P!Absolute(p.y, Height), Height) \in {0, 1}
                          /\ path[8] = p.x
                          /\ \A k \in 1 .. 8 : /\ path[k] <= P!Larger(p.x, q.x)
                                               /\ path[k] >= P!Smaller(p.x, q.x)
    BY DEF PointsRight
  <2> DEFINE view == input.view
             box == input.box
             p == PointOf(view, box)
             q == PointOf(P!Full, box)
  <2>1. view \in AnyView /\ box \in [1 .. 4 -> Int] /\ P!Full \in AnyView
    BY InputKinds, InputAssumption DEF AnyView, P!Full, P!Unit
  <2>2. /\ p.x \in 0 .. (Width - 1) /\ p.y \in 0 .. (Height - 1)
        /\ Normalised(box) => Shows(view, p)
    BY <2>1, BoxRight
  <2>3. q.x \in 0 .. (Width - 1)
    BY <2>1, BoxRight
  <2>4. P!InPixels(box) => p = q
    BY DEF PointOf, P!BoxPoint
  <2> HIDE DEF view, box, p, q
  <2>5. p.x \in Nat /\ q.x \in Nat
    BY <2>2, <2>3, ScreenSize
  <2>6. /\ p.x - P!Cursor(P!Absolute(p.x, Width), Width) \in {0, 1}
        /\ p.y - P!Cursor(P!Absolute(p.y, Height), Height) \in {0, 1}
    BY <2>2, ScreenSize, RoundTrip
  <2>7. /\ P!DragPath(q.x, p.x)[8] = p.x
        /\ \A k \in 1 .. 8 : /\ P!DragPath(q.x, p.x)[k] <= P!Larger(p.x, q.x)
                             /\ P!DragPath(q.x, p.x)[k] >= P!Smaller(p.x, q.x)
    BY <2>5, DragBetween
  <2> QED BY <2>2, <2>4, <2>6, <2>7 DEF view, box, p, q
<1> QED BY <1>1, InputAlways, PTL

-----------------------------------------------------------------------------
(* Induction.  The library's rules take the property as an operator, which   *)
(* no backend instantiates; here it is the set of the numbers that have it.  *)
(* A set of numbers without a least one would have infinitely many numbers   *)
(* below it: the ones below all of it are closed under successor.            *)
LEMMA Least ==
  ASSUME NEW T \in SUBSET Nat, T # {}
  PROVE  \E n \in T : \A m \in T : n <= m
<1> SUFFICES ASSUME \A n \in T : \E m \in T : m < n PROVE FALSE
  OBVIOUS
<1>1. PICK n \in T : TRUE
  OBVIOUS
<1> DEFINE L == {m \in 0 .. n : \A k \in T : m < k}
           f == [m \in L |-> m + 1]
<1>2. L \in SUBSET (0 .. n)
  OBVIOUS
<1>3. 0 \in L
  <2>1. \A k \in T : 0 < k
    OBVIOUS
  <2> QED BY <2>1
<1>4. IsFiniteSet(L)
  <2>1. IsFiniteSet(0 .. n)
    BY <1>1, FS_Interval
  <2> HIDE DEF L
  <2> QED BY <2>1, <1>2, FS_Subset
<1>5. ASSUME NEW m \in L PROVE m + 1 \in L \ {0}
  <2>1. \A k \in T : m < k /\ k \in Nat /\ m \in Nat
    OBVIOUS
  <2>2. \A k \in T : m + 1 # k
    BY <2>1
  <2>3. \A k \in T : m + 1 < k
    BY <2>1, <2>2
  <2> QED BY <2>3, <2>1, <1>1
<1>6. f \in Injection(L, L \ {0})
  <2>1. f \in [L -> L \ {0}]
    BY <1>5
  <2>2. \A a, b \in L : f[a] = f[b] => a = b
    OBVIOUS
  <2> QED BY <2>1, <2>2 DEF Injection, IsInjective
<1> HIDE DEF L, f
<1>7. Cardinality(L) <= Cardinality(L \ {0})
  <2>1. IsFiniteSet(L \ {0})
    BY <1>4, FS_RemoveElement
  <2> QED BY <2>1, <1>6, FS_Injection
<1>8. Cardinality(L \ {0}) = Cardinality(L) - 1 /\ Cardinality(L) \in Nat
  BY <1>3, <1>4, FS_RemoveElement, FS_CardinalityType
<1> QED BY <1>7, <1>8

(* From zero upwards... *)
LEMMA Upwards ==
  ASSUME NEW n \in Nat, NEW G, 0 \in G, \A m \in 0 .. (n - 1) : m \in G => m + 1 \in G
  PROVE  0 .. n \subseteq G
<1> DEFINE T == (0 .. n) \ G
<1> SUFFICES ASSUME T # {} PROVE FALSE
  OBVIOUS
<1>1. PICK k \in T : \A m \in T : k <= m
  <2> HIDE DEF T
  <2>1. T \in SUBSET Nat
    BY DEF T
  <2> QED BY <2>1, Least
<1>2. k # 0 /\ k \in 1 .. n
  BY <1>1
<1>3. k - 1 \in G /\ k - 1 \in 0 .. (n - 1)
  BY <1>1, <1>2
<1>4. (k - 1) + 1 = k
  BY <1>2
<1> QED BY <1>1, <1>3, <1>4

(* ... and from the end backwards, by steps of any length. *)
LEMMA Backwards ==
  ASSUME NEW a \in Nat, NEW n \in Nat, NEW G,
         \A r \in a .. n : (\A k \in (r + 1) .. n : k \in G) => r \in G
  PROVE  a .. n \subseteq G
<1> DEFINE T == {m \in Nat : m <= n /\ n - m \in a .. n /\ n - m \notin G}
<1> SUFFICES ASSUME NEW bad \in a .. n, bad \notin G PROVE FALSE
  OBVIOUS
<1>1. n - bad \in T
  OBVIOUS
<1>2. PICK m \in T : \A j \in T : m <= j
  <2> HIDE DEF T
  <2>1. T \in SUBSET Nat
    BY DEF T
  <2> QED BY <1>1, <2>1, Least
<1>3. \A k \in (n - m + 1) .. n : k \in G
  <2> SUFFICES ASSUME NEW k \in (n - m + 1) .. n, k \notin G PROVE FALSE
    OBVIOUS
  <2>1. n - k \in Nat /\ n - (n - k) = k /\ k \in a .. n
    BY <1>2
  <2>2. n - k \in T
    BY <2>1
  <2> QED BY <1>2, <2>2
<1> QED BY <1>2, <1>3

(* A function may be defined backwards: each value from the value at a later *)
(* place, or at once where that place is behind the end.                     *)
GoesOn(a, n, V, next, last, step) ==
  \A r \in a .. n : /\ next[r] \in Nat /\ r < next[r]
                    /\ last[r] \in V
                    /\ next[r] <= n => \A v \in V : step[<<r, v>>] \in V

IsBackward(f, a, n, V, next, last, step) ==
  /\ f \in [a .. n -> V]
  /\ \A r \in a .. n :
        f[r] = IF next[r] <= n THEN step[<<r, f[next[r]]>>] ELSE last[r]

LEMMA BackwardFunction ==
  ASSUME NEW a \in Nat, NEW n \in Nat, NEW V, NEW next, NEW last, NEW step,
         GoesOn(a, n, V, next, last, step)
  PROVE  \E f : IsBackward(f, a, n, V, next, last, step)
<1>0. \A r \in a .. n : /\ next[r] \in Nat /\ r < next[r]
                        /\ last[r] \in V
                        /\ next[r] <= n => \A v \in V : step[<<r, v>>] \in V
  BY DEF GoesOn
<1> DEFINE Defined(f, m) ==
             /\ f \in [m .. n -> V]
             /\ \A r \in m .. n :
                   f[r] = IF next[r] <= n THEN step[<<r, f[next[r]]>>] ELSE last[r]
           G == {m \in a .. (n + 1) : \E f : Defined(f, m)}
<1>1. ASSUME NEW m \in a .. (n + 1), \A k \in (m + 1) .. (n + 1) : k \in G
      PROVE  m \in G
  <2>1. CASE m = n + 1
    <3>1. Defined([r \in {} |-> r], m)
      BY <2>1
    <3> QED BY <3>1
  <2>2. CASE m # n + 1
    <3>1. m \in a .. n /\ m + 1 \in G
      <4> HIDE DEF G
      <4>1. m \in a .. n /\ m + 1 \in (m + 1) .. (n + 1)
        BY <2>2
      <4> QED BY <1>1, <4>1
    <3>2. PICK f : Defined(f, m + 1)
      BY <3>1
    <3> DEFINE v == IF next[m] <= n THEN step[<<m, f[next[m]]>>] ELSE last[m]
               g == [r \in m .. n |-> IF r = m THEN v ELSE f[r]]
    <3>3. v \in V
      <4>1. next[m] <= n => f[next[m]] \in V
        BY <1>0, <3>1, <3>2
      <4> QED BY <1>0, <3>1, <4>1
    <3>4. \A r \in (m + 1) .. n : g[r] = f[r]
      BY <3>1
    <3>5. g \in [m .. n -> V]
      BY <3>1, <3>2, <3>3
    <3>6. ASSUME NEW r \in m .. n
          PROVE  g[r] = IF next[r] <= n THEN step[<<r, g[next[r]]>>] ELSE last[r]
      <4>1. next[r] \in Nat /\ r < next[r]
        BY <1>0, <3>1
      <4>2. next[r] <= n => g[next[r]] = f[next[r]]
        BY <3>1, <3>4, <4>1
      <4>3. g[r] = IF next[r] <= n THEN step[<<r, f[next[r]]>>] ELSE last[r]
        <5>1. CASE r = m BY <5>1
        <5>2. CASE r # m BY <3>1, <3>2, <3>4, <5>2
        <5> QED BY <5>1, <5>2
      <4> HIDE DEF g
      <4> QED BY <4>2, <4>3
    <3> HIDE DEF g
    <3>7. Defined(g, m)
      BY <3>5, <3>6
    <3> QED BY <3>1, <3>7
  <2> QED BY <2>1, <2>2
<1> HIDE DEF G
<1>2. a .. (n + 1) \subseteq G
  <2>1. n + 1 \in Nat
    OBVIOUS
  <2>2. \A m \in a .. (n + 1) : (\A k \in (m + 1) .. (n + 1) : k \in G) => m \in G
    BY <1>1
  <2> QED BY <2>1, <2>2, Backwards
<1>3. CASE a <= n + 1
  <2>1. a \in G
    BY <1>2, <1>3
  <2>2. PICK f : Defined(f, a)
    BY <2>1 DEF G
  <2> QED BY <2>2 DEF IsBackward
<1>4. CASE ~(a <= n + 1)
  <2>1. a .. n = {}
    BY <1>4
  <2>2. IsBackward([r \in {} |-> r], a, n, V, next, last, step)
    BY <2>1 DEF IsBackward
  <2> QED BY <2>2
<1> QED BY <1>3, <1>4

-----------------------------------------------------------------------------
(* UTF-8 (utf8_util.h). *)
LEMMA SeqLenType == ASSUME NEW b PROVE SeqLen(b) \in 0 .. 4
<1>1. CASE b = "a" BY <1>1 DEF SeqLen
<1>2. CASE b = "2" BY <1>2 DEF SeqLen
<1>3. CASE b = "3" BY <1>3 DEF SeqLen
<1>4. CASE b = "4" BY <1>4 DEF SeqLen
<1>5. CASE b \notin {"a", "2", "3", "4"}
  <2>1. SeqLen(b) = 0
    BY <1>5 DEF SeqLen
  <2> QED BY <2>1
<1> QED BY <1>1, <1>2, <1>3, <1>4, <1>5

(* A whole character ends inside the text. *)
LEMMA WholeEnds ==
  ASSUME NEW s, Len(s) \in Nat, NEW r \in 1 .. Len(s), Whole(s, r)
  PROVE  /\ SeqLen(s[r]) \in 1 .. 4
         /\ r + SeqLen(s[r]) \in (r + 1) .. (Len(s) + 1)
<1> DEFINE need == SeqLen(s[r])
<1>1. need \in 0 .. 4
  BY SeqLenType
<1>2. need > 0 /\ \A k \in 1 .. (need - 1) : r + k <= Len(s) /\ s[r + k] = "c"
  BY DEF Whole
<1> HIDE DEF need
<1>3. CASE need = 1
  BY <1>1, <1>3 DEF need
<1>4. CASE need > 1
  <2>1. need - 1 \in 1 .. (need - 1)
    BY <1>1, <1>4
  <2>2. r + (need - 1) <= Len(s)
    BY <1>2, <2>1
  <2> QED BY <1>1, <1>2, <2>2 DEF need
<1> QED BY <1>1, <1>2, <1>3, <1>4

(* What Valid reads of a text: from which places on it is whole characters. *)
IsGood(g, s) ==
  \A r \in 1 .. (Len(s) + 1) :
     /\ g[r] \in BOOLEAN
     /\ g[r] <=> (r = Len(s) + 1 \/ (Whole(s, r) /\ g[r + SeqLen(s[r])]))

LEMMA ValidReads ==
  ASSUME NEW s, Len(s) \in Nat
  PROVE  \E g : IsGood(g, s) /\ (Valid(s) <=> g[1])
<1> DEFINE N == Len(s) + 1
           next == [r \in 1 .. N |-> IF r # N /\ Whole(s, r) THEN r + SeqLen(s[r])
                                     ELSE N + 1]
           last == [r \in 1 .. N |-> IF r = N THEN TRUE ELSE FALSE]
           step == [x \in (1 .. N) \X BOOLEAN |-> x[2]]
           F(g) == [r \in 1 .. (Len(s) + 1) |->
                      r = Len(s) + 1 \/ (Whole(s, r) /\ g[r + SeqLen(s[r])])]
<1>1. ASSUME NEW r \in 1 .. N
      PROVE  /\ next[r] \in Nat /\ r < next[r]
             /\ last[r] \in BOOLEAN
             /\ \A v \in BOOLEAN : step[<<r, v>>] \in BOOLEAN
  <2>1. \A v \in BOOLEAN : step[<<r, v>>] \in BOOLEAN
    BY Zenon
  <2>2. last[r] \in BOOLEAN
    BY Zenon
  <2>3. next[r] = IF r # N /\ Whole(s, r) THEN r + SeqLen(s[r]) ELSE N + 1
    OBVIOUS
  <2> HIDE DEF next, last, step
  <2>4. next[r] \in Nat /\ r < next[r]
    <3>1. CASE r # N /\ Whole(s, r)
      BY <2>3, <3>1, WholeEnds
    <3>2. CASE ~(r # N /\ Whole(s, r))
      BY <2>3, <3>2
    <3> QED BY <3>1, <3>2
  <2> QED BY <2>1, <2>2, <2>4
<1>2. \E f : IsBackward(f, 1, N, BOOLEAN, next, last, step)
  <2>1. N \in Nat
    OBVIOUS
  <2>2. GoesOn(1, N, BOOLEAN, next, last, step)
    BY <1>1, Zenon DEF GoesOn
  <2> HIDE DEF N, next, last, step
  <2> QED BY <2>1, <2>2, BackwardFunction
<1>3. PICK f \in [1 .. N -> BOOLEAN] : \A r \in 1 .. N :
         f[r] = IF next[r] <= N THEN step[<<r, f[next[r]]>>] ELSE last[r]
  <2> HIDE DEF N, next, last, step
  <2> QED BY <1>2, Zenon DEF IsBackward
<1>4. ASSUME NEW r \in 1 .. N
      PROVE  f[r] = (r = N \/ (Whole(s, r) /\ f[r + SeqLen(s[r])]))
  <2>1. CASE r # N /\ Whole(s, r)
    <3>1. r \in 1 .. Len(s) /\ r + SeqLen(s[r]) \in 1 .. N
      BY <2>1, WholeEnds
    <3>2. next[r] = r + SeqLen(s[r])
      BY <2>1
    <3>3. f[next[r]] \in BOOLEAN
      BY <3>1, <3>2
    <3>4. f[r] = step[<<r, f[next[r]]>>]
      <4>1. next[r] <= N
        BY <3>1, <3>2
      <4> HIDE DEF next, step, last
      <4> QED BY <1>3, <4>1
    <3>5. step[<<r, f[next[r]]>>] = f[next[r]]
      <4> HIDE DEF next
      <4> QED BY <3>3, Zenon
    <3> HIDE DEF next, step
    <3> QED BY <2>1, <3>2, <3>3, <3>4, <3>5, Zenon
  <2>2. CASE r = N
    <3>1. next[r] = N + 1 /\ last[r] = TRUE /\ ~(N + 1 <= N)
      BY <2>2
    <3> HIDE DEF next, last, step
    <3>2. f[r] = TRUE
      BY <1>3, <3>1
    <3> QED BY <2>2, <3>2
  <2>3. CASE r # N /\ ~Whole(s, r)
    <3>1. next[r] = N + 1 /\ last[r] = FALSE /\ ~(N + 1 <= N)
      BY <2>3
    <3> HIDE DEF next, last, step
    <3>2. f[r] = FALSE
      BY <1>3, <3>1
    <3> QED BY <2>3, <3>2
  <2> QED BY <2>1, <2>2, <2>3
<1> HIDE DEF next, last, step
<1>5. f = F(f)
  <2>1. \A r \in 1 .. N : f[r] = F(f)[r]
    BY <1>4
  <2>2. DOMAIN f = 1 .. N
    OBVIOUS
  <2> QED BY <2>1, <2>2, Zenon
<1> DEFINE g == CHOOSE h : h = F(h)
<1>6. g = F(g)
  BY <1>5, Zenon
<1>7. Valid(s) = g[1]
  BY Zenon DEF Valid
<1> HIDE DEF g
<1>8. ASSUME NEW r \in 1 .. N
      PROVE  g[r] = (r = N \/ (Whole(s, r) /\ g[r + SeqLen(s[r])]))
  BY <1>6, Zenon
<1>9. IsGood(g, s)
  <2> SUFFICES ASSUME NEW r \in 1 .. (Len(s) + 1)
               PROVE  /\ g[r] \in BOOLEAN
                      /\ g[r] <=> (r = Len(s) + 1 \/ (Whole(s, r) /\ g[r + SeqLen(s[r])]))
    BY DEF IsGood
  <2> QED BY <1>8, Zenon
<1> QED BY <1>7, <1>9, Zenon

(* What Sanitized makes of the text from each place on. *)
IsRepaired(F, s) ==
  /\ F \in [1 .. (Len(s) + 1) -> Seq(Bytes)]
  /\ \A r \in 1 .. (Len(s) + 1) :
        F[r] = IF r = Len(s) + 1 THEN <<>>
               ELSE IF Whole(s, r)
                    THEN SubSeq(s, r, r + SeqLen(s[r]) - 1) \o F[r + SeqLen(s[r])]
                    ELSE <<"a">> \o F[r + 1]

LEMMA SanitizedReads ==
  ASSUME NEW s \in Seq(Bytes)
  PROVE  \E F : IsRepaired(F, s) /\ Sanitized(s) = F[1]
<1> DEFINE N == Len(s) + 1
           V == Seq(Bytes)
           first(r) == IF Whole(s, r) THEN SubSeq(s, r, r + SeqLen(s[r]) - 1) ELSE <<"a">>
           next == [r \in 1 .. N |-> IF r = N THEN N + 1
                                     ELSE IF Whole(s, r) THEN r + SeqLen(s[r]) ELSE r + 1]
           last == [r \in 1 .. N |-> <<>>]
           step == [x \in (1 .. N) \X V |-> first(x[1]) \o x[2]]
           B(f) == [r \in 1 .. (Len(s) + 1) |->
                      IF r = Len(s) + 1 THEN <<>>
                      ELSE IF Whole(s, r)
                           THEN SubSeq(s, r, r + SeqLen(s[r]) - 1) \o f[r + SeqLen(s[r])]
                           ELSE <<"a">> \o f[r + 1]]
<1>0. Len(s) \in Nat /\ N \in Nat
  OBVIOUS
<1>1. ASSUME NEW r \in 1 .. N, r # N
      PROVE  first(r) \in V /\ next[r] \in (r + 1) .. N
  <2>1. r \in 1 .. Len(s)
    BY <1>1
  <2>2. CASE Whole(s, r)
    <3>1. /\ SeqLen(s[r]) \in 1 .. 4
          /\ r + SeqLen(s[r]) \in (r + 1) .. (Len(s) + 1)
      BY <1>0, <2>1, <2>2, WholeEnds
    <3>2. SubSeq(s, r, r + SeqLen(s[r]) - 1) \in Seq(Bytes)
      BY <2>1, <3>1
    <3> QED BY <1>1, <2>2, <3>1, <3>2
  <2>3. CASE ~Whole(s, r)
    <3>1. <<"a">> \in Seq(Bytes)
      BY DEF Bytes
    <3> QED BY <1>1, <2>1, <2>3, <3>1
  <2> QED BY <2>2, <2>3
<1>2. \A r \in 1 .. N : r = N => next[r] = N + 1
  OBVIOUS
<1>3. \A r \in 1 .. N, v \in V : step[<<r, v>>] = first(r) \o v
  OBVIOUS
<1>4. \A r \in 1 .. N : last[r] = <<>> /\ last[r] \in V
  OBVIOUS
<1>5. \A r \in 1 .. N : r # N => next[r] = IF Whole(s, r) THEN r + SeqLen(s[r]) ELSE r + 1
  OBVIOUS
<1> HIDE DEF next, last, step
<1>6. GoesOn(1, N, V, next, last, step)
  <2> SUFFICES ASSUME NEW r \in 1 .. N
               PROVE  /\ next[r] \in Nat /\ r < next[r]
                      /\ last[r] \in V
                      /\ next[r] <= N => \A v \in V : step[<<r, v>>] \in V
    BY DEF GoesOn
  <2>1. CASE r = N
    BY <1>0, <1>2, <1>4, <2>1
  <2>2. CASE r # N
    <3>1. first(r) \in V /\ next[r] \in (r + 1) .. N
      BY <1>1, <2>2
    <3> HIDE DEF first
    <3>2. ASSUME NEW v \in V PROVE step[<<r, v>>] \in V
      <4>1. first(r) \o v \in V
        BY <3>1
      <4> HIDE DEF V, N
      <4> QED BY <1>3, <4>1
    <3> HIDE DEF N, V
    <3> QED BY <1>0, <1>4, <3>1, <3>2
  <2> QED BY <2>1, <2>2
<1>7. PICK F : IsBackward(F, 1, N, V, next, last, step)
  <2> HIDE DEF N, V
  <2> QED BY <1>0, <1>6, BackwardFunction
<1>8. F \in [1 .. N -> V]
  BY <1>7 DEF IsBackward
<1>9. ASSUME NEW r \in 1 .. N
      PROVE  F[r] = IF r = N THEN <<>>
                    ELSE IF Whole(s, r)
                         THEN SubSeq(s, r, r + SeqLen(s[r]) - 1) \o F[r + SeqLen(s[r])]
                         ELSE <<"a">> \o F[r + 1]
  <2>1. F[r] = IF next[r] <= N THEN step[<<r, F[next[r]]>>] ELSE last[r]
    BY <1>7 DEF IsBackward
  <2>2. CASE r = N
    BY <1>0, <1>2, <1>4, <2>1, <2>2
  <2>3. CASE r # N
    <3>1. next[r] \in (r + 1) .. N
      BY <1>1, <2>3
    <3>2. next[r] <= N /\ F[next[r]] \in V
      BY <1>0, <1>8, <3>1
    <3> HIDE DEF V, N, first
    <3>3. F[r] = first(r) \o F[next[r]]
      BY <1>3, <2>1, <3>2
    <3> QED BY <1>5, <2>3, <3>3, Zenon DEF first
  <2> QED BY <2>2, <2>3
<1>10. F = B(F)
  <2>1. \A r \in 1 .. N : F[r] = B(F)[r]
    BY <1>9, Zenon
  <2>2. DOMAIN F = 1 .. N
    BY <1>8
  <2> QED BY <1>8, <2>1, <2>2, Zenon
<1> DEFINE g == CHOOSE h : h = B(h)
<1>11. g = B(g)
  BY <1>10, Zenon
<1>12. Sanitized(s) = g[1]
  BY Zenon DEF Sanitized
<1> HIDE DEF g, next, last, step
<1>13. ASSUME NEW r \in 1 .. N
       PROVE  g[r] = IF r = N THEN <<>>
                     ELSE IF Whole(s, r)
                          THEN SubSeq(s, r, r + SeqLen(s[r]) - 1) \o g[r + SeqLen(s[r])]
                          ELSE <<"a">> \o g[r + 1]
  BY <1>11, Zenon
<1>14. ASSUME NEW r \in 1 .. N, \A k \in (r + 1) .. N : g[k] \in V
       PROVE  g[r] \in V
  <2>1. CASE r = N
    <3>1. g[r] = <<>>
      BY <1>13, <2>1, Zenon
    <3> QED BY <3>1
  <2>2. CASE r # N /\ Whole(s, r)
    <3>1. SubSeq(s, r, r + SeqLen(s[r]) - 1) \in V
      BY <1>1, <2>2
    <3>2. r + SeqLen(s[r]) \in (r + 1) .. N
      BY <1>0, <2>2, WholeEnds
    <3>3. g[r + SeqLen(s[r])] \in V
      BY <1>14, <3>2
    <3>4. g[r] = SubSeq(s, r, r + SeqLen(s[r]) - 1) \o g[r + SeqLen(s[r])]
      BY <1>13, <2>2
    <3> QED BY <3>1, <3>3, <3>4
  <2>3. CASE r # N /\ ~Whole(s, r)
    <3>1. <<"a">> \in V
      BY <1>1, <2>3
    <3>2. r + 1 \in (r + 1) .. N
      BY <1>0, <2>3
    <3>3. g[r + 1] \in V
      BY <1>14, <3>2
    <3>4. g[r] = <<"a">> \o g[r + 1]
      BY <1>13, <2>3
    <3> QED BY <3>1, <3>3, <3>4
  <2> QED BY <2>1, <2>2, <2>3
<1>15. \A r \in 1 .. N : g[r] \in V
  <2> DEFINE G == {r \in 1 .. N : g[r] \in V}
  <2>1. \A r \in 1 .. N : (\A k \in (r + 1) .. N : k \in G) => r \in G
    BY <1>14
  <2> HIDE DEF G, N
  <2>2. 1 .. N \subseteq G
    BY <1>0, <2>1, Backwards
  <2> QED BY <2>2 DEF G
<1>16. IsRepaired(g, s)
  <2>1. DOMAIN g = 1 .. N /\ g = [r \in DOMAIN g |-> g[r]]
    BY <1>11, Zenon
  <2>2. g \in [1 .. N -> V]
    BY <1>15, <2>1
  <2> QED BY <1>13, <2>2 DEF IsRepaired
<1> QED BY <1>12, <1>16

(* Where utf8_copy stops when it has come to each place. *)
Need(b) == IF SeqLen(b) = 0 THEN 1 ELSE SeqLen(b)

IsStop(f, room, s) ==
  /\ f \in [0 .. Len(s) -> Nat]
  /\ \A r \in 0 .. Len(s) :
        f[r] = IF r = Len(s) THEN r
               ELSE IF r + Need(s[r + 1]) > room - 1 THEN r
               ELSE IF r + Need(s[r + 1]) > Len(s) THEN Len(s)
               ELSE f[r + Need(s[r + 1])]

LEMMA CopyReads ==
  ASSUME NEW s \in Seq(Bytes), NEW room \in Nat
  PROVE  \E f : IsStop(f, room, s) /\ Copy(room, s) = SubSeq(s, 1, f[0])
<1> DEFINE n == Len(s)
           next == [r \in 0 .. n |->
                      IF r = n \/ r + Need(s[r + 1]) > room - 1 THEN n + 1
                      ELSE r + Need(s[r + 1])]
           last == [r \in 0 .. n |->
                      IF r = n \/ r + Need(s[r + 1]) > room - 1 THEN r ELSE n]
           step == [x \in (0 .. n) \X Nat |-> x[2]]
           B(h) == [r \in 0 .. Len(s) |->
                      IF r = Len(s) THEN r
                      ELSE LET need == IF SeqLen(s[r + 1]) = 0 THEN 1 ELSE SeqLen(s[r + 1])
                           IN IF r + need > room - 1 THEN r
                              ELSE IF r + need > Len(s) THEN Len(s) ELSE h[r + need]]
<1>1. n \in Nat /\ \A b : Need(b) \in 1 .. 4
  BY SeqLenType DEF Need
<1>2. \A r \in 0 .. n : /\ next[r] = IF r = n \/ r + Need(s[r + 1]) > room - 1 THEN n + 1
                                     ELSE r + Need(s[r + 1])
                        /\ last[r] = IF r = n \/ r + Need(s[r + 1]) > room - 1 THEN r ELSE n
  OBVIOUS
<1>3. \A r \in 0 .. n, v \in Nat : step[<<r, v>>] = v
  OBVIOUS
<1> HIDE DEF next, last, step
<1>4. GoesOn(0, n, Nat, next, last, step)
  <2> SUFFICES ASSUME NEW r \in 0 .. n
               PROVE  /\ next[r] \in Nat /\ r < next[r]
                      /\ last[r] \in Nat
                      /\ next[r] <= n => \A v \in Nat : step[<<r, v>>] \in Nat
    BY DEF GoesOn
  <2> HIDE DEF n
  <2>1. r \in Nat /\ Need(s[r + 1]) \in 1 .. 4
    BY <1>1
  <2>2. next[r] \in Nat /\ r < next[r]
    BY <1>1, <1>2, <2>1
  <2>3. last[r] \in Nat
    BY <1>1, <1>2, <2>1
  <2> QED BY <1>3, <2>2, <2>3
<1>5. PICK f : IsBackward(f, 0, n, Nat, next, last, step)
  <2> HIDE DEF n
  <2> QED BY <1>1, <1>4, BackwardFunction
<1>6. f \in [0 .. n -> Nat]
  BY <1>5 DEF IsBackward
<1>7. ASSUME NEW r \in 0 .. n
      PROVE  f[r] = IF r = n THEN r
                    ELSE IF r + Need(s[r + 1]) > room - 1 THEN r
                    ELSE IF r + Need(s[r + 1]) > n THEN n
                    ELSE f[r + Need(s[r + 1])]
  <2> HIDE DEF n
  <2>1. f[r] = IF next[r] <= n THEN step[<<r, f[next[r]]>>] ELSE last[r]
    BY <1>5 DEF IsBackward
  <2>2. r \in Nat /\ Need(s[r + 1]) \in 1 .. 4
    BY <1>1
  <2>3. CASE r = n \/ r + Need(s[r + 1]) > room - 1
    <3>1. next[r] = n + 1 /\ last[r] = r
      BY <1>2, <2>3
    <3>2. f[r] = r
      BY <1>1, <2>1, <3>1
    <3> QED BY <2>3, <3>2
  <2>4. CASE r # n /\ ~(r + Need(s[r + 1]) > room - 1)
    <3>1. next[r] = r + Need(s[r + 1]) /\ last[r] = n
      BY <1>2, <2>4
    <3>2. CASE r + Need(s[r + 1]) > n
      <4>1. ~(next[r] <= n)
        BY <1>1, <2>2, <3>1, <3>2
      <4>2. f[r] = n
        BY <2>1, <3>1, <4>1
      <4> QED BY <2>4, <3>2, <4>2
    <3>3. CASE ~(r + Need(s[r + 1]) > n)
      <4>1. next[r] <= n /\ next[r] \in 0 .. n
        BY <1>1, <2>2, <3>1, <3>3, SMTT(40)
      <4>2. f[next[r]] \in Nat
        BY <1>6, <4>1
      <4>3. f[r] = f[next[r]]
        BY <1>3, <2>1, <4>1, <4>2
      <4> QED BY <2>4, <3>1, <3>3, <4>3
    <3> QED BY <3>2, <3>3
  <2> QED BY <2>3, <2>4
<1>8. f = B(f)
  <2>1. \A r \in 0 .. n : f[r] = B(f)[r]
    BY <1>7 DEF Need
  <2>2. DOMAIN f = 0 .. n
    BY <1>6
  <2> QED BY <1>6, <2>1, <2>2, Zenon
<1> DEFINE g == CHOOSE h : h = B(h)
<1>9. g = B(g)
  BY <1>8, Zenon
<1>10. Copy(room, s) = SubSeq(s, 1, g[0])
  BY Zenon DEF Copy
<1> HIDE DEF g
<1>11. ASSUME NEW r \in 0 .. n
       PROVE  g[r] = IF r = n THEN r
                     ELSE IF r + Need(s[r + 1]) > room - 1 THEN r
                     ELSE IF r + Need(s[r + 1]) > n THEN n
                     ELSE g[r + Need(s[r + 1])]
  BY <1>9, Zenon DEF Need
<1>12. \A r \in 0 .. n : g[r] \in Nat
  <2> DEFINE G == {r \in 0 .. n : g[r] \in Nat}
  <2>1. ASSUME NEW r \in 0 .. n, \A k \in (r + 1) .. n : k \in G PROVE r \in G
    <3> HIDE DEF n
    <3>1. r \in Nat /\ Need(s[r + 1]) \in 1 .. 4
      BY <1>1
    <3>2. CASE r = n \/ r + Need(s[r + 1]) > room - 1 \/ r + Need(s[r + 1]) > n
      BY <1>1, <1>11, <3>1, <3>2
    <3>3. CASE ~(r = n \/ r + Need(s[r + 1]) > room - 1 \/ r + Need(s[r + 1]) > n)
      <4>1. g[r] = g[r + Need(s[r + 1])]
        BY <1>11, <3>3
      <4>2. r + Need(s[r + 1]) \in (r + 1) .. n
        BY <1>1, <3>1, <3>3
      <4> QED BY <2>1, <4>1, <4>2
    <3> QED BY <3>2, <3>3
  <2> HIDE DEF G, n
  <2>2. 0 .. n \subseteq G
    BY <1>1, <2>1, Backwards
  <2> QED BY <2>2 DEF G
<1>13. IsStop(g, room, s)
  <2>1. DOMAIN g = 0 .. n /\ g = [r \in DOMAIN g |-> g[r]]
    BY <1>9, Zenon
  <2>2. g \in [0 .. n -> Nat]
    BY <1>12, <2>1
  <2> QED BY <1>11, <2>2 DEF IsStop
<1> QED BY <1>10, <1>13

LEMMA NeedType == ASSUME NEW b PROVE Need(b) \in 1 .. 4 /\ (SeqLen(b) > 0 => Need(b) = SeqLen(b))
BY SeqLenType DEF Need

(* The copy ends inside the text and leaves room for the terminator. *)
LEMMA StopInside ==
  ASSUME NEW s \in Seq(Bytes), NEW room \in Nat \ {0}, NEW f, IsStop(f, room, s)
  PROVE  \A r \in 0 .. Len(s) : /\ f[r] \in r .. Len(s)
                                /\ r < room => f[r] < room
<1> DEFINE n == Len(s)
           G == {r \in 0 .. n : f[r] \in r .. n /\ (r < room => f[r] < room)}
<1>1. n \in Nat
  OBVIOUS
<1>2. ASSUME NEW r \in 0 .. n, \A k \in (r + 1) .. n : k \in G PROVE r \in G
  <2>1. f[r] = IF r = n THEN r
               ELSE IF r + Need(s[r + 1]) > room - 1 THEN r
               ELSE IF r + Need(s[r + 1]) > n THEN n
               ELSE f[r + Need(s[r + 1])]
    BY DEF IsStop
  <2>2. Need(s[r + 1]) \in 1 .. 4
    BY NeedType
  <2> DEFINE k == r + Need(s[r + 1])
  <2> HIDE DEF n
  <2>3. k \in Nat /\ r < k
    BY <1>1, <2>2
  <2>4. CASE r = n \/ k > room - 1
    BY <1>1, <2>1, <2>4
  <2>5. CASE r # n /\ ~(k > room - 1) /\ k > n
    <3>1. f[r] = n
      BY <2>1, <2>5
    <3> HIDE DEF k
    <3> QED BY <1>1, <2>3, <2>5, <3>1
  <2>6. CASE r # n /\ ~(k > room - 1) /\ ~(k > n)
    <3>1. f[r] = f[k]
      BY <2>1, <2>6
    <3> HIDE DEF k
    <3>2. k \in (r + 1) .. n
      BY <1>1, <2>3, <2>6
    <3>3. f[k] \in k .. n /\ (k < room => f[k] < room)
      BY <1>2, <3>2
    <3> QED BY <1>1, <2>3, <2>6, <3>1, <3>2, <3>3
  <2> QED BY <2>4, <2>5, <2>6
<1> HIDE DEF G
<1>3. 0 .. n \subseteq G
  <2> HIDE DEF n
  <2> QED BY <1>1, <1>2, Backwards
<1> QED BY <1>3 DEF G

LEMMA Prefix ==
  ASSUME NEW s \in Seq(Bytes), NEW c \in 0 .. Len(s)
  PROVE  /\ SubSeq(s, 1, c) \in Seq(Bytes)
         /\ Len(SubSeq(s, 1, c)) = c
         /\ \A k \in 1 .. c : SubSeq(s, 1, c)[k] = s[k]
<1>1. CASE c = 0
  BY <1>1, SubSeqProperties
<1>2. CASE c # 0
  BY <1>2, SubSeqProperties
<1> QED BY <1>1, <1>2

(* A whole character of a prefix is one of the text, and the other way round *)
(* as far as the prefix reaches.                                             *)
LEMMA WholeInPrefix ==
  ASSUME NEW s, NEW t, Len(s) \in Nat, NEW c \in 0 .. Len(s), Len(t) = c,
         \A k \in 1 .. c : t[k] = s[k],
         NEW r \in 1 .. c, Whole(s, r), r + SeqLen(s[r]) <= c + 1
  PROVE  Whole(t, r) /\ SeqLen(t[r]) = SeqLen(s[r])
<1> DEFINE need == SeqLen(s[r])
<1>1. need \in Nat /\ SeqLen(t[r]) = need
  BY SeqLenType
<1>2. need > 0 /\ \A k \in 1 .. (need - 1) : r + k <= Len(s) /\ s[r + k] = "c"
  BY DEF Whole
<1> HIDE DEF need
<1>3. r + need <= c + 1
  BY DEF need
<1>4. ASSUME NEW k \in 1 .. (need - 1) PROVE r + k <= Len(t) /\ t[r + k] = "c"
  <2>1. r + k \in 1 .. c /\ r + k <= Len(t)
    BY <1>1, <1>3
  <2> QED BY <1>2, <2>1
<1> QED BY <1>1, <1>2, <1>4 DEF Whole, need

(* Valid text, cut by utf8_copy, is valid, and the character it was cut      *)
(* before had no room.                                                       *)
LEMMA CutIsValid ==
  ASSUME NEW s \in Seq(Bytes), NEW room \in Nat \ {0}, NEW f, IsStop(f, room, s),
         NEW g, IsGood(g, s), NEW t, NEW h, IsGood(h, t),
         Len(t) = f[0], \A k \in 1 .. f[0] : t[k] = s[k]
  PROVE  g[1] => /\ h[1]
                 /\ f[0] < Len(s) => f[0] + SeqLen(s[f[0] + 1]) >= room
<1> DEFINE n == Len(s)
           c == f[0]
           G == {r \in 0 .. n : f[r] = c /\ g[r + 1] =>
                    /\ h[r + 1]
                    /\ c < n => c + SeqLen(s[c + 1]) >= room}
<1>1. n \in Nat /\ c \in 0 .. n
  BY StopInside
<1>2. ASSUME NEW r \in 0 .. n, \A k \in (r + 1) .. n : k \in G PROVE r \in G
  <2> SUFFICES ASSUME f[r] = c, g[r + 1]
               PROVE  h[r + 1] /\ (c < n => c + SeqLen(s[c + 1]) >= room)
    OBVIOUS
  <2>1. f[r] = IF r = n THEN r
               ELSE IF r + Need(s[r + 1]) > room - 1 THEN r
               ELSE IF r + Need(s[r + 1]) > n THEN n
               ELSE f[r + Need(s[r + 1])]
    BY DEF IsStop
  <2>2. r \in Nat /\ r <= c
    BY StopInside
  <2>3. r = c => h[r + 1]
    <3> SUFFICES ASSUME r = c PROVE h[c + 1]
      OBVIOUS
    <3>1. c + 1 \in 1 .. (Len(t) + 1) /\ c + 1 = Len(t) + 1
      BY <1>1
    <3> HIDE DEF c
    <3> QED BY <3>1 DEF IsGood
  <2>4. r # n => /\ Whole(s, r + 1)
                 /\ SeqLen(s[r + 1]) \in 1 .. 4
                 /\ r + 1 + SeqLen(s[r + 1]) \in (r + 2) .. (n + 1)
                 /\ g[r + 1 + SeqLen(s[r + 1])]
    <3> SUFFICES ASSUME r # n
                 PROVE  /\ Whole(s, r + 1)
                        /\ SeqLen(s[r + 1]) \in 1 .. 4
                        /\ r + 1 + SeqLen(s[r + 1]) \in (r + 2) .. (n + 1)
                        /\ g[r + 1 + SeqLen(s[r + 1])]
      OBVIOUS
    <3>1. r + 1 \in 1 .. n /\ r + 1 \in 1 .. (Len(s) + 1) /\ r + 1 # Len(s) + 1
      BY <1>1
    <3>2. Whole(s, r + 1) /\ g[r + 1 + SeqLen(s[r + 1])]
      BY <3>1 DEF IsGood
    <3> QED BY <1>1, <3>1, <3>2, WholeEnds
  <2> DEFINE need == SeqLen(s[r + 1])
  <2>5. r # n => Need(s[r + 1]) = need
    BY <2>4, NeedType
  <2> HIDE DEF n, c, need
  <2>6. CASE r = n
    <3>1. c = n
      BY <2>1, <2>6
    <3> QED BY <1>1, <2>3, <2>6, <3>1
  <2>7. CASE r # n /\ r + need > room - 1
    <3>1. c = r
      BY <2>1, <2>5, <2>7
    <3>2. c + SeqLen(s[c + 1]) >= room
      BY <2>2, <2>4, <2>7, <3>1 DEF need
    <3> QED BY <2>3, <3>1, <3>2
  <2>8. CASE r # n /\ ~(r + need > room - 1)
    <3>1. need \in 1 .. 4 /\ r + need \in (r + 1) .. n /\ g[r + need + 1]
      <4>1. need \in 1 .. 4 /\ r + 1 + need \in (r + 2) .. (n + 1) /\ g[r + 1 + need]
        BY <2>4, <2>8 DEF need
      <4>2. r + 1 + need = r + need + 1
        BY <2>2, <4>1
      <4> QED BY <1>1, <2>2, <4>1, <4>2
    <3>2. f[r + need] = c
      BY <1>1, <2>1, <2>2, <2>5, <2>8, <3>1
    <3>3. h[r + need + 1] /\ (c < n => c + SeqLen(s[c + 1]) >= room)
      BY <1>2, <3>1, <3>2
    <3>4. r + need <= c
      <4>1. r + need \in 0 .. Len(s)
        BY <1>1, <2>2, <3>1 DEF n
      <4> QED BY <4>1, <3>1, <3>2, StopInside
    <3>5. Whole(t, r + 1) /\ SeqLen(t[r + 1]) = need
      <4>1. r + 1 \in 1 .. c /\ r + 1 + need <= c + 1
        BY <1>1, <2>2, <3>1, <3>4
      <4>2. Len(t) = c /\ Len(s) \in Nat /\ c \in 0 .. Len(s) /\ \A k \in 1 .. c : t[k] = s[k]
        BY <1>1 DEF c, n
      <4> QED BY <4>1, <4>2, <2>4, <2>8, WholeInPrefix DEF need
    <3>6. r + 1 \in 1 .. (Len(t) + 1)
      BY <1>1, <2>2, <3>1, <3>4 DEF c
    <3>7. r + 1 + need = r + need + 1
      BY <2>2, <3>1
    <3>8. h[r + 1]
      BY <3>3, <3>5, <3>6, <3>7 DEF IsGood
    <3> QED BY <3>3, <3>8
  <2> QED BY <2>6, <2>7, <2>8
<1> HIDE DEF G
<1>3. 0 .. n \subseteq G
  <2> HIDE DEF n
  <2> QED BY <1>1, <1>2, Backwards
<1>4. 0 \in G
  BY <1>1, <1>3
<1> QED BY <1>4 DEF G

LEMMA JoinBytes ==
  ASSUME NEW a \in Seq(Bytes), NEW b \in Seq(Bytes)
  PROVE  /\ Len(a) \in Nat /\ Len(b) \in Nat /\ Len(a \o b) = Len(a) + Len(b)
         /\ \A k \in 1 .. (Len(a) + Len(b)) :
               (a \o b)[k] = IF k <= Len(a) THEN a[k] ELSE b[k - Len(a)]
OBVIOUS

LEMMA PartOfBytes ==
  ASSUME NEW s \in Seq(Bytes), NEW r \in 1 .. Len(s), NEW m \in Nat,
         r + m <= Len(s) + 1
  PROVE  LET a == SubSeq(s, r, r + m - 1)
         IN  a \in Seq(Bytes) /\ Len(a) = m /\ \A k \in 1 .. m : a[k] = s[r + k - 1]
<1> DEFINE e == r + m - 1
<1>1. e \in Int /\ r \in Int /\ e - r + 1 = m /\ (IF r <= e THEN e - r + 1 ELSE 0) = m
  OBVIOUS
<1>2. \A i \in r .. e : s[i] \in Bytes
  OBVIOUS
<1> HIDE DEF e
<1>3. /\ SubSeq(s, r, e) \in Seq(Bytes)
      /\ Len(SubSeq(s, r, e)) = m
      /\ \A i \in 1 .. m : SubSeq(s, r, e)[i] = s[r + i - 1]
  BY <1>1, <1>2, SubSeqProperties, SMTT(40)
<1> QED BY <1>3 DEF e

(* One byte for one byte: what is left of the text keeps its length. *)
LEMMA RepairedLength ==
  ASSUME NEW s \in Seq(Bytes), NEW F, IsRepaired(F, s)
  PROVE  \A r \in 1 .. (Len(s) + 1) : F[r] \in Seq(Bytes) /\ Len(F[r]) = Len(s) + 1 - r
<1> DEFINE N == Len(s) + 1
           G == {r \in 1 .. N : Len(F[r]) = N - r}
<1>1. Len(s) \in Nat /\ N \in Nat /\ \A r \in 1 .. N : F[r] \in Seq(Bytes)
  BY SMTT(40) DEF IsRepaired
<1>2. ASSUME NEW r \in 1 .. N, \A k \in (r + 1) .. N : k \in G PROVE r \in G
  <2>1. CASE r = N
    <3>1. F[r] = <<>>
      BY <2>1 DEF IsRepaired
    <3>2. Len(F[r]) = 0
      BY <3>1
    <3> QED BY <1>1, <2>1, <3>2
  <2>2. CASE r # N /\ Whole(s, r)
    <3> DEFINE m == SeqLen(s[r])
               a == SubSeq(s, r, r + m - 1)
    <3>1. F[r] = a \o F[r + m]
      BY <2>2 DEF IsRepaired
    <3>2. m \in 1 .. 4 /\ r + m \in (r + 1) .. N /\ r \in 1 .. Len(s)
      BY <1>1, <2>2, WholeEnds
    <3>3. Len(F[r + m]) = N - (r + m) /\ F[r + m] \in Seq(Bytes)
      BY <1>1, <1>2, <3>2
    <3> HIDE DEF m, G
    <3>4. a \in Seq(Bytes) /\ Len(a) = m
      <4>1. r + m <= Len(s) + 1
        BY <3>2
      <4> QED BY <3>2, <4>1, PartOfBytes
    <3> HIDE DEF a, N
    <3>5. Len(F[r]) = m + (N - (r + m))
      BY <3>1, <3>3, <3>4, JoinBytes
    <3>6. Len(F[r]) = N - r
      BY <1>1, <3>2, <3>5
    <3> QED BY <3>6 DEF G
  <2>3. CASE r # N /\ ~Whole(s, r)
    <3>1. F[r] = <<"a">> \o F[r + 1]
      BY <2>3 DEF IsRepaired
    <3>2. r + 1 \in (r + 1) .. N
      BY <1>1, <2>3
    <3>3. Len(F[r + 1]) = N - (r + 1) /\ F[r + 1] \in Seq(Bytes)
      BY <1>1, <1>2, <3>2
    <3>4. <<"a">> \in Seq(Bytes) /\ Len(<<"a">>) = 1
      BY DEF Bytes
    <3> HIDE DEF N, G
    <3>5. Len(F[r]) = 1 + (N - (r + 1))
      BY <3>1, <3>3, <3>4
    <3>6. Len(F[r]) = N - r
      BY <1>1, <3>2, <3>5
    <3> QED BY <3>6 DEF G
  <2> QED BY <2>1, <2>2, <2>3
<1> HIDE DEF G
<1>3. 1 .. N \subseteq G
  <2> HIDE DEF N
  <2> QED BY <1>1, <1>2, Backwards
<1> QED BY <1>1, <1>3 DEF G

(* The bytes of what is repaired: a whole character as it is, or one "a". *)
LEMMA RepairedBytes ==
  ASSUME NEW s \in Seq(Bytes), NEW F, IsRepaired(F, s), NEW r \in 1 .. Len(s)
  PROVE  /\ Whole(s, r) => LET m == SeqLen(s[r]) IN
              /\ \A k \in 1 .. m : F[r][k] = s[r + k - 1]
              /\ \A k \in (m + 1) .. (Len(s) + 1 - r) : F[r][k] = F[r + m][k - m]
         /\ ~Whole(s, r) =>
              /\ F[r][1] = "a"
              /\ \A k \in 2 .. (Len(s) + 1 - r) : F[r][k] = F[r + 1][k - 1]
<1> DEFINE n == Len(s)
<1>1. n \in Nat /\ r # n + 1 /\ r \in 1 .. (n + 1)
  OBVIOUS
<1>2. ASSUME Whole(s, r)
      PROVE  LET m == SeqLen(s[r]) IN
              /\ \A k \in 1 .. m : F[r][k] = s[r + k - 1]
              /\ \A k \in (m + 1) .. (n + 1 - r) : F[r][k] = F[r + m][k - m]
  <2> DEFINE m == SeqLen(s[r])
             a == SubSeq(s, r, r + m - 1)
             b == F[r + m]
  <2>1. F[r] = a \o b
    BY <1>1, <1>2 DEF IsRepaired
  <2>2. m \in 1 .. 4 /\ r + m \in (r + 1) .. (n + 1)
    BY <1>1, <1>2, WholeEnds
  <2>3. b \in Seq(Bytes) /\ Len(b) = n + 1 - (r + m)
    BY <2>2, RepairedLength
  <2> HIDE DEF m
  <2>4. a \in Seq(Bytes) /\ Len(a) = m /\ \A k \in 1 .. m : a[k] = s[r + k - 1]
    <3>1. r + m <= Len(s) + 1
      BY <2>2
    <3> QED BY <2>2, <3>1, PartOfBytes
  <2> HIDE DEF a, b, n
  <2>5. \A k \in 1 .. (m + Len(b)) : F[r][k] = IF k <= m THEN a[k] ELSE b[k - m]
    BY <2>1, <2>2, <2>3, <2>4, JoinBytes, SMTT(40)
  <2>6. m + Len(b) = n + 1 - r
    BY <1>1, <2>2, <2>3
  <2>7. \A k \in 1 .. m : F[r][k] = s[r + k - 1]
    <3>1. \A k \in 1 .. m : k \in 1 .. (m + Len(b))
      BY <1>1, <2>2, <2>3
    <3>2. \A k \in 1 .. m : k <= m
      BY <2>2
    <3> QED BY <2>4, <2>5, <3>1, <3>2
  <2>8. \A k \in (m + 1) .. (n + 1 - r) : F[r][k] = b[k - m]
    BY <1>1, <2>2, <2>5, <2>6
  <2> QED BY <2>7, <2>8 DEF m, b
<1>3. ASSUME ~Whole(s, r)
      PROVE  /\ F[r][1] = "a"
             /\ \A k \in 2 .. (n + 1 - r) : F[r][k] = F[r + 1][k - 1]
  <2> DEFINE a == <<"a">>
             b == F[r + 1]
  <2>1. F[r] = a \o b
    BY <1>1, <1>3 DEF IsRepaired
  <2>2. b \in Seq(Bytes) /\ Len(b) = n + 1 - (r + 1)
    <3>1. r + 1 \in 1 .. (n + 1)
      BY <1>1
    <3> QED BY <3>1, RepairedLength
  <2>3. a \in Seq(Bytes) /\ Len(a) = 1 /\ a[1] = "a"
    BY DEF Bytes
  <2> HIDE DEF a, b, n
  <2>4. \A k \in 1 .. (1 + Len(b)) : F[r][k] = IF k <= 1 THEN a[k] ELSE b[k - 1]
    <3>1. \A k \in 1 .. (Len(a) + Len(b)) :
             (a \o b)[k] = IF k <= Len(a) THEN a[k] ELSE b[k - Len(a)]
      BY <2>2, <2>3, JoinBytes
    <3> QED BY <2>1, <2>3, <3>1
  <2>5. 1 + Len(b) = n + 1 - r
    BY <1>1, <2>2
  <2> QED BY <1>1, <2>2, <2>3, <2>4, <2>5 DEF b
<1> QED BY <1>2, <1>3

(* What utf8_sanitize leaves is valid, ... *)
LEMMA RepairedIsValid ==
  ASSUME NEW s \in Seq(Bytes), NEW F, IsRepaired(F, s), NEW h, IsGood(h, F[1])
  PROVE  h[1]
<1> DEFINE n == Len(s)
           t == F[1]
           Rest(r) == \A k \in r .. n : t[k] = F[r][k - r + 1]
           G == {r \in 1 .. (n + 1) : Rest(r) => h[r]}
<1>1. n \in Nat /\ Len(t) = n
  BY RepairedLength
<1>2. ASSUME NEW r \in 1 .. (n + 1), \A k \in (r + 1) .. (n + 1) : k \in G, Rest(r)
      PROVE  h[r]
  <2>1. r \in 1 .. (Len(t) + 1)
    BY <1>1
  <2>2. CASE r = n + 1
    BY <1>1, <2>1, <2>2 DEF IsGood
  <2>3. CASE r # n + 1 /\ Whole(s, r)
    <3> DEFINE m == SeqLen(s[r])
    <3>1. m \in 1 .. 4 /\ r + m \in (r + 1) .. (n + 1) /\ r \in 1 .. n
      BY <1>1, <2>3, WholeEnds
    <3>2. /\ \A k \in 1 .. m : F[r][k] = s[r + k - 1]
          /\ \A k \in (m + 1) .. (n + 1 - r) : F[r][k] = F[r + m][k - m]
      <4> HIDE DEF t, G, Rest
      <4>1. r \in 1 .. Len(s)
        BY <3>1
      <4> QED BY <2>3, <4>1, RepairedBytes
    <3>3. m > 0 /\ \A k \in 1 .. (m - 1) : s[r + k] = "c"
      BY <2>3 DEF Whole
    <3> HIDE DEF n, t, m
    <3>4. ASSUME NEW k \in 1 .. m PROVE t[r + k - 1] = s[r + k - 1]
      <4>1. r + k - 1 \in r .. n /\ (r + k - 1) - r + 1 = k
        BY <1>1, <3>1
      <4>2. t[r + k - 1] = F[r][(r + k - 1) - r + 1]
        BY <1>2, <4>1
      <4> QED BY <3>2, <4>1, <4>2
    <3>5. SeqLen(t[r]) = m
      <4>1. 1 \in 1 .. m /\ r + 1 - 1 = r
        BY <3>1
      <4>2. t[r] = s[r]
        BY <3>4, <4>1
      <4> QED BY <4>2 DEF m
    <3>6. ASSUME NEW k \in 1 .. (m - 1) PROVE r + k <= Len(t) /\ t[r + k] = "c"
      <4>1. k + 1 \in 1 .. m /\ r + (k + 1) - 1 = r + k /\ r + k <= Len(t)
        BY <1>1, <3>1
      <4>2. t[r + k] = s[r + k]
        BY <3>4, <4>1
      <4> QED BY <3>3, <4>1, <4>2
    <3>7. Whole(t, r)
      BY <3>3, <3>5, <3>6 DEF Whole
    <3>8. Rest(r + m)
      <4> SUFFICES ASSUME NEW k \in (r + m) .. n PROVE t[k] = F[r + m][k - (r + m) + 1]
        OBVIOUS
      <4>1. /\ k \in r .. n /\ k - r + 1 \in (m + 1) .. (n + 1 - r)
            /\ (k - r + 1) - m = k - (r + m) + 1
        BY <1>1, <3>1
      <4>2. t[k] = F[r][k - r + 1]
        BY <1>2, <4>1
      <4>3. F[r][k - r + 1] = F[r + m][(k - r + 1) - m]
        BY <3>2, <4>1
      <4> QED BY <4>1, <4>2, <4>3
    <3>9. h[r + m]
      <4>1. r + m \in G
        BY <1>2, <3>1
      <4> HIDE DEF Rest
      <4> QED BY <3>8, <4>1
    <3> QED BY <2>1, <3>5, <3>7, <3>9 DEF IsGood, t
  <2>4. CASE r # n + 1 /\ ~Whole(s, r)
    <3>1. r + 1 \in (r + 1) .. (n + 1) /\ r \in 1 .. n
      BY <1>1, <2>4
    <3>2. /\ F[r][1] = "a"
          /\ \A k \in 2 .. (n + 1 - r) : F[r][k] = F[r + 1][k - 1]
      BY <2>4, <3>1, RepairedBytes
    <3> HIDE DEF n, t
    <3>3. t[r] = "a"
      <4>1. r \in r .. n /\ r - r + 1 = 1
        BY <1>1, <3>1
      <4>2. t[r] = F[r][r - r + 1]
        BY <1>2, <4>1
      <4> QED BY <3>2, <4>1, <4>2
    <3>4. SeqLen(t[r]) = 1 /\ Whole(t, r)
      BY <3>3 DEF SeqLen, Whole
    <3>5. Rest(r + 1)
      <4> SUFFICES ASSUME NEW k \in (r + 1) .. n PROVE t[k] = F[r + 1][k - (r + 1) + 1]
        OBVIOUS
      <4>1. /\ k \in r .. n /\ k - r + 1 \in 2 .. (n + 1 - r)
            /\ (k - r + 1) - 1 = k - (r + 1) + 1
        BY <1>1, <3>1
      <4>2. t[k] = F[r][k - r + 1]
        BY <1>2, <4>1
      <4>3. F[r][k - r + 1] = F[r + 1][(k - r + 1) - 1]
        BY <3>2, <4>1
      <4> QED BY <4>1, <4>2, <4>3
    <3>6. h[r + 1]
      <4>1. r + 1 \in G
        BY <1>2, <3>1
      <4> HIDE DEF Rest
      <4> QED BY <3>5, <4>1
    <3> QED BY <2>1, <3>4, <3>6 DEF IsGood, t
  <2> QED BY <2>2, <2>3, <2>4
<1>3. 1 .. (n + 1) \subseteq G
  <2>1. n + 1 \in Nat
    BY <1>1
  <2>2. \A r \in 1 .. (n + 1) : (\A k \in (r + 1) .. (n + 1) : k \in G) => r \in G
    BY <1>2
  <2> HIDE DEF G, n
  <2> QED BY <2>1, <2>2, Backwards
<1>4. Rest(1)
  <2> SUFFICES ASSUME NEW k \in 1 .. n PROVE t[k] = F[1][k - 1 + 1]
    OBVIOUS
  <2>1. k - 1 + 1 = k
    BY <1>1
  <2> QED BY <2>1
<1>5. 1 \in G
  BY <1>1, <1>3
<1> QED BY <1>4, <1>5

(* ... and valid text is left as it was. *)
LEMMA RepairedIsSame ==
  ASSUME NEW s \in Seq(Bytes), NEW F, IsRepaired(F, s), NEW g, IsGood(g, s), g[1]
  PROVE  F[1] = s
<1> DEFINE n == Len(s)
           G == {r \in 1 .. (n + 1) :
                   g[r] => \A k \in 1 .. (n + 1 - r) : F[r][k] = s[r + k - 1]}
<1>1. n \in Nat
  OBVIOUS
<1>2. ASSUME NEW r \in 1 .. (n + 1), \A k \in (r + 1) .. (n + 1) : k \in G, g[r],
             NEW k \in 1 .. (n + 1 - r)
      PROVE  F[r][k] = s[r + k - 1]
  <2>1. r \in 1 .. n /\ r # n + 1
    BY <1>1, <1>2
  <2>2. Whole(s, r) /\ g[r + SeqLen(s[r])]
    BY <1>2, <2>1 DEF IsGood
  <2> DEFINE m == SeqLen(s[r])
  <2>3. m \in 1 .. 4 /\ r + m \in (r + 1) .. (n + 1)
    BY <1>1, <2>1, <2>2, WholeEnds
  <2>4. /\ \A j \in 1 .. m : F[r][j] = s[r + j - 1]
        /\ \A j \in (m + 1) .. (n + 1 - r) : F[r][j] = F[r + m][j - m]
    BY <2>1, <2>2, RepairedBytes
  <2>5. r + m \in G /\ g[r + m]
    BY <1>2, <2>2, <2>3
  <2> HIDE DEF m, n
  <2>6. CASE k <= m
    <3>1. k \in 1 .. m
      BY <1>1, <2>3, <2>6
    <3> QED BY <2>4, <3>1
  <2>7. CASE ~(k <= m)
    <3>1. /\ k \in (m + 1) .. (n + 1 - r) /\ k - m \in 1 .. (n + 1 - (r + m))
          /\ (r + m) + (k - m) - 1 = r + k - 1
      BY <1>1, <2>1, <2>3, <2>7
    <3>2. F[r][k] = F[r + m][k - m]
      BY <2>4, <3>1
    <3>3. F[r + m][k - m] = s[(r + m) + (k - m) - 1]
      BY <2>5, <3>1
    <3> QED BY <3>1, <3>2, <3>3
  <2> QED BY <2>6, <2>7
<1>3. 1 .. (n + 1) \subseteq G
  <2>1. n + 1 \in Nat
    BY <1>1
  <2>2. \A r \in 1 .. (n + 1) : (\A k \in (r + 1) .. (n + 1) : k \in G) => r \in G
    BY <1>2
  <2> HIDE DEF G, n
  <2> QED BY <2>1, <2>2, Backwards
<1>4. \A k \in 1 .. n : F[1][k] = s[k]
  <2>1. 1 \in G
    <3> HIDE DEF G, n
    <3> QED BY <1>1, <1>3
  <2>2. \A k \in 1 .. (n + 1 - 1) : F[1][k] = s[1 + k - 1]
    BY <2>1
  <2> HIDE DEF G, n
  <2>3. \A k \in 1 .. n : k \in 1 .. (n + 1 - 1) /\ 1 + k - 1 = k
    BY <1>1
  <2> QED BY <2>2, <2>3
<1>5. F[1] \in Seq(Bytes) /\ Len(F[1]) = n
  BY <1>1, RepairedLength
<1> QED BY <1>4, <1>5

LEMMA TextKeptAlways == ASSUME NEW s \in Seq(Bytes) PROVE TextKept(s)
<1>1. PICK F : IsRepaired(F, s) /\ Sanitized(s) = F[1]
  BY SanitizedReads
<1>2. F[1] \in Seq(Bytes) /\ Len(F[1]) = Len(s) /\ Len(s) \in Nat
  BY <1>1, RepairedLength
<1>3. Valid(Sanitized(s)) /\ Len(Sanitized(s)) = Len(s)
  <2>1. PICK h : IsGood(h, F[1]) /\ (Valid(F[1]) <=> h[1])
    BY <1>2, ValidReads
  <2>2. h[1]
    BY <1>1, <2>1, RepairedIsValid
  <2> QED BY <1>1, <1>2, <2>1, <2>2
<1>4. PICK g : IsGood(g, s) /\ (Valid(s) <=> g[1])
  BY <1>2, ValidReads
<1>5. Valid(s) => Sanitized(s) = s
  BY <1>1, <1>4, RepairedIsSame
<1>6. ASSUME NEW room \in Rooms
      PROVE  LET short == Copy(room, s) IN
               /\ Len(short) < room /\ short = SubSeq(s, 1, Len(short))
               /\ Valid(s) => Valid(short)
               /\ Valid(s) /\ Len(short) < Len(s) =>
                    Len(short) + SeqLen(s[Len(short) + 1]) >= room
  <2> DEFINE t == Copy(room, s)
  <2>1. room \in Nat \ {0}
    BY InputAssumption
  <2>2. PICK f : IsStop(f, room, s) /\ t = SubSeq(s, 1, f[0])
    BY <2>1, CopyReads
  <2>3. f[0] \in 0 .. Len(s) /\ f[0] < room
    <3>1. 0 \in 0 .. Len(s) /\ 0 < room
      BY <1>2, <2>1
    <3> QED BY <2>1, <2>2, <3>1, StopInside
  <2>4. /\ t \in Seq(Bytes) /\ Len(t) = f[0]
        /\ \A k \in 1 .. f[0] : t[k] = s[k]
    BY <2>2, <2>3, Prefix
  <2> HIDE DEF t
  <2>5. PICK h : IsGood(h, t) /\ (Valid(t) <=> h[1])
    BY <2>4, ValidReads
  <2>6. g[1] => h[1] /\ (f[0] < Len(s) => f[0] + SeqLen(s[f[0] + 1]) >= room)
    BY <1>4, <2>1, <2>2, <2>4, <2>5, CutIsValid
  <2>7. Len(t) < room /\ t = SubSeq(s, 1, Len(t))
    BY <2>2, <2>3, <2>4
  <2>8. Valid(s) => /\ Valid(t)
                    /\ Len(t) < Len(s) => Len(t) + SeqLen(s[Len(t) + 1]) >= room
    BY <1>4, <2>4, <2>5, <2>6
  <2> QED BY <2>7, <2>8 DEF t
<1> QED BY <1>3, <1>5, <1>6 DEF TextKept

-----------------------------------------------------------------------------
(* The model's answer (json_parser.c).  FoldLeft is a recursive function on  *)
(* the subsets of the indices, which takes the largest index away first.     *)
LEMMA LargestIs ==
  ASSUME NEW m \in Nat, NEW t \in SUBSET (1 .. m), m \in t
  PROVE  Max(t) = m
<1>1. \A y \in t : m >= y
  OBVIOUS
<1>2. Max(t) \in t /\ \A y \in t : Max(t) >= y
  BY <1>1, Zenon DEF Max
<1>3. Max(t) >= m
  BY <1>2
<1>4. Max(t) \in 1 .. m
  BY <1>2, Zenon
<1> QED BY <1>3, <1>4

Steps(n, V, step) == \A k \in 1 .. n, v \in V : step[<<k, v>>] \in V

IsFold(f, n, V, base, step) ==
  /\ f \in [SUBSET (1 .. n) -> V]
  /\ \A t \in SUBSET (1 .. n) :
        f[t] = IF t = {} THEN base ELSE step[<<Max(t), f[t \ {Max(t)}]>>]

LEMMA FoldOneMore ==
  ASSUME NEW n \in Nat, NEW V, NEW base, base \in V, NEW step, Steps(n, V, step),
         NEW m \in 0 .. (n - 1), NEW f, IsFold(f, m, V, base, step)
  PROVE  \E g : IsFold(g, m + 1, V, base, step)
<1>2. /\ f \in [SUBSET (1 .. m) -> V]
      /\ \A t \in SUBSET (1 .. m) :
            f[t] = IF t = {} THEN base ELSE step[<<Max(t), f[t \ {Max(t)}]>>]
  BY DEF IsFold
<1> DEFINE g == [t \in SUBSET (1 .. (m + 1)) |->
                    IF m + 1 \in t THEN step[<<m + 1, f[t \ {m + 1}]>>] ELSE f[t]]
<1>3. /\ m \in Nat /\ m + 1 \in 1 .. n
      /\ \A t \in SUBSET (1 .. (m + 1)) : m + 1 \notin t => t \in SUBSET (1 .. m)
      /\ \A t \in SUBSET (1 .. (m + 1)) : t \ {m + 1} \in SUBSET (1 .. m)
  OBVIOUS
<1>4. \A t \in SUBSET (1 .. m) : t \in SUBSET (1 .. (m + 1)) /\ m + 1 \notin t
  BY <1>3
<1>5. \A t \in SUBSET (1 .. m) : g[t] = f[t]
  BY <1>4
<1>6. ASSUME NEW t \in SUBSET (1 .. (m + 1))
      PROVE  /\ g[t] \in V
             /\ g[t] = IF t = {} THEN base ELSE step[<<Max(t), g[t \ {Max(t)}]>>]
  <2>1. CASE m + 1 \in t
    <3>1. Max(t) = m + 1
      BY <1>3, <2>1, LargestIs
    <3>2. f[t \ {m + 1}] \in V /\ g[t \ {m + 1}] = f[t \ {m + 1}]
      BY <1>2, <1>3, <1>5
    <3>3. g[t] = step[<<m + 1, f[t \ {m + 1}]>>]
      BY <2>1
    <3> HIDE DEF g
    <3>4. step[<<m + 1, f[t \ {m + 1}]>>] \in V
      BY <1>3, <3>2 DEF Steps
    <3> QED BY <2>1, <3>1, <3>2, <3>3, <3>4
  <2>2. CASE m + 1 \notin t
    <3>1. t \in SUBSET (1 .. m) /\ g[t] = f[t] /\ f[t] \in V
      BY <1>2, <1>3, <2>2
    <3>2. t \ {Max(t)} \in SUBSET (1 .. m)
      BY <3>1
    <3> HIDE DEF g
    <3>3. g[t \ {Max(t)}] = f[t \ {Max(t)}]
      BY <1>5, <3>2
    <3> QED BY <1>2, <3>1, <3>3
  <2> QED BY <2>1, <2>2
<1>7. DOMAIN g = SUBSET (1 .. (m + 1)) /\ g = [t \in DOMAIN g |-> g[t]]
  BY Zenon
<1> HIDE DEF g
<1>8. IsFold(g, m + 1, V, base, step)
  BY <1>6, <1>7 DEF IsFold
<1> QED BY <1>8

LEMMA FoldExists ==
  ASSUME NEW n \in Nat, NEW V, NEW base, base \in V, NEW step, Steps(n, V, step)
  PROVE  \E f : IsFold(f, n, V, base, step)
<1> DEFINE G == {m \in 0 .. n : \E g : IsFold(g, m, V, base, step)}
<1>1. 0 \in G
  <2>1. SUBSET (1 .. 0) = {{}}
    OBVIOUS
  <2>2. IsFold([t \in {{}} |-> base], 0, V, base, step)
    BY <2>1 DEF IsFold
  <2> QED BY <2>2
<1>2. ASSUME NEW m \in 0 .. (n - 1), m \in G PROVE m + 1 \in G
  <2>1. \E g : IsFold(g, m + 1, V, base, step)
    BY <1>2, FoldOneMore
  <2> QED BY <2>1
<1> HIDE DEF G
<1>3. 0 .. n \subseteq G
  BY <1>1, <1>2, Upwards
<1>4. n \in G
  BY <1>3
<1>5. \E f : IsFold(f, n, V, base, step)
  BY <1>4 DEF G
<1> QED BY <1>5

-----------------------------------------------------------------------------
(* How many of the first k numbers are in a set. *)
CountsUpTo(S, n, k) ==
  /\ Cardinality(S \cap 1 .. k) \in Nat
  /\ k = 0 => Cardinality(S \cap 1 .. k) = 0
  /\ k < n => Cardinality(S \cap 1 .. (k + 1)) =
                 IF k + 1 \in S THEN Cardinality(S \cap 1 .. k) + 1
                 ELSE Cardinality(S \cap 1 .. k)
  /\ \A j \in S \cap 1 .. k : /\ Cardinality(S \cap 1 .. j) >= 1
                              /\ Cardinality(S \cap 1 .. j) <= Cardinality(S \cap 1 .. k)
                              /\ Cardinality(S \cap 1 .. j) \in Nat

LEMMA CountUpTo ==
  ASSUME NEW n \in Nat, NEW S \in SUBSET (1 .. n), NEW k \in 0 .. n
  PROVE  CountsUpTo(S, n, k)
<1>1. \A i \in Int : IsFiniteSet(S \cap 1 .. i) /\ Cardinality(S \cap 1 .. i) \in Nat
  <2> TAKE i \in Int
  <2>1. IsFiniteSet(1 .. i)
    BY FS_Interval
  <2>2. S \cap 1 .. i \in SUBSET (1 .. i)
    OBVIOUS
  <2>3. IsFiniteSet(S \cap 1 .. i)
    BY <2>1, <2>2, FS_Subset
  <2> QED BY <2>3, FS_CardinalityType
<1>2. k = 0 => Cardinality(S \cap 1 .. k) = 0
  <2>1. k = 0 => S \cap 1 .. k = {}
    OBVIOUS
  <2> QED BY <2>1, FS_EmptySet
<1>3. k < n => Cardinality(S \cap 1 .. (k + 1)) =
                  IF k + 1 \in S THEN Cardinality(S \cap 1 .. k) + 1
                  ELSE Cardinality(S \cap 1 .. k)
  <2>1. CASE k + 1 \in S
    <3>1. S \cap 1 .. (k + 1) = (S \cap 1 .. k) \cup {k + 1}
      BY <2>1
    <3>2. k + 1 \notin S \cap 1 .. k
      OBVIOUS
    <3>3. IsFiniteSet(S \cap 1 .. k)
      BY <1>1
    <3> QED BY <2>1, <3>1, <3>2, <3>3, FS_AddElement
  <2>2. CASE k + 1 \notin S
    <3>1. S \cap 1 .. (k + 1) = S \cap 1 .. k
      BY <2>2
    <3> QED BY <2>2, <3>1
  <2> QED BY <2>1, <2>2
<1>4. ASSUME NEW j \in S \cap 1 .. k
      PROVE  /\ Cardinality(S \cap 1 .. j) >= 1
             /\ Cardinality(S \cap 1 .. j) <= Cardinality(S \cap 1 .. k)
             /\ Cardinality(S \cap 1 .. j) \in Nat
  <2>1. j \in Int /\ j \in S \cap 1 .. j /\ k \in Int
    OBVIOUS
  <2>2. IsFiniteSet(S \cap 1 .. j) /\ Cardinality(S \cap 1 .. j) \in Nat
    BY <1>1, <2>1
  <2>3. Cardinality(S \cap 1 .. j) # 0
    BY <2>1, <2>2, FS_EmptySet
  <2>4. Cardinality(S \cap 1 .. j) <= Cardinality(S \cap 1 .. k)
    <3>1. S \cap 1 .. j \in SUBSET (S \cap 1 .. k)
      OBVIOUS
    <3> QED BY <1>1, <2>1, <3>1, FS_Subset
  <2> QED BY <2>2, <2>3, <2>4
<1> QED BY <1>1, <1>2, <1>3, <1>4 DEF CountsUpTo

-----------------------------------------------------------------------------
Entry(a) == [type |-> Lower(a.type), fields |-> Defaulted(a.fields)]
KeptOf(list) == {k \in DOMAIN list : WellFormed(list[k])}

LEMMA MaxIn ==
  ASSUME NEW n \in Nat, NEW t \in SUBSET (1 .. n), t # {}
  PROVE  Max(t) \in t
<1> DEFINE T == {n - k : k \in t}
<1>1. T \in SUBSET Nat /\ T # {}
  <2>1. \A k \in t : n - k \in Nat
    OBVIOUS
  <2> QED BY <2>1
<1>2. PICK d \in T : \A m \in T : d <= m
  <2> HIDE DEF T
  <2> QED BY <1>1, Least
<1>3. PICK x \in t : d = n - x
  OBVIOUS
<1>4. \A y \in t : x >= y
  <2> TAKE y \in t
  <2>1. n - y \in T
    OBVIOUS
  <2>2. n - x <= n - y
    BY <1>2, <1>3, <2>1
  <2> QED BY <2>2
<1> QED BY <1>4, Zenon DEF Max

IsValidated(it, list) ==
  it = [t \in SUBSET DOMAIN list |->
          IF t = {} THEN <<>>
          ELSE IF WellFormed(list[Max(t)])
               THEN Append(it[t \ {Max(t)}], Entry(list[Max(t)]))
               ELSE it[t \ {Max(t)}]]

LEMMA ValidatedIsFold ==
  ASSUME NEW list, \E it : IsValidated(it, list)
  PROVE  \E it : IsValidated(it, list) /\ Validated(list) = it[DOMAIN list]
BY Zenon DEF IsValidated, Entry, Validated, FoldLeft, MapThenFoldSet

LEMMA ValidatedReads ==
  ASSUME NEW E, NEW list \in Seq(E)
  PROVE  \E it : IsValidated(it, list) /\ Validated(list) = it[DOMAIN list]
<1> DEFINE n == Len(list)
           U == {Entry(list[k]) : k \in 1 .. n}
           V == Seq(U)
           step == [p \in (1 .. n) \X V |->
                      IF WellFormed(list[p[1]]) THEN Append(p[2], Entry(list[p[1]]))
                      ELSE p[2]]
<1>1. n \in Nat /\ DOMAIN list = 1 .. n
  OBVIOUS
<1>2. <<>> \in V
  OBVIOUS
<1>3. ASSUME NEW k \in 1 .. n, NEW v \in V
      PROVE  /\ step[<<k, v>>] = IF WellFormed(list[k]) THEN Append(v, Entry(list[k])) ELSE v
             /\ step[<<k, v>>] \in V
  <2>1. step[<<k, v>>] = IF WellFormed(list[k]) THEN Append(v, Entry(list[k])) ELSE v
    OBVIOUS
  <2>2. Entry(list[k]) \in U
    OBVIOUS
  <2> HIDE DEF U
  <2>3. Append(v, Entry(list[k])) \in V
    BY <2>2
  <2> QED BY <2>1, <2>3
<1> HIDE DEF n, V, step
<1>4. PICK f : IsFold(f, n, V, <<>>, step)
  <2>1. Steps(n, V, step)
    BY <1>3 DEF Steps
  <2>2. \E f : IsFold(f, n, V, <<>>, step)
    BY <1>1, <1>2, <2>1, FoldExists
  <2> QED BY <2>2
<1>5. /\ f \in [SUBSET (1 .. n) -> V]
      /\ \A t \in SUBSET (1 .. n) :
            f[t] = IF t = {} THEN <<>> ELSE step[<<Max(t), f[t \ {Max(t)}]>>]
  BY <1>4 DEF IsFold
<1>6. ASSUME NEW t \in SUBSET (1 .. n)
      PROVE  f[t] = IF t = {} THEN <<>>
                    ELSE IF WellFormed(list[Max(t)])
                         THEN Append(f[t \ {Max(t)}], Entry(list[Max(t)]))
                         ELSE f[t \ {Max(t)}]
  <2>1. CASE t = {}
    BY <1>5, <2>1
  <2>2. CASE t # {}
    <3>1. Max(t) \in 1 .. n /\ t \ {Max(t)} \in SUBSET (1 .. n)
      BY <1>1, <2>2, MaxIn
    <3>2. f[t \ {Max(t)}] \in V
      BY <1>5, <3>1
    <3>3. f[t] = step[<<Max(t), f[t \ {Max(t)}]>>]
      BY <1>5, <2>2
    <3> QED BY <1>3, <2>2, <3>1, <3>2, <3>3
  <2> QED BY <2>1, <2>2
<1>7. f = [t \in SUBSET (1 .. n) |-> f[t]]
  BY <1>5
<1>8. IsValidated(f, list)
  <2>1. f = [t \in SUBSET (1 .. n) |->
                 IF t = {} THEN <<>>
                 ELSE IF WellFormed(list[Max(t)])
                      THEN Append(f[t \ {Max(t)}], Entry(list[Max(t)]))
                      ELSE f[t \ {Max(t)}]]
    BY <1>6, <1>7, Zenon
  <2> QED BY <1>1, <2>1 DEF IsValidated
<1> QED BY <1>8, ValidatedIsFold

\* What the loop has kept of the first k entries.
IsKept(v, list, k) ==
  /\ v \in Seq({Entry(list[j]) : j \in KeptOf(list)})
  /\ Len(v) = Cardinality(KeptOf(list) \cap 1 .. k)
  /\ \A j \in KeptOf(list) \cap 1 .. k :
        v[Cardinality(KeptOf(list) \cap 1 .. j)] = Entry(list[j])

LEMMA ValidatedKeeps ==
  ASSUME NEW E, NEW list \in Seq(E)
  PROVE  IsKept(Validated(list), list, Len(list))
<1> DEFINE n == Len(list)
           kept == KeptOf(list)
           S == Seq({Entry(list[j]) : j \in kept})
<1>1. n \in Nat /\ DOMAIN list = 1 .. n /\ kept \in SUBSET (1 .. n)
  BY DEF KeptOf
<1>2. PICK it : IsValidated(it, list) /\ Validated(list) = it[DOMAIN list]
  BY ValidatedReads
<1> HIDE DEF n
<1> DEFINE G == {k \in 0 .. n : IsKept(it[1 .. k], list, k)}
<1>3. 0 \in G
  <2>1. 1 .. 0 = {} /\ {} \in SUBSET DOMAIN list
    OBVIOUS
  <2>2. it[1 .. 0] = <<>>
    BY <1>2, <2>1, Zenon DEF IsValidated
  <2>3. <<>> \in S /\ Len(<<>>) = 0
    OBVIOUS
  <2>4. kept \cap 1 .. 0 = {} /\ Cardinality({}) = 0
    BY FS_EmptySet
  <2>5. IsKept(it[1 .. 0], list, 0)
    BY <2>2, <2>3, <2>4 DEF IsKept
  <2> QED BY <1>1, <2>5
<1>4. ASSUME NEW k \in 0 .. (n - 1), k \in G
      PROVE  k + 1 \in G
  <2> DEFINE v == it[1 .. k]
             w == it[1 .. (k + 1)]
             c == Cardinality(kept \cap 1 .. k)
             d == Cardinality(kept \cap 1 .. (k + 1))
  <2>1. k \in 0 .. n /\ k < n /\ k \in Nat /\ k + 1 \in 0 .. n /\ k + 1 \in 1 .. n
    BY <1>1
  <2>2. v \in S /\ Len(v) = c
        /\ \A j \in kept \cap 1 .. k : v[Cardinality(kept \cap 1 .. j)] = Entry(list[j])
    BY <1>4 DEF IsKept
  <2>3. /\ c \in Nat /\ d = IF k + 1 \in kept THEN c + 1 ELSE c
        /\ \A j \in kept \cap 1 .. k : Cardinality(kept \cap 1 .. j) \in 1 .. c
    <3>1. /\ c \in Nat
          /\ k < n => d = IF k + 1 \in kept THEN c + 1 ELSE c
          /\ \A j \in kept \cap 1 .. k : /\ Cardinality(kept \cap 1 .. j) >= 1
                                        /\ Cardinality(kept \cap 1 .. j) <= c
                                        /\ Cardinality(kept \cap 1 .. j) \in Nat
      <4>1. CountsUpTo(kept, n, k)
        BY <1>1, <2>1, CountUpTo
      <4> QED BY <4>1 DEF CountsUpTo
    <3> HIDE DEF c, kept, d
    <3> QED BY <2>1, <3>1
  <2>4. w = IF k + 1 \in kept THEN Append(v, Entry(list[k + 1])) ELSE v
    <3>1. 1 .. (k + 1) \in SUBSET DOMAIN list /\ 1 .. (k + 1) # {}
      BY <1>1, <2>1
    <3>2. Max(1 .. (k + 1)) = k + 1
      <4>1. k + 1 \in Nat /\ 1 .. (k + 1) \in SUBSET (1 .. (k + 1)) /\ k + 1 \in 1 .. (k + 1)
        BY <2>1
      <4> QED BY <4>1, LargestIs
    <3>3. (1 .. (k + 1)) \ {k + 1} = 1 .. k
      BY <2>1
    <3>4. w = IF WellFormed(list[k + 1]) THEN Append(v, Entry(list[k + 1])) ELSE v
      BY <1>2, <3>1, <3>2, <3>3, Zenon DEF IsValidated
    <3>5. k + 1 \in kept <=> WellFormed(list[k + 1])
      BY <1>1, <2>1 DEF KeptOf
    <3> QED BY <3>4, <3>5
  <2>5. \A j \in kept \cap 1 .. (k + 1) : j = k + 1 \/ j \in kept \cap 1 .. k
    BY <2>1
  <2>6. IsKept(w, list, k + 1)
    <3>1. CASE k + 1 \in kept
      <4> DEFINE e == Entry(list[k + 1])
      <4>1. e \in {Entry(list[j]) : j \in kept}
        BY <3>1
      <4>2. w = Append(v, e) /\ d = c + 1
        BY <2>3, <2>4, <3>1
      <4> HIDE DEF e, c, d, v, w
      <4>3. /\ w \in S /\ Len(w) = c + 1 /\ w[c + 1] = e
            /\ \A i \in 1 .. c : w[i] = v[i]
        <5> DEFINE R == {Entry(list[j]) : j \in kept}
        <5> HIDE DEF R
        <5>1. Append(v, e) \in Seq(R) /\ Len(Append(v, e)) = c + 1
              /\ Append(v, e)[c + 1] = e
              /\ \A i \in 1 .. c : Append(v, e)[i] = v[i]
          <6>1. v \in Seq(R) /\ Len(v) = c /\ e \in R /\ c \in Nat
            BY <2>2, <2>3, <4>1 DEF R
          <6> QED BY <6>1
        <5> QED BY <4>2, <5>1 DEF R
      <4>4. ASSUME NEW j \in kept \cap 1 .. (k + 1)
            PROVE  w[Cardinality(kept \cap 1 .. j)] = Entry(list[j])
        <5>1. CASE j = k + 1
          BY <4>2, <4>3, <5>1 DEF d, e
        <5>2. CASE j \in kept \cap 1 .. k
          BY <2>2, <2>3, <4>3, <5>2
        <5> QED BY <2>5, <5>1, <5>2
      <4>5. Len(w) = Cardinality(kept \cap 1 .. (k + 1))
        BY <4>2, <4>3 DEF d
      <4> QED BY <4>3, <4>4, <4>5 DEF IsKept
    <3>2. CASE k + 1 \notin kept
      <4>1. w = v /\ kept \cap 1 .. (k + 1) = kept \cap 1 .. k
        BY <2>4, <2>5, <2>1, <3>2
      <4> QED BY <2>2, <4>1 DEF IsKept
    <3> QED BY <3>1, <3>2
  <2> QED BY <2>1, <2>6
<1> HIDE DEF G
<1>5. 0 .. n \subseteq G
  BY <1>1, <1>3, <1>4, Upwards
<1>6. n \in G
  BY <1>1, <1>5
<1>7. IsKept(it[1 .. n], list, n)
  BY <1>6 DEF G
<1> QED BY <1>1, <1>2, <1>7 DEF n

\* A list has only complete actions after the loop, whatever was in it.
LEMMA ValidatedComplete ==
  ASSUME NEW E, NEW list \in Seq(E)
  PROVE  \A k \in DOMAIN Validated(list) :
            /\ Validated(list)[k].type # ""
            /\ DOMAIN Validated(list)[k].fields = DOMAIN ActionDefaults
<1> SUFFICES ASSUME NEW k \in DOMAIN Validated(list)
             PROVE  /\ Validated(list)[k].type # ""
                    /\ DOMAIN Validated(list)[k].fields = DOMAIN ActionDefaults
  OBVIOUS
<1>1. PICK j \in KeptOf(list) : Validated(list)[k] = Entry(list[j])
  <2>1. Validated(list) \in Seq({Entry(list[j]) : j \in KeptOf(list)})
    BY ValidatedKeeps DEF IsKept
  <2> DEFINE R == {Entry(list[j]) : j \in KeptOf(list)}
  <2>2. Validated(list)[k] \in R
    <3> HIDE DEF R
    <3>1. Validated(list) \in Seq(R)
      BY <2>1 DEF R
    <3> QED BY <3>1
  <2> QED BY <2>2
<1>2. list[j].type # ""
  BY DEF KeptOf, WellFormed
<1>3. Lower(list[j].type) # ""
  BY <1>2 DEF Lower
<1>4. DOMAIN Defaulted(list[j].fields) = DOMAIN ActionDefaults
  BY DEF Defaulted
<1>5. /\ Entry(list[j]).type = Lower(list[j].type)
      /\ Entry(list[j]).fields = Defaulted(list[j].fields)
  BY DEF Entry
<1> QED BY <1>1, <1>3, <1>4, <1>5

LEMMA AnswerAlwaysUsable ==
  ASSUME NEW answer, answer.object.list \in Seq(ToSet(answer.object.list))
  PROVE  AnswerUsable(answer)
<1> DEFINE o == answer.object
           got == Parse(answer)
           lone == Wrapped(o)
           kept == {k \in DOMAIN o.list : WellFormed(o.list[k])}
           wanted == /\ \A k \in DOMAIN got.actions :
                           /\ got.actions[k].type # ""
                           /\ DOMAIN got.actions[k].fields = DOMAIN ActionDefaults
                     /\ o.actions = "array" =>
                           /\ Len(got.actions) = Cardinality(kept)
                           /\ \A k \in kept :
                                 got.actions[Cardinality(kept \cap 1 .. k)].type
                                    = Lower(o.list[k].type)
                     /\ o.done # Absent => got.done = o.done
                     /\ (o.actions = Absent /\ o.action_type = "error" /\ o.done = Absent)
                           => got.done = "true"
<1>1. CASE got = Refused
  BY <1>1 DEF AnswerUsable
<1>2. CASE got # Refused /\ Lone(o) /\ o.action_type = "error"
  <2>1. got = ResponseDefaults(o, <<>>, "true")
    BY <1>2, Zenon DEF Parse
  <2>2. got.actions = <<>> /\ got.done = (IF o.done = Absent THEN "true" ELSE o.done)
    BY <2>1 DEF ResponseDefaults
  <2>3. o.actions # "array"
    BY <1>2 DEF Lone, Absent
  <2> HIDE DEF got
  <2>4. wanted
    BY <2>2, <2>3
  <2> QED BY <2>4 DEF AnswerUsable, got
<1>3. CASE got # Refused /\ Lone(o) /\ o.action_type # "error"
  <2>1. got = ResponseDefaults(o, Validated(lone), "false")
    BY <1>3, Zenon DEF Parse
  <2>2. /\ got.actions = Validated(lone)
        /\ got.done = (IF o.done = Absent THEN "false" ELSE o.done)
    BY <2>1 DEF ResponseDefaults
  <2>3. o.actions # "array"
    BY <1>3 DEF Lone, Absent
  <2>4. lone \in Seq({lone[1]})
    BY DEF Wrapped
  <2> HIDE DEF got, lone
  <2>5. \A k \in DOMAIN got.actions :
            /\ got.actions[k].type # ""
            /\ DOMAIN got.actions[k].fields = DOMAIN ActionDefaults
    BY <2>2, <2>4, ValidatedComplete
  <2>6. wanted
    BY <1>3, <2>2, <2>3, <2>5
  <2> QED BY <2>6 DEF AnswerUsable, got
<1>4. CASE got # Refused /\ ~Lone(o)
  <2>1. got = ResponseDefaults(o, Validated(o.list), "false") /\ o.actions = "array"
    BY <1>4, Zenon DEF Parse
  <2>2. /\ got.actions = Validated(o.list)
        /\ got.done = (IF o.done = Absent THEN "false" ELSE o.done)
    BY <2>1 DEF ResponseDefaults
  <2>3. o.actions # Absent
    BY <2>1 DEF Absent
  <2> HIDE DEF got
  <2>4. \A k \in DOMAIN got.actions :
            /\ got.actions[k].type # ""
            /\ DOMAIN got.actions[k].fields = DOMAIN ActionDefaults
    BY <2>2, ValidatedComplete
  <2>5. /\ Len(got.actions) = Cardinality(kept)
        /\ \A k \in kept : got.actions[Cardinality(kept \cap 1 .. k)] = Entry(o.list[k])
    <3>1. IsKept(got.actions, o.list, Len(o.list))
      BY <2>2, ValidatedKeeps
    <3>2. kept = KeptOf(o.list) /\ kept \cap 1 .. Len(o.list) = kept
      BY DEF KeptOf
    <3> HIDE DEF kept
    <3> QED BY <3>1, <3>2 DEF IsKept
  <2>6. \A k \in kept : got.actions[Cardinality(kept \cap 1 .. k)].type = Lower(o.list[k].type)
    <3>1. ASSUME NEW a PROVE Entry(a).type = Lower(a.type)
      BY DEF Entry
    <3> HIDE DEF kept
    <3> QED BY <2>5, <3>1
  <2>7. wanted
    BY <2>2, <2>3, <2>4, <2>5, <2>6
  <2> QED BY <2>7 DEF AnswerUsable, got
<1> QED BY <1>1, <1>2, <1>3, <1>4

(* TextsKept, whatever the answers and the texts: an accepted answer keeps its *)
(* actions in their order, each of them complete, and its own verdict; and a   *)
(* text that is cut or repaired is valid UTF-8, and no shorter than it must be. *)
THEOREM TextsAlwaysKept == Spec => []TextsKept
<1>1. InputOK => TextsKept
  <2> SUFFICES ASSUME InputOK PROVE TextsKept
    OBVIOUS
  <2>1. ASSUME input.kind = "answer" PROVE AnswerUsable(input.answer)
    <3>1. input.answer \in Answers
      BY <2>1, InputKinds
    <3>2. input.answer.object.list \in Seq(ToSet(input.answer.object.list))
      BY <3>1, InputAssumption
    <3> QED BY <3>2, AnswerAlwaysUsable
  <2>2. ASSUME input.kind = "text" PROVE TextKept(input.text)
    <3>1. input.text \in Seq(Bytes)
      BY <2>2, InputKinds, InputAssumption
    <3> QED BY <3>1, TextKeptAlways
  <2> QED BY <2>1, <2>2 DEF TextsKept
<1> QED BY <1>1, InputAlways, PTL

-----------------------------------------------------------------------------
(* The first number of a set is its least, and 0 stands for none. *)
LEMMA FirstIs ==
  ASSUME NEW S, S \in SUBSET Nat, NEW m \in S, \A x \in S : m <= x
  PROVE  FirstOf(S) = m
<1>1. Min(S) \in S /\ \A y \in S : Min(S) <= y
  BY Zenon DEF Min
<1>2. Min(S) \in Nat /\ Min(S) <= m /\ m <= Min(S)
  BY <1>1
<1>3. Min(S) = m /\ S # {}
  BY <1>2
<1> QED BY <1>3 DEF FirstOf

(* A function that walks over a list from its beginning exists, too. *)
IsWalk(w, n, V, base, step) ==
  /\ w \in [0 .. n -> V] /\ w[0] = base
  /\ \A k \in 1 .. n : w[k] = step[<<k, w[k - 1]>>]

LEMMA WalkExists ==
  ASSUME NEW n \in Nat, NEW V, NEW base, base \in V, NEW step, Steps(n, V, step)
  PROVE  \E f, w : IsFold(f, n, V, base, step) /\ IsWalk(w, n, V, base, step)
                   /\ w[n] = f[1 .. n]
<1>1. PICK f : IsFold(f, n, V, base, step)
  BY FoldExists
<1>2. /\ f \in [SUBSET (1 .. n) -> V]
      /\ \A t \in SUBSET (1 .. n) :
            f[t] = IF t = {} THEN base ELSE step[<<Max(t), f[t \ {Max(t)}]>>]
  BY <1>1 DEF IsFold
<1> DEFINE w == [k \in 0 .. n |-> f[1 .. k]]
<1>3. w \in [0 .. n -> V] /\ w[0] = base /\ w[n] = f[1 .. n]
  <2>1. \A k \in 0 .. n : 1 .. k \in SUBSET (1 .. n)
    OBVIOUS
  <2>2. 1 .. 0 = {} /\ 0 \in 0 .. n /\ n \in 0 .. n
    OBVIOUS
  <2>3. f[{}] = base
    BY <1>2
  <2>4. \A k \in 0 .. n : f[1 .. k] \in V
    BY <1>2, <2>1
  <2> QED BY <2>2, <2>3, <2>4
<1>4. ASSUME NEW k \in 1 .. n PROVE w[k] = step[<<k, w[k - 1]>>]
  <2>1. 1 .. k \in SUBSET (1 .. n) /\ k \in 1 .. k /\ (1 .. k) \ {k} = 1 .. (k - 1) /\ 1 .. k # {}
    OBVIOUS
  <2>2. Max(1 .. k) = k
    <3>1. k \in Nat /\ 1 .. k \in SUBSET (1 .. k)
      OBVIOUS
    <3> QED BY <2>1, <3>1, LargestIs
  <2>3. f[1 .. k] = step[<<k, f[1 .. (k - 1)]>>]
    BY <1>2, <2>1, <2>2
  <2>4. k \in 0 .. n /\ k - 1 \in 0 .. n
    OBVIOUS
  <2>5. w[k] = f[1 .. k] /\ w[k - 1] = f[1 .. (k - 1)]
    BY <2>4
  <2> HIDE DEF w
  <2> QED BY <2>3, <2>5
<1> HIDE DEF w
<1>5. IsWalk(w, n, V, base, step)
  BY <1>3, <1>4 DEF IsWalk
<1> QED BY <1>1, <1>3, <1>5

(* A sequence of sequences laid end to end, each at its offset. *)
IsLaid(out, seqs, off) ==
  LET n == Len(seqs) IN
  /\ off \in [0 .. n -> Nat] /\ off[0] = 0 /\ Len(out) = off[n]
  /\ \A k \in 1 .. n : off[k] = off[k - 1] + Len(seqs[k])
  /\ \A j, k \in 0 .. n : j <= k => off[j] <= off[k]
  /\ \A k \in 1 .. n : \A q \in 1 .. Len(seqs[k]) : out[off[k - 1] + q] = seqs[k][q]
  /\ \A p \in 1 .. Len(out) : \E k \in 1 .. n : \E q \in 1 .. Len(seqs[k]) : p = off[k - 1] + q

IsFlat(fl, seqs) ==
  fl = [i \in 1 .. Len(seqs) |-> IF i = 1 THEN seqs[i] ELSE fl[i - 1] \o seqs[i]]

LEMMA FlattenIs ==
  ASSUME NEW seqs, Len(seqs) # 0, \E fl : IsFlat(fl, seqs)
  PROVE  \E fl : IsFlat(fl, seqs) /\ FlattenSeq(seqs) = fl[Len(seqs)]
BY Zenon DEF IsFlat, FlattenSeq

LEMMA FlattenWalks ==
  ASSUME NEW E, NEW seqs \in Seq(Seq(E)), seqs # <<>>
  PROVE  \E w : /\ w \in [0 .. Len(seqs) -> Seq(E)] /\ w[0] = <<>>
                /\ \A k \in 1 .. Len(seqs) : w[k] = w[k - 1] \o seqs[k]
                /\ FlattenSeq(seqs) = w[Len(seqs)]
<1> DEFINE n == Len(seqs)
           V == Seq(E)
           step == [p \in (1 .. n) \X V |-> p[2] \o seqs[p[1]]]
<1>1. n \in Nat \ {0} /\ <<>> \in V /\ \A k \in 1 .. n : seqs[k] \in V
  OBVIOUS
<1>2. ASSUME NEW k \in 1 .. n, NEW v \in V
      PROVE  step[<<k, v>>] = v \o seqs[k] /\ v \o seqs[k] \in V
  <2>1. step[<<k, v>>] = v \o seqs[k]
    OBVIOUS
  <2>2. v \o seqs[k] \in Seq(E)
    BY <1>1, ConcatProperties
  <2> QED BY <2>1, <2>2
<1> HIDE DEF step, n, V
<1>3. PICK w : IsWalk(w, n, V, <<>>, step)
  <2>1. Steps(n, V, step)
    BY <1>2 DEF Steps
  <2> QED BY <1>1, <2>1, WalkExists
<1>4. /\ w \in [0 .. n -> V] /\ w[0] = <<>>
      /\ \A k \in 1 .. n : w[k] = w[k - 1] \o seqs[k]
  <2>1. /\ w \in [0 .. n -> V] /\ w[0] = <<>>
        /\ \A k \in 1 .. n : w[k] = step[<<k, w[k - 1]>>]
    BY <1>3 DEF IsWalk
  <2>2. \A k \in 1 .. n : w[k - 1] \in V
    BY <1>1, <2>1
  <2> QED BY <1>2, <2>1, <2>2
<1> DEFINE fl == [i \in 1 .. n |-> w[i]]
<1>5. ASSUME NEW i \in 1 .. n
      PROVE  w[i] = IF i = 1 THEN seqs[i] ELSE fl[i - 1] \o seqs[i]
  <2>1. <<>> \o seqs[i] = seqs[i]
    BY <1>1, ConcatEmptySeq DEF V
  <2>2. w[i] = w[i - 1] \o seqs[i]
    BY <1>4
  <2>3. i # 1 => i - 1 \in 1 .. n
    BY <1>1
  <2>4. i # 1 => fl[i - 1] = w[i - 1]
    BY <2>3
  <2>5. i = 1 => w[i - 1] = <<>>
    BY <1>4
  <2> HIDE DEF fl
  <2> QED BY <2>1, <2>2, <2>4, <2>5
<1>6. \A i \in 1 .. n : fl[i] = w[i]
  OBVIOUS
<1>7. fl = [i \in 1 .. n |-> IF i = 1 THEN seqs[i] ELSE fl[i - 1] \o seqs[i]]
  <2>1. fl = [i \in 1 .. n |-> w[i]]
    OBVIOUS
  <2> HIDE DEF fl
  <2> QED BY <1>5, <2>1
<1>8. IsFlat(fl, seqs)
  BY <1>7, Zenon DEF IsFlat, n
<1> HIDE DEF fl
<1>9. PICK g : IsFlat(g, seqs) /\ FlattenSeq(seqs) = g[n]
  BY <1>1, <1>8, FlattenIs DEF n
<1>10. ASSUME NEW i \in 1 .. n PROVE g[i] = w[i]
  <2> DEFINE G == {m \in 0 .. n : m = 0 \/ g[m] = w[m]}
  <2>0. \A m \in 1 .. n : g[m] = IF m = 1 THEN seqs[m] ELSE g[m - 1] \o seqs[m]
    BY <1>9 DEF IsFlat, n
  <2>1. 0 \in G
    BY <1>1
  <2>2. ASSUME NEW m \in 0 .. (n - 1), m \in G PROVE m + 1 \in G
    <3>1. m + 1 \in 1 .. n /\ (m + 1) - 1 = m
      BY <1>1
    <3>2. w[m + 1] = w[m] \o seqs[m + 1]
      BY <1>4, <3>1
    <3>3. g[m + 1] = w[m + 1]
      <4>1. CASE m = 0
        <5>1. 1 \in 1 .. n /\ 1 - 1 = 0
          BY <1>1
        <5>2. w[1] = w[0] \o seqs[1]
          BY <1>4, <5>1
        <5>3. <<>> \o seqs[1] = seqs[1]
          BY <1>1, <5>1, ConcatEmptySeq DEF V
        <5>4. g[1] = seqs[1]
          BY <2>0, <5>1
        <5> QED BY <1>4, <4>1, <5>2, <5>3, <5>4
      <4>2. CASE m # 0
        <5>1. g[m] = w[m] /\ m + 1 # 1
          BY <2>2, <3>1, <4>2
        <5>2. g[m + 1] = g[m] \o seqs[m + 1]
          BY <2>0, <3>1, <5>1
        <5> QED BY <3>2, <5>1, <5>2
      <4> QED BY <4>1, <4>2
    <3>4. m + 1 \in 0 .. n
      BY <1>1
    <3> QED BY <3>3, <3>4
  <2> HIDE DEF G
  <2>3. 0 .. n \subseteq G
    BY <1>1, <2>1, <2>2, Upwards
  <2>4. i \in G
    BY <1>1, <2>3
  <2>5. i # 0
    BY <1>1
  <2> QED BY <2>4, <2>5 DEF G
<1>11. FlattenSeq(seqs) = w[n]
  BY <1>1, <1>9, <1>10
<1> QED BY <1>4, <1>11 DEF n, V

LEMMA Within ==
  ASSUME NEW a \in Nat, NEW l \in Nat, NEW c \in Nat, a + l <= c, NEW q \in 1 .. l
  PROVE  a + q \in 1 .. c
OBVIOUS

LEMMA Joined ==
  ASSUME NEW E, NEW s \in Seq(E), NEW t \in Seq(E)
  PROVE  /\ s \o t \in Seq(E) /\ Len(s \o t) = Len(s) + Len(t)
         /\ \A p \in 1 .. Len(s) : (s \o t)[p] = s[p]
         /\ \A q \in 1 .. Len(t) : (s \o t)[Len(s) + q] = t[q]
<1> DEFINE a == Len(s)
           b == Len(t)
<1>1. a \in Nat /\ b \in Nat
  OBVIOUS
<1>2. /\ s \o t \in Seq(E) /\ Len(s \o t) = a + b
      /\ \A i \in 1 .. (a + b) : (s \o t)[i] = IF i <= a THEN s[i] ELSE t[i - a]
  BY ConcatProperties
<1> HIDE DEF a, b
<1>3. \A p \in 1 .. a : p \in 1 .. (a + b) /\ p <= a
  BY <1>1
<1>4. \A q \in 1 .. b : a + q \in 1 .. (a + b) /\ ~(a + q <= a) /\ (a + q) - a = q
  BY <1>1
<1> QED BY <1>2, <1>3, <1>4 DEF a, b

LEMMA Flattened ==
  ASSUME NEW E, NEW seqs \in Seq(Seq(E)), seqs # <<>>
  PROVE  /\ FlattenSeq(seqs) \in Seq(E)
         /\ \E off : IsLaid(FlattenSeq(seqs), seqs, off)
<1> DEFINE n == Len(seqs)
<1>1. PICK w : /\ w \in [0 .. n -> Seq(E)] /\ w[0] = <<>>
               /\ \A k \in 1 .. n : w[k] = w[k - 1] \o seqs[k]
               /\ FlattenSeq(seqs) = w[n]
  BY FlattenWalks
<1>2. n \in Nat /\ \A k \in 1 .. n : seqs[k] \in Seq(E) /\ Len(seqs[k]) \in Nat
  OBVIOUS
<1> HIDE DEF n
<1> DEFINE off == [k \in 0 .. n |-> Len(w[k])]
<1>3. off \in [0 .. n -> Nat] /\ off[0] = 0
  BY <1>1, <1>2
<1>4. ASSUME NEW k \in 1 .. n PROVE off[k] = off[k - 1] + Len(seqs[k])
  <2>1. k \in 0 .. n /\ k - 1 \in 0 .. n
    BY <1>2
  <2>2. w[k] = w[k - 1] \o seqs[k] /\ w[k - 1] \in Seq(E) /\ seqs[k] \in Seq(E)
    BY <1>1, <1>2, <2>1
  <2>3. Len(w[k]) = Len(w[k - 1]) + Len(seqs[k])
    BY <2>2, ConcatProperties
  <2> QED BY <2>1, <2>3
<1>5. ASSUME NEW k \in 1 .. n
      PROVE  /\ \A p \in 1 .. off[k - 1] : w[k][p] = w[k - 1][p]
             /\ \A q \in 1 .. Len(seqs[k]) : w[k][off[k - 1] + q] = seqs[k][q]
  <2>1. w[k] = w[k - 1] \o seqs[k] /\ w[k - 1] \in Seq(E) /\ seqs[k] \in Seq(E)
        /\ off[k - 1] = Len(w[k - 1])
    <3>1. k - 1 \in 0 .. n
      BY <1>2
    <3> QED BY <1>1, <1>2, <3>1
  <2> HIDE DEF off
  <2>2. w[k - 1] \in Seq(E) /\ seqs[k] \in Seq(E)
    BY <2>1
  <2>3. /\ \A p \in 1 .. Len(w[k - 1]) : (w[k - 1] \o seqs[k])[p] = w[k - 1][p]
        /\ \A q \in 1 .. Len(seqs[k]) : (w[k - 1] \o seqs[k])[Len(w[k - 1]) + q] = seqs[k][q]
    <3> DEFINE a == w[k - 1]
               b == seqs[k]
    <3>1. a \in Seq(E) /\ b \in Seq(E)
      BY <2>2
    <3> HIDE DEF a, b
    <3>2. /\ \A p \in 1 .. Len(a) : (a \o b)[p] = a[p]
          /\ \A q \in 1 .. Len(b) : (a \o b)[Len(a) + q] = b[q]
      BY <3>1, Joined
    <3> QED BY <3>2 DEF a, b
  <2>4. w[k] = w[k - 1] \o seqs[k] /\ off[k - 1] = Len(w[k - 1])
    BY <2>1
  <2> QED BY <2>3, <2>4
<1>6. \A k \in 0 .. n : Len(w[k]) = off[k]
  OBVIOUS
<1> HIDE DEF off
<1> DEFINE Holds(m) ==
      /\ \A j \in 0 .. m : off[j] <= off[m]
      /\ \A k \in 1 .. m : \A q \in 1 .. Len(seqs[k]) : w[m][off[k - 1] + q] = seqs[k][q]
      /\ \A p \in 1 .. off[m] :
            \E k \in 1 .. m : \E q \in 1 .. Len(seqs[k]) : p = off[k - 1] + q
    G == {m \in 0 .. n : Holds(m)}
<1>7. 0 \in G
  BY <1>2, <1>3
<1>8. ASSUME NEW m \in 0 .. (n - 1), m \in G PROVE m + 1 \in G
  <2>0. Holds(m)
    BY <1>8
  <2>1. m + 1 \in 1 .. n /\ (m + 1) - 1 = m /\ off[m + 1] = off[m] + Len(seqs[m + 1])
        /\ off[m] \in Nat /\ Len(seqs[m + 1]) \in Nat
    BY <1>2, <1>3, <1>4
  <2>2. ASSUME NEW j \in 0 .. (m + 1) PROVE off[j] <= off[m + 1]
    <3>1. j = m + 1 \/ j \in 0 .. m
      BY <2>1
    <3>2. j \in 0 .. n
      BY <2>1, <1>2
    <3> QED BY <1>3, <2>0, <2>1, <3>1, <3>2
  <2>3. ASSUME NEW k \in 1 .. (m + 1), NEW q \in 1 .. Len(seqs[k])
        PROVE  w[m + 1][off[k - 1] + q] = seqs[k][q]
    <3>1. CASE k = m + 1
      BY <1>5, <2>1, <3>1
    <3>2. CASE k \in 1 .. m
      <4>0. k \in 0 .. m /\ k \in 1 .. n /\ k - 1 \in 0 .. n
        BY <1>2, <2>1, <3>2
      <4>1. off[k] = off[k - 1] + Len(seqs[k]) /\ off[k - 1] \in Nat /\ Len(seqs[k]) \in Nat
            /\ off[k] <= off[m]
        BY <1>2, <1>3, <1>4, <2>0, <4>0
      <4>2. off[k - 1] + q \in 1 .. off[m]
        <5>1. off[m] \in Nat /\ off[k - 1] + Len(seqs[k]) <= off[m]
          BY <2>1, <4>1
        <5> QED BY <4>1, <5>1, Within
      <4>3. w[m + 1][off[k - 1] + q] = w[m][off[k - 1] + q]
        BY <1>5, <2>1, <4>2
      <4> QED BY <2>0, <3>2, <4>3
    <3> QED BY <3>1, <3>2
  <2>4. ASSUME NEW p \in 1 .. off[m + 1]
        PROVE  \E k \in 1 .. (m + 1) : \E q \in 1 .. Len(seqs[k]) : p = off[k - 1] + q
    <3>1. CASE p \in 1 .. off[m]
      <4>1. PICK k \in 1 .. m : \E q \in 1 .. Len(seqs[k]) : p = off[k - 1] + q
        BY <2>0, <3>1
      <4>2. k \in 1 .. (m + 1)
        OBVIOUS
      <4> QED BY <4>1, <4>2
    <3>2. CASE p \notin 1 .. off[m]
      <4>1. p - off[m] \in 1 .. Len(seqs[m + 1]) /\ p = off[m] + (p - off[m])
        BY <2>1, <3>2
      <4>2. m + 1 \in 1 .. (m + 1)
        OBVIOUS
      <4> QED BY <2>1, <4>1, <4>2
    <3> QED BY <3>1, <3>2
  <2>5. Holds(m + 1)
    BY <2>2, <2>3, <2>4
  <2> HIDE DEF Holds
  <2> QED BY <2>1, <2>5
<1> HIDE DEF G
<1>9. 0 .. n \subseteq G
  BY <1>2, <1>7, <1>8, Upwards
<1>10. \A m \in 0 .. n : Holds(m)
  BY <1>9 DEF G
<1>11. \A j, k \in 0 .. n : j <= k => off[j] <= off[k]
  <2> TAKE j, k \in 0 .. n
  <2>1. j <= k => j \in 0 .. k
    OBVIOUS
  <2> QED BY <1>10, <2>1
<1>12. n \in 0 .. n /\ Len(w[n]) = off[n] /\ Holds(n)
  <2> HIDE DEF Holds
  <2> QED BY <1>2, <1>6, <1>10
<1>13. IsLaid(w[n], seqs, off)
  BY <1>3, <1>4, <1>11, <1>12 DEF IsLaid, n
<1> QED BY <1>1, <1>12, <1>13 DEF n
-----------------------------------------------------------------------------
(* The descriptors of a camera (uvc_descriptor_parsing.c).                   *)
FormatDesc(f, i) == [Plain EXCEPT !.kind = "format", !.index = i, !.format = f.format,
                                  !.frames = Len(f.frames)]
FrameDesc(r, j) == [Plain EXCEPT !.kind = "frame", !.index = j, !.res = r.res,
                                 !.intervals = r.intervals, !.from = r.from, !.to = r.to,
                                 !.step = r.step]
Closing == [Plain EXCEPT !.kind = "class", !.index = 1]

BodyDescriptors ==
       {FormatDesc(f, i) : f \in FormatRecords, i \in Nat}
  \cup {FrameDesc(r, j) : r \in FrameRecords, j \in Nat} \cup {Closing}

IsFormatOf(d, f, i) ==
  d.kind = "format" /\ d.index = i /\ d.format = f.format /\ d.frames = Len(f.frames)

IsFrameOf(d, r, j) ==
  /\ d.kind = "frame" /\ d.index = j /\ d.res = r.res /\ d.intervals = r.intervals
  /\ d.from = r.from /\ d.to = r.to /\ d.step = r.step

LEMMA FormatReads == ASSUME NEW f, NEW i PROVE IsFormatOf(FormatDesc(f, i), f, i)
BY DEF IsFormatOf, FormatDesc, Plain

LEMMA FrameReads == ASSUME NEW r, NEW j PROVE IsFrameOf(FrameDesc(r, j), r, j)
BY DEF IsFrameOf, FrameDesc, Plain

LEMMA ClosingReads == Closing.kind = "class" /\ Closing.index = 1
BY DEF Closing, Plain

IsBlock(b, f, i) ==
  /\ b \in Seq(BodyDescriptors)
  /\ Len(b) = Len(f.frames) + 1 + IF f.closed THEN 1 ELSE 0
  /\ IsFormatOf(b[1], f, i)
  /\ \A j \in 1 .. Len(f.frames) : IsFrameOf(b[1 + j], f.frames[j], j)
  /\ f.closed => b[Len(f.frames) + 2].kind = "class"

LEMMA FramesRead ==
  ASSUME NEW frames \in Seq(FrameRecords)
  PROVE  /\ FrameDescriptors(frames) \in Seq(BodyDescriptors)
         /\ Len(FrameDescriptors(frames)) = Len(frames)
         /\ \A j \in 1 .. Len(frames) : IsFrameOf(FrameDescriptors(frames)[j], frames[j], j)
<1>1. Len(frames) \in Nat /\ DOMAIN frames = 1 .. Len(frames)
  OBVIOUS
<1>2. FrameDescriptors(frames) = [j \in 1 .. Len(frames) |-> FrameDesc(frames[j], j)]
  BY <1>1, Zenon DEF FrameDescriptors, FrameDesc
<1>3. \A j \in 1 .. Len(frames) : frames[j] \in FrameRecords /\ j \in Nat
  OBVIOUS
<1>4. \A j \in 1 .. Len(frames) : FrameDesc(frames[j], j) \in BodyDescriptors
  BY <1>3, SMT DEF BodyDescriptors
<1>5. \A j \in 1 .. Len(frames) : IsFrameOf(FrameDesc(frames[j], j), frames[j], j)
  BY FrameReads
<1> QED BY <1>1, <1>2, <1>4, <1>5

LEMMA BlockReads ==
  ASSUME NEW f \in FormatRecords, NEW i \in Nat
  PROVE  IsBlock(FormatBlock(f, i), f, i)
<1> DEFINE head == FormatDesc(f, i)
           s == <<head>>
           fr == FrameDescriptors(f.frames)
           tail == IF f.closed THEN <<Closing>> ELSE <<>>
           a == s \o fr
           n == Len(f.frames)
<1>1. f.frames \in Seq(FrameRecords) /\ f.closed \in BOOLEAN /\ n \in Nat
  BY DEF FormatRecords
<1>2. head \in BodyDescriptors /\ Closing \in BodyDescriptors
  BY SMT DEF BodyDescriptors
<1>3. IsFormatOf(head, f, i)
  BY FormatReads
<1>4. /\ fr \in Seq(BodyDescriptors) /\ Len(fr) = n
      /\ \A j \in 1 .. n : IsFrameOf(fr[j], f.frames[j], j)
  BY <1>1, FramesRead
<1>5. FormatBlock(f, i) = a \o tail
  BY Zenon DEF FormatBlock, FormatDesc, Closing
<1> HIDE DEF head, fr
<1>6. s \in Seq(BodyDescriptors) /\ Len(s) = 1 /\ s[1] = head /\ 1 \in 1 .. 1
  BY <1>2
<1>7. /\ tail \in Seq(BodyDescriptors) /\ Len(tail) = IF f.closed THEN 1 ELSE 0
      /\ f.closed => tail[1] = Closing
  BY <1>2
<1> HIDE DEF s, tail
<1> HIDE DEF a
<1>8. /\ a \in Seq(BodyDescriptors) /\ Len(a) = Len(s) + Len(fr)
      /\ \A p \in 1 .. Len(s) : a[p] = s[p]
      /\ \A q \in 1 .. Len(fr) : a[Len(s) + q] = fr[q]
  <2>1. s \in Seq(BodyDescriptors) /\ fr \in Seq(BodyDescriptors)
    BY <1>4, <1>6
  <2>2. /\ s \o fr \in Seq(BodyDescriptors) /\ Len(s \o fr) = Len(s) + Len(fr)
        /\ \A p \in 1 .. Len(s) : (s \o fr)[p] = s[p]
        /\ \A q \in 1 .. Len(fr) : (s \o fr)[Len(s) + q] = fr[q]
    BY <2>1, Joined
  <2> QED BY <2>2 DEF a
<1>9. Len(a) = 1 + n /\ a[1] = head /\ \A j \in 1 .. n : a[1 + j] = fr[j]
  BY <1>4, <1>6, <1>8
<1>10. a \in Seq(BodyDescriptors) /\ tail \in Seq(BodyDescriptors)
  BY <1>7, <1>8
<1>11. /\ a \o tail \in Seq(BodyDescriptors) /\ Len(a \o tail) = Len(a) + Len(tail)
       /\ \A p \in 1 .. Len(a) : (a \o tail)[p] = a[p]
       /\ \A q \in 1 .. Len(tail) : (a \o tail)[Len(a) + q] = tail[q]
  BY <1>10, Joined
<1> DEFINE b == a \o tail
<1> HIDE DEF b, n
<1>12. /\ b \in Seq(BodyDescriptors) /\ Len(b) = (1 + n) + (IF f.closed THEN 1 ELSE 0)
       /\ \A p \in 1 .. (1 + n) : b[p] = a[p]
       /\ f.closed => b[(1 + n) + 1] = Closing
  BY <1>7, <1>9, <1>11 DEF b
<1>13. b[1] = head
  BY <1>1, <1>9, <1>12
<1>14. \A j \in 1 .. n : b[1 + j] = fr[j]
  BY <1>1, <1>9, <1>12
<1>15. f.closed => b[n + 2] = Closing
  BY <1>1, <1>12
<1>16. Len(b) = n + 1 + IF f.closed THEN 1 ELSE 0
  BY <1>1, <1>12
<1>17. FormatBlock(f, i) = b
  BY <1>5 DEF b
<1>18. \A j \in 1 .. n : IsFrameOf(b[1 + j], f.frames[j], j)
  BY <1>4, <1>14
<1>19. IsFormatOf(b[1], f, i) /\ (f.closed => b[n + 2].kind = "class")
  BY <1>3, <1>13, <1>15, ClosingReads
<1>20. IsBlock(b, f, i)
  BY <1>12, <1>16, <1>18, <1>19 DEF IsBlock, n
<1> QED BY <1>17, <1>20

(* A camera as InputAssumption has it. *)
IsCamera(cam) ==
  /\ cam.formats \in Seq(FormatRecords) /\ cam.formats # <<>>
  /\ cam.packets \in Seq(Nat \ {0}) /\ cam.bulk \in Nat /\ cam.overclaims \in Nat
  /\ \A k \in DOMAIN cam.formats :
       /\ cam.formats[k].format # "none"
       /\ cam.formats[k].frames # <<>>
       /\ \A j \in DOMAIN cam.formats :
            cam.formats[j].format = cam.formats[k].format
                => j = k \/ cam.formats[k].format = "unknown"

Size(f) == Len(f.frames) + 1 + IF f.closed THEN 1 ELSE 0

\* Where the blocks of the formats are: off[k - 1] descriptors before the k-th.
Offsets(cam, off, total) ==
  LET n == Len(cam.formats) IN
  /\ off \in [0 .. n -> Nat] /\ off[0] = 0 /\ total = off[n] /\ total \in Nat
  /\ \A k \in 1 .. n : off[k] = off[k - 1] + Size(cam.formats[k])
  /\ \A j, k \in 0 .. n : j <= k => off[j] <= off[k]
  /\ \A p \in 1 .. total :
        \E k \in 1 .. n : \E q \in 1 .. Size(cam.formats[k]) : p = off[k - 1] + q

\* A format and what follows it, behind position `at`.
BlockAt(ds, at, f, i) ==
  /\ IsFormatOf(ds[at + 1], f, i)
  /\ \A j \in 1 .. Len(f.frames) : IsFrameOf(ds[at + 1 + j], f.frames[j], j)
  /\ f.closed => ds[at + Len(f.frames) + 2].kind = "class"

IsSetting(d, a, packet) ==
  /\ d.kind = "interface" /\ d.number = 2 /\ d.setting = a /\ d.mps = packet
  /\ d.video = TRUE /\ d.streaming = TRUE /\ d.endpoints = IF packet = 0 THEN 0 ELSE 1

LEMMA SettingReads == ASSUME NEW a, NEW x PROVE IsSetting(Setting(2, a, x), a, x)
BY DEF Setting, IsSetting, Plain

LEMMA BodyLaid ==
  ASSUME NEW cam, IsCamera(cam)
  PROVE  /\ StreamBody(cam) \in Seq(BodyDescriptors)
         /\ \E off : /\ Offsets(cam, off, Len(StreamBody(cam)))
                     /\ \A k \in 1 .. Len(cam.formats) :
                           BlockAt(StreamBody(cam), off[k - 1], cam.formats[k], k)
<1> DEFINE formats == cam.formats
           n == Len(formats)
           seqs == [k \in 1 .. n |-> FormatBlock(formats[k], k)]
           body == StreamBody(cam)
<1>1. /\ n \in Nat \ {0} /\ DOMAIN formats = 1 .. n
      /\ \A k \in 1 .. n : formats[k] \in FormatRecords /\ k \in Nat
  BY DEF IsCamera
<1>2. \A k \in 1 .. n : IsBlock(FormatBlock(formats[k], k), formats[k], k)
  BY <1>1, BlockReads
<1>3. \A k \in 1 .. n : FormatBlock(formats[k], k) \in Seq(BodyDescriptors)
  BY <1>2 DEF IsBlock
<1>4. seqs \in Seq(Seq(BodyDescriptors)) /\ Len(seqs) = n /\ seqs # <<>>
  BY <1>1, <1>3
<1>5. body = FlattenSeq(seqs)
  BY <1>1, Zenon DEF StreamBody
<1>6. \A k \in 1 .. n : seqs[k] = FormatBlock(formats[k], k)
  OBVIOUS
<1> HIDE DEF seqs, body
<1>7. body \in Seq(BodyDescriptors) /\ \E off : IsLaid(body, seqs, off)
  BY <1>4, <1>5, Flattened
<1>8. PICK off : IsLaid(body, seqs, off)
  BY <1>7
<1>9. ASSUME NEW k \in 1 .. n PROVE IsBlock(seqs[k], formats[k], k) /\ Len(seqs[k]) = Size(formats[k])
  BY <1>2, <1>6 DEF IsBlock, Size
<1> HIDE DEF formats, n
<1>10. /\ off \in [0 .. n -> Nat] /\ off[0] = 0 /\ Len(body) = off[n]
       /\ \A k \in 1 .. n : off[k] = off[k - 1] + Len(seqs[k])
       /\ \A j, k \in 0 .. n : j <= k => off[j] <= off[k]
       /\ \A k \in 1 .. n : \A q \in 1 .. Len(seqs[k]) : body[off[k - 1] + q] = seqs[k][q]
       /\ \A p \in 1 .. Len(body) : \E k \in 1 .. n : \E q \in 1 .. Len(seqs[k]) : p = off[k - 1] + q
  BY <1>4, <1>8 DEF IsLaid
<1>11. Offsets(cam, off, Len(body))
  <2>1. Len(body) \in Nat
    BY <1>7
  <2>2. \A k \in 1 .. n : off[k] = off[k - 1] + Size(formats[k])
    BY <1>9, <1>10
  <2>3. \A p \in 1 .. Len(body) :
           \E k \in 1 .. n : \E q \in 1 .. Size(formats[k]) : p = off[k - 1] + q
    BY <1>9, <1>10
  <2> QED BY <1>10, <2>1, <2>2, <2>3 DEF Offsets, formats, n
<1>12. ASSUME NEW k \in 1 .. n PROVE BlockAt(body, off[k - 1], formats[k], k)
  <2> DEFINE f == formats[k]
             m == Len(f.frames)
             at == off[k - 1]
             b == seqs[k]
  <2>1. m \in Nat /\ f.closed \in BOOLEAN /\ at \in Nat
    <3>1. f.frames \in Seq(FrameRecords) /\ f.closed \in BOOLEAN
      BY <1>1 DEF FormatRecords
    <3>2. k - 1 \in 0 .. n
      BY <1>1
    <3> QED BY <1>10, <3>1, <3>2
  <2>2. \A q \in 1 .. Len(b) : body[at + q] = b[q]
    BY <1>10
  <2>3. /\ Len(b) = m + 1 + (IF f.closed THEN 1 ELSE 0) /\ IsFormatOf(b[1], f, k)
        /\ \A j \in 1 .. m : IsFrameOf(b[1 + j], f.frames[j], j)
        /\ f.closed => b[m + 2].kind = "class"
    BY <1>9 DEF IsBlock
  <2> HIDE DEF f, m, at, b
  <2>4. body[at + 1] = b[1]
    BY <2>1, <2>2, <2>3
  <2>5. \A j \in 1 .. m : body[at + 1 + j] = b[1 + j]
    <3> TAKE j \in 1 .. m
    <3>1. 1 + j \in 1 .. Len(b) /\ at + (1 + j) = at + 1 + j
      BY <2>1, <2>3
    <3> QED BY <2>2, <3>1
  <2>6. f.closed => body[at + m + 2] = b[m + 2]
    <3> HAVE f.closed
    <3>1. m + 2 \in 1 .. Len(b) /\ at + (m + 2) = at + m + 2
      BY <2>1, <2>3
    <3> QED BY <2>2, <3>1
  <2>7. BlockAt(body, at, f, k)
    BY <2>3, <2>4, <2>5, <2>6 DEF BlockAt, m
  <2> QED BY <2>7 DEF f, at
<1> QED BY <1>7, <1>11, <1>12 DEF body, n, formats

FrontOf(cam) ==
  <<[Plain EXCEPT !.kind = "iad"], [Plain EXCEPT !.kind = "interface"],
    [Plain EXCEPT !.kind = "iad", !.video = TRUE],
    [Plain EXCEPT !.kind = "interface", !.video = TRUE, !.number = 1],
    [Plain EXCEPT !.kind = "vcheader", !.inside = <<2>>],
    Setting(2, 0, cam.bulk),
    [Plain EXCEPT !.kind = "vsheader",
                  !.claimed = Len(StreamBody(cam)) + 1 + cam.overclaims]>>

IsFront(ds, cam, total) ==
  /\ ds[1].kind = "iad" /\ ds[1].video = FALSE
  /\ ds[2].kind = "interface" /\ ds[2].video = FALSE /\ ds[2].number = 0
  /\ ds[3].kind = "iad" /\ ds[3].video = TRUE
  /\ ds[4].kind = "interface" /\ ds[4].video = TRUE /\ ds[4].streaming = FALSE
  /\ ds[4].number = 1
  /\ ds[5].kind = "vcheader" /\ ds[5].inside = <<2>>
  /\ IsSetting(ds[6], 0, cam.bulk)
  /\ ds[7].kind = "vsheader" /\ ds[7].claimed = total + 1 + cam.overclaims

LEMMA FrontReads ==
  ASSUME NEW cam
  PROVE  Len(FrontOf(cam)) = 7 /\ IsFront(FrontOf(cam), cam, Len(StreamBody(cam)))
<1> DEFINE d == FrontOf(cam)
<1>1. Len(d) = 7 /\ d[6] = Setting(2, 0, cam.bulk)
  BY DEF FrontOf
<1>2. d[1] = [Plain EXCEPT !.kind = "iad"] /\ d[2] = [Plain EXCEPT !.kind = "interface"]
  BY DEF FrontOf
<1>3. d[3] = [Plain EXCEPT !.kind = "iad", !.video = TRUE]
  BY DEF FrontOf
<1>4. d[4] = [Plain EXCEPT !.kind = "interface", !.video = TRUE, !.number = 1]
  BY DEF FrontOf
<1>5. d[5] = [Plain EXCEPT !.kind = "vcheader", !.inside = <<2>>]
  BY DEF FrontOf
<1>6. d[7] = [Plain EXCEPT !.kind = "vsheader",
                           !.claimed = Len(StreamBody(cam)) + 1 + cam.overclaims]
  BY DEF FrontOf
<1> HIDE DEF d
<1>7. d[1].kind = "iad" /\ d[1].video = FALSE
  BY <1>2 DEF Plain
<1>8. d[2].kind = "interface" /\ d[2].video = FALSE /\ d[2].number = 0
  BY <1>2 DEF Plain
<1>9. d[3].kind = "iad" /\ d[3].video = TRUE
  BY <1>3 DEF Plain
<1>10. d[4].kind = "interface" /\ d[4].video = TRUE /\ d[4].streaming = FALSE /\ d[4].number = 1
  BY <1>4 DEF Plain
<1>11. d[5].kind = "vcheader" /\ d[5].inside = <<2>>
  BY <1>5 DEF Plain
<1>12. d[7].kind = "vsheader" /\ d[7].claimed = Len(StreamBody(cam)) + 1 + cam.overclaims
  BY <1>6 DEF Plain
<1>13. IsSetting(d[6], 0, cam.bulk)
  BY <1>1, SettingReads
<1>14. IsFront(d, cam, Len(StreamBody(cam)))
  BY <1>7, <1>8, <1>9, <1>10, <1>11, <1>12, <1>13 DEF IsFront
<1> QED BY <1>1, <1>14 DEF d

\* Everything the camera sends: the front, the blocks of its formats and, behind
\* them, the alternate settings.
Sent(ds, cam, off, total, rest) ==
  /\ total \in Nat /\ rest \in Nat
  /\ rest = IF cam.bulk # 0 THEN 0 ELSE Len(cam.packets)
  /\ Len(ds) = 7 + total + rest /\ DOMAIN ds = 1 .. (7 + total + rest)
  /\ ds \in Seq({ds[i] : i \in DOMAIN ds})
  /\ IsFront(ds, cam, total)
  /\ Offsets(cam, off, total)
  /\ \A k \in 1 .. Len(cam.formats) : BlockAt(ds, 7 + off[k - 1], cam.formats[k], k)
  /\ \A a \in 1 .. rest : IsSetting(ds[7 + total + a], a, cam.packets[a])

LEMMA DescriptorsSent ==
  ASSUME NEW cam, IsCamera(cam)
  PROVE  \E off, total, rest : Sent(Descriptors(cam), cam, off, total, rest)
<1> DEFINE body == StreamBody(cam)
           total == Len(body)
           front == FrontOf(cam)
           tail == IF cam.bulk # 0 THEN <<>>
                   ELSE [a \in DOMAIN cam.packets |-> Setting(2, a, cam.packets[a])]
           rest == IF cam.bulk # 0 THEN 0 ELSE Len(cam.packets)
           F == {front[p] : p \in 1 .. 7}
           S == {tail[a] : a \in 1 .. rest}
           E == BodyDescriptors \cup F \cup S
           n == Len(cam.formats)
<1>1. PICK off : /\ Offsets(cam, off, total)
                 /\ \A k \in 1 .. n : BlockAt(body, off[k - 1], cam.formats[k], k)
  BY BodyLaid
<1>2. Descriptors(cam) = (front \o body) \o tail
  BY Zenon DEF Descriptors, FrontOf
<1>3. Len(cam.packets) \in Nat /\ DOMAIN cam.packets = 1 .. Len(cam.packets) /\ rest \in Nat
  BY DEF IsCamera
<1>4. Len(front) = 7 /\ IsFront(front, cam, total)
  BY FrontReads
<1>5. body \in Seq(BodyDescriptors) /\ total \in Nat
  <2>1. body \in Seq(BodyDescriptors)
    BY BodyLaid
  <2> QED BY <2>1
<1>6. front = [p \in 1 .. 7 |-> front[p]]
  <2>1. \E a, b, c, d, e, f, g : front = <<a, b, c, d, e, f, g>>
    BY Zenon DEF FrontOf
  <2>2. PICK a, b, c, d, e, f, g : front = <<a, b, c, d, e, f, g>>
    BY <2>1
  <2> HIDE DEF front
  <2> QED BY <2>2
<1>7. tail = [a \in 1 .. rest |-> tail[a]]
  <2>1. CASE cam.bulk # 0
    BY <2>1
  <2>2. CASE cam.bulk = 0
    BY <1>3, <2>2
  <2> QED BY <2>1, <2>2
<1>8. \A a \in 1 .. rest : IsSetting(tail[a], a, cam.packets[a])
  <2> TAKE a \in 1 .. rest
  <2>1. cam.bulk = 0 /\ a \in DOMAIN cam.packets
    BY <1>3
  <2>2. tail[a] = Setting(2, a, cam.packets[a])
    BY <2>1
  <2> QED BY <2>2, SettingReads
<1> HIDE DEF front, body, tail, total, n
<1>9. front \in Seq(E)
  <2>1. \A p \in 1 .. 7 : front[p] \in E
    OBVIOUS
  <2> HIDE DEF E
  <2> QED BY <1>6, <2>1
<1>10. tail \in Seq(E) /\ Len(tail) = rest
  <2>1. \A a \in 1 .. rest : tail[a] \in E
    OBVIOUS
  <2> HIDE DEF E, rest
  <2> QED BY <1>3, <1>7, <2>1
<1>11. body \in Seq(E)
  <2>1. BodyDescriptors \subseteq E
    OBVIOUS
  <2> HIDE DEF E
  <2> QED BY <1>5, <2>1
<1> HIDE DEF E, F, S, rest
<1> DEFINE fb == front \o body
<1>12. /\ fb \in Seq(E) /\ Len(fb) = Len(front) + Len(body)
       /\ \A p \in 1 .. Len(front) : fb[p] = front[p]
       /\ \A q \in 1 .. Len(body) : fb[Len(front) + q] = body[q]
  <2>1. front \in Seq(E) /\ body \in Seq(E)
    BY <1>9, <1>11
  <2> QED BY <2>1, Joined
<1> HIDE DEF fb
<1> DEFINE ds == fb \o tail
<1>13. /\ ds \in Seq(E) /\ Len(ds) = Len(fb) + Len(tail)
       /\ \A p \in 1 .. Len(fb) : ds[p] = fb[p]
       /\ \A q \in 1 .. Len(tail) : ds[Len(fb) + q] = tail[q]
  <2>1. fb \in Seq(E) /\ tail \in Seq(E)
    BY <1>10, <1>12
  <2> QED BY <2>1, Joined
<1> HIDE DEF ds
<1>14. /\ Len(ds) = 7 + total + rest
       /\ \A p \in 1 .. 7 : ds[p] = front[p]
       /\ \A q \in 1 .. total : ds[7 + q] = body[q]
       /\ \A a \in 1 .. rest : ds[7 + total + a] = tail[a]
  <2>1. Len(fb) = 7 + total /\ total = Len(body)
    BY <1>4, <1>12 DEF total
  <2>2. \A p \in 1 .. 7 : ds[p] = front[p]
    BY <1>4, <1>5, <1>12, <1>13, <2>1
  <2>3. \A q \in 1 .. total : ds[7 + q] = body[q]
    BY <1>4, <1>5, <1>12, <1>13, <2>1
  <2>4. Len(ds) = 7 + total + rest /\ \A a \in 1 .. rest : ds[7 + total + a] = tail[a]
    BY <1>10, <1>13, <2>1
  <2> QED BY <2>2, <2>3, <2>4
<1>15. DOMAIN ds = 1 .. (7 + total + rest)
  BY <1>13, <1>14
<1>16. IsFront(ds, cam, total)
  <2>1. \A p \in {1, 2, 3, 4, 5, 6, 7} : ds[p] = front[p]
    BY <1>14
  <2> QED BY <1>4, <2>1 DEF IsFront
<1>17. ASSUME NEW k \in 1 .. n PROVE BlockAt(ds, 7 + off[k - 1], cam.formats[k], k)
  <2> DEFINE f == cam.formats[k]
             m == Len(f.frames)
             at == off[k - 1]
  <2>0. n \in Nat /\ f \in FormatRecords
    BY DEF IsCamera, n
  <2>1. m \in Nat /\ f.closed \in BOOLEAN
    <3>1. f.frames \in Seq(FrameRecords) /\ f.closed \in BOOLEAN
      BY <2>0 DEF FormatRecords
    <3> QED BY <3>1
  <2>2. at \in Nat /\ at + Size(f) <= total
    <3>1. /\ off \in [0 .. n -> Nat] /\ total = off[n] /\ off[k] = off[k - 1] + Size(f)
          /\ \A j \in 0 .. n : j <= n => off[j] <= off[n]
      BY <1>1, <2>0 DEF Offsets, n
    <3>2. k - 1 \in 0 .. n /\ k \in 0 .. n /\ k <= n
      BY <2>0
    <3> HIDE DEF f
    <3> QED BY <3>1, <3>2
  <2>3. /\ IsFormatOf(body[at + 1], f, k)
        /\ \A j \in 1 .. m : IsFrameOf(body[at + 1 + j], f.frames[j], j)
        /\ f.closed => body[at + m + 2].kind = "class"
    BY <1>1 DEF BlockAt
  <2> HIDE DEF f, m, at
  <2>4. Size(f) = m + 1 + IF f.closed THEN 1 ELSE 0
    BY DEF Size, m
  <2>5. ds[7 + at + 1] = body[at + 1]
    <3>1. at + 1 \in 1 .. total /\ 7 + (at + 1) = 7 + at + 1
      BY <1>5, <2>1, <2>2, <2>4
    <3> QED BY <1>14, <3>1
  <2>6. \A j \in 1 .. m : ds[7 + at + 1 + j] = body[at + 1 + j]
    <3> TAKE j \in 1 .. m
    <3>1. at + 1 + j \in 1 .. total /\ 7 + (at + 1 + j) = 7 + at + 1 + j
      BY <1>5, <2>1, <2>2, <2>4
    <3> QED BY <1>14, <3>1
  <2>7. f.closed => ds[7 + at + m + 2] = body[at + m + 2]
    <3> HAVE f.closed
    <3>1. at + m + 2 \in 1 .. total /\ 7 + (at + m + 2) = 7 + at + m + 2
      BY <1>5, <2>1, <2>2, <2>4
    <3> QED BY <1>14, <3>1
  <2>8. BlockAt(ds, 7 + at, f, k)
    BY <2>3, <2>5, <2>6, <2>7 DEF BlockAt, m
  <2> QED BY <2>8 DEF at, f
<1>18. \A a \in 1 .. rest : IsSetting(ds[7 + total + a], a, cam.packets[a])
  BY <1>8, <1>14
<1>19. Sent(ds, cam, off, total, rest)
  <2>1. rest = IF cam.bulk # 0 THEN 0 ELSE Len(cam.packets)
    BY DEF rest
  <2>2. Offsets(cam, off, total)
    BY <1>1
  <2>3. ds \in Seq({ds[i] : i \in DOMAIN ds})
    <3> DEFINE R == {ds[i] : i \in DOMAIN ds}
               c == 7 + total + rest
    <3>1. \A i \in 1 .. c : ds[i] \in R
      BY <1>15
    <3>2. ds = [i \in 1 .. c |-> ds[i]] /\ c \in Nat
      BY <1>3, <1>5, <1>13, <1>14
    <3> HIDE DEF R, c
    <3>3. ds \in Seq(R)
      BY <3>1, <3>2
    <3> QED BY <3>3 DEF R
  <2> QED BY <1>3, <1>5, <1>14, <1>15, <1>16, <1>17, <1>18, <2>1, <2>2, <2>3 DEF Sent, n
<1>20. Descriptors(cam) = ds
  BY <1>2 DEF ds, fb
<1> QED BY <1>19, <1>20

(* What is where. *)
BlockFacts(ds, off, total, f, k) ==
  /\ f \in FormatRecords /\ f.closed \in BOOLEAN
  /\ f.frames \in Seq(FrameRecords) /\ Len(f.frames) \in Nat \ {0}
  /\ DOMAIN f.frames = 1 .. Len(f.frames)
  /\ off[k - 1] \in Nat /\ off[k] \in Nat /\ off[k] <= total
  /\ off[k] = off[k - 1] + Size(f)
  /\ Size(f) = Len(f.frames) + 1 + IF f.closed THEN 1 ELSE 0
  /\ BlockAt(ds, 7 + off[k - 1], f, k)

LEMMA SentFacts ==
  ASSUME NEW cam, IsCamera(cam), NEW ds, NEW off, NEW total, NEW rest,
         Sent(ds, cam, off, total, rest)
  PROVE  /\ Len(cam.formats) \in Nat \ {0} /\ DOMAIN cam.formats = 1 .. Len(cam.formats)
         /\ off \in [0 .. Len(cam.formats) -> Nat]
         /\ \A k \in 1 .. Len(cam.formats) : BlockFacts(ds, off, total, cam.formats[k], k)
<1> DEFINE n == Len(cam.formats)
<1>1. n \in Nat \ {0} /\ DOMAIN cam.formats = 1 .. n
  BY DEF IsCamera
<1>2. off \in [0 .. n -> Nat] /\ \A k \in 0 .. n : off[k] <= off[n]
  <2>1. off \in [0 .. n -> Nat] /\ \A j, k \in 0 .. n : j <= k => off[j] <= off[k]
    BY DEF Sent, Offsets
  <2>2. n \in 0 .. n /\ \A k \in 0 .. n : k <= n
    BY <1>1
  <2> QED BY <2>1, <2>2
<1>3. ASSUME NEW k \in 1 .. n
      PROVE  /\ cam.formats[k] \in FormatRecords
             /\ Len(cam.formats[k].frames) \in Nat \ {0}
             /\ DOMAIN cam.formats[k].frames = 1 .. Len(cam.formats[k].frames)
             /\ cam.formats[k].frames \in Seq(FrameRecords)
             /\ cam.formats[k].closed \in BOOLEAN
  <2>1. cam.formats[k] \in FormatRecords /\ cam.formats[k].frames # <<>>
    BY <1>1 DEF IsCamera
  <2>2. cam.formats[k].frames \in Seq(FrameRecords) /\ cam.formats[k].closed \in BOOLEAN
    BY <2>1 DEF FormatRecords
  <2> QED BY <2>1, <2>2
<1>4. ASSUME NEW k \in 1 .. n
      PROVE  /\ off[k - 1] \in Nat /\ off[k] = off[k - 1] + Size(cam.formats[k])
             /\ off[k] \in Nat /\ off[k] <= total
  <2>1. off[k] = off[k - 1] + Size(cam.formats[k]) /\ total = off[n]
    BY DEF Sent, Offsets
  <2>2. k - 1 \in 0 .. n /\ k \in 0 .. n
    BY <1>1
  <2> QED BY <1>2, <2>1, <2>2
<1>5. \A k \in 1 .. n : BlockAt(ds, 7 + off[k - 1], cam.formats[k], k)
  BY DEF Sent
<1>6. \A k \in 1 .. n : BlockFacts(ds, off, total, cam.formats[k], k)
  BY <1>3, <1>4, <1>5 DEF Size, BlockFacts
<1> QED BY <1>1, <1>2, <1>6

IsBody(ds, cam, off, p) ==
  \E k \in 1 .. Len(cam.formats) :
    \/ p = off[k - 1] + 1 /\ IsFormatOf(ds[7 + p], cam.formats[k], k)
    \/ \E j \in 1 .. Len(cam.formats[k].frames) :
          p = off[k - 1] + 1 + j /\ IsFrameOf(ds[7 + p], cam.formats[k].frames[j], j)
    \/ p = off[k - 1] + 2 + Len(cam.formats[k].frames) /\ ds[7 + p].kind = "class"

LEMMA BodyAt ==
  ASSUME NEW cam, IsCamera(cam), NEW ds, NEW off, NEW total, NEW rest,
         Sent(ds, cam, off, total, rest), NEW p \in 1 .. total
  PROVE  IsBody(ds, cam, off, p)
<1> DEFINE n == Len(cam.formats)
<1>1. PICK k \in 1 .. n : \E q \in 1 .. Size(cam.formats[k]) : p = off[k - 1] + q
  BY DEF Sent, Offsets
<1>2. PICK q \in 1 .. Size(cam.formats[k]) : p = off[k - 1] + q
  BY <1>1
<1> DEFINE f == cam.formats[k]
           m == Len(f.frames)
           at == off[k - 1]
<1>3. /\ m \in Nat \ {0} /\ at \in Nat /\ Size(f) = m + 1 + (IF f.closed THEN 1 ELSE 0)
      /\ BlockAt(ds, 7 + at, f, k)
  <2>1. BlockFacts(ds, off, total, f, k)
    BY SentFacts
  <2> QED BY <2>1 DEF BlockFacts
<1>4. /\ IsFormatOf(ds[7 + at + 1], f, k)
      /\ \A j \in 1 .. m : IsFrameOf(ds[7 + at + 1 + j], f.frames[j], j)
      /\ f.closed => ds[7 + at + m + 2].kind = "class"
  BY <1>3 DEF BlockAt
<1>5. q \in 1 .. Size(f) /\ p = at + q /\ k \in 1 .. n
  BY <1>2
<1> HIDE DEF f, m, at, n
<1>6. CASE q = 1
  <2>1. p = at + 1 /\ 7 + p = 7 + at + 1
    BY <1>3, <1>5, <1>6
  <2>2. IsFormatOf(ds[7 + p], f, k)
    BY <1>4, <2>1
  <2> QED BY <1>5, <2>1, <2>2 DEF IsBody, f, at, n
<1>7. CASE q \in 2 .. (m + 1)
  <2> DEFINE j == q - 1
  <2>1. j \in 1 .. m /\ p = at + 1 + j /\ 7 + p = 7 + at + 1 + j
    BY <1>3, <1>5, <1>7
  <2>2. IsFrameOf(ds[7 + p], f.frames[j], j)
    BY <1>4, <2>1
  <2> HIDE DEF j
  <2>3. \E i \in 1 .. m : p = at + 1 + i /\ IsFrameOf(ds[7 + p], f.frames[i], i)
    BY <2>1, <2>2
  <2> QED BY <1>5, <2>3 DEF IsBody, f, at, n, m
<1>8. CASE q = m + 2 /\ f.closed
  <2>1. p = at + 2 + m /\ 7 + p = 7 + at + m + 2
    BY <1>3, <1>5, <1>8
  <2>2. ds[7 + p].kind = "class"
    BY <1>4, <1>8, <2>1
  <2> QED BY <1>5, <2>1, <2>2 DEF IsBody, f, at, n, m
<1>9. q = 1 \/ q \in 2 .. (m + 1) \/ (q = m + 2 /\ f.closed)
  BY <1>3, <1>5
<1> QED BY <1>6, <1>7, <1>8, <1>9

LEMMA BodyKind ==
  ASSUME NEW cam, IsCamera(cam), NEW ds, NEW off, NEW total, NEW rest,
         Sent(ds, cam, off, total, rest), NEW p \in 1 .. total
  PROVE  ds[7 + p].kind \in {"format", "frame", "class"}
<1>1. IsBody(ds, cam, off, p)
  BY BodyAt
<1> QED BY <1>1 DEF IsBody, IsFormatOf, IsFrameOf

LEMMA Places ==
  ASSUME NEW cam, IsCamera(cam), NEW ds, NEW off, NEW total, NEW rest,
         Sent(ds, cam, off, total, rest), NEW i \in DOMAIN ds
  PROVE  \/ i \in {1, 2, 3, 4, 5, 6, 7}
         \/ i \in 8 .. (7 + total) /\ ds[i].kind \in {"format", "frame", "class"}
         \/ \E a \in 1 .. rest : i = 7 + total + a /\ IsSetting(ds[i], a, cam.packets[a])
<1>1. /\ total \in Nat /\ rest \in Nat /\ DOMAIN ds = 1 .. (7 + total + rest)
      /\ \A a \in 1 .. rest : IsSetting(ds[7 + total + a], a, cam.packets[a])
  BY DEF Sent
<1>2. CASE i <= 7
  BY <1>1, <1>2
<1>3. CASE i \in 8 .. (7 + total)
  <2>1. i - 7 \in 1 .. total /\ 7 + (i - 7) = i
    BY <1>1, <1>3
  <2> QED BY <1>3, <2>1, BodyKind
<1>4. CASE i > 7 + total
  <2>1. i - (7 + total) \in 1 .. rest /\ 7 + total + (i - (7 + total)) = i
    BY <1>1, <1>4
  <2> QED BY <1>1, <2>1
<1>5. i \in Int
  BY <1>1
<1> QED BY <1>1, <1>2, <1>3, <1>4, <1>5

(* The interfaces of the stream. *)
SettingAt(total, a) == IF a = 0 THEN 6 ELSE 7 + total + a

LEMMA SettingsAt ==
  ASSUME NEW cam, IsCamera(cam), NEW ds, NEW off, NEW total, NEW rest,
         Sent(ds, cam, off, total, rest), NEW a \in 0 .. rest
  PROVE  /\ SettingAt(total, a) \in DOMAIN ds
         /\ IsSetting(ds[SettingAt(total, a)], a, IF a = 0 THEN cam.bulk ELSE cam.packets[a])
         /\ Interface(ds, 2, a) = SettingAt(total, a)
<1> DEFINE at == SettingAt(total, a)
           S == {i \in DOMAIN ds : ds[i].kind = "interface" /\ ds[i].number = 2
                                   /\ ds[i].setting = a}
<1>1. /\ total \in Nat /\ rest \in Nat /\ DOMAIN ds = 1 .. (7 + total + rest)
      /\ \A x \in 1 .. rest : IsSetting(ds[7 + total + x], x, cam.packets[x])
      /\ IsFront(ds, cam, total)
  BY DEF Sent
<1>2. at \in DOMAIN ds /\ IsSetting(ds[at], a, IF a = 0 THEN cam.bulk ELSE cam.packets[a])
  <2>1. CASE a = 0
    BY <1>1, <2>1 DEF SettingAt, IsFront
  <2>2. CASE a # 0
    <3>1. a \in 1 .. rest
      BY <1>1, <2>2
    <3> QED BY <1>1, <2>2, <3>1 DEF SettingAt
  <2> QED BY <2>1, <2>2
<1>3. at \in S
  BY <1>2 DEF IsSetting
<1>4. ASSUME NEW i \in S PROVE i = at
  <2>1. i \in DOMAIN ds /\ ds[i].kind = "interface" /\ ds[i].number = 2 /\ ds[i].setting = a
    OBVIOUS
  <2>2. CASE i \in {1, 2, 3, 4, 5, 6, 7}
    <3>1. i = 6
      BY <1>1, <2>1, <2>2 DEF IsFront
    <3>2. ds[6].setting = 0
      BY <1>1 DEF IsFront, IsSetting
    <3> QED BY <2>1, <3>1, <3>2 DEF SettingAt
  <2>3. CASE \E x \in 1 .. rest : i = 7 + total + x /\ IsSetting(ds[i], x, cam.packets[x])
    BY <2>1, <2>3 DEF SettingAt, IsSetting
  <2> QED BY <2>1, <2>2, <2>3, Places
<1>5. at \in Nat /\ S \in SUBSET Nat
  BY <1>1, <1>2
<1> HIDE DEF at, S
<1>6. FirstOf(S) = at
  <2>1. \A x \in S : at <= x
    BY <1>4, <1>5
  <2> QED BY <1>3, <1>5, <2>1, FirstIs
<1>7. Interface(ds, 2, a) = FirstOf(S)
  BY Zenon DEF Interface, S
<1> QED BY <1>2, <1>6, <1>7 DEF at

LEMMA MinIs ==
  ASSUME NEW S, S \in SUBSET Nat, NEW m \in S, \A x \in S : m <= x
  PROVE  Min(S) = m
<1>1. FirstOf(S) = m /\ S # {}
  BY FirstIs
<1> QED BY <1>1 DEF FirstOf

LEMMA HeadersAt ==
  ASSUME NEW cam, IsCamera(cam), NEW ds, NEW off, NEW total, NEW rest,
         Sent(ds, cam, off, total, rest)
  PROVE  /\ IsUvcDevice(ds)
         /\ InputHeader(ds, 2) = 7
         /\ ControlHeader(ds, 0) = 5 /\ ds[5].inside = <<2>>
         /\ LastInside(ds, 7) \in (7 + total) .. (7 + total + rest)
<1>1. /\ total \in Nat /\ rest \in Nat /\ DOMAIN ds = 1 .. (7 + total + rest)
      /\ Len(ds) = 7 + total + rest
      /\ IsFront(ds, cam, total)
  BY DEF Sent
<1>2. IsUvcDevice(ds)
  <2>1. 4 \in DOMAIN ds /\ ds[4].kind = "interface" /\ ds[4].video
    BY <1>1 DEF IsFront
  <2> QED BY <2>1 DEF IsUvcDevice
<1>3. InputHeader(ds, 2) = 7
  <2> DEFINE S == {i \in (6 + 1) .. Len(ds) : ds[i].kind \in ClassKinds}
  <2>1. Interface(ds, 2, 0) = 6 /\ IsSetting(ds[6], 0, cam.bulk)
    <3>1. 0 \in 0 .. rest
      BY <1>1
    <3> QED BY <3>1, SettingsAt DEF SettingAt
  <2>2. ds[7].kind = "vsheader"
    BY <1>1 DEF IsFront
  <2>3. 7 \in S /\ S \in SUBSET Nat /\ \A x \in S : 7 <= x
    BY <1>1, <2>2 DEF ClassKinds
  <2>4. NextClass(ds, 6, Len(ds)) = FirstOf(S)
    BY Zenon DEF NextClass, NextOf
  <2> HIDE DEF S
  <2>5. NextClass(ds, 6, Len(ds)) = 7
    BY <2>3, <2>4, FirstIs
  <2> QED BY <2>1, <2>2, <2>5 DEF InputHeader, IsSetting
<1>4. ControlHeader(ds, 0) = 5
  <2> DEFINE iads == {i \in DOMAIN ds : ds[i].kind = "iad" /\ ds[i].video}
             M == {i \in iads : Cardinality({j \in iads : j < i}) = 0}
             S == {i \in (3 + 1) .. Len(ds) : ds[i].kind \in ClassKinds}
  <2>1. iads = {3}
    <3>1. 3 \in iads
      BY <1>1 DEF IsFront
    <3>2. ASSUME NEW i \in iads PROVE i = 3
      <4>1. i \in DOMAIN ds /\ ds[i].kind = "iad" /\ ds[i].video
        OBVIOUS
      <4>2. i \in {1, 2, 3, 4, 5, 6, 7}
        BY <4>1, Places DEF IsSetting
      <4> QED BY <1>1, <4>1, <4>2 DEF IsFront, IsSetting
    <3> QED BY <3>1, <3>2
  <2> HIDE DEF iads
  <2>2. {j \in iads : j < 3} = {}
    BY <2>1
  <2>3. Cardinality({j \in iads : j < 3}) = 0
    BY <2>2, FS_EmptySet
  <2>4. 3 \in M /\ M \in SUBSET Nat /\ \A x \in M : 3 <= x
    BY <2>1, <2>3
  <2>5. 5 \in S /\ S \in SUBSET Nat
    BY <1>1 DEF IsFront, ClassKinds
  <2>6. \A x \in S : 5 <= x
    <3> TAKE x \in S
    <3>1. x # 4
      BY <1>1 DEF IsFront, ClassKinds
    <3> QED BY <3>1
  <2>7. NextClass(ds, 3, Len(ds)) = FirstOf(S)
    BY Zenon DEF NextClass, NextOf
  <2> HIDE DEF M, S
  <2>8. FirstOf(M) = 3 /\ NextClass(ds, 3, Len(ds)) = 5
    BY <2>4, <2>5, <2>6, <2>7, FirstIs
  <2>9. ds[5].kind = "vcheader"
    BY <1>1 DEF IsFront
  <2>10. ControlHeader(ds, 0) =
            LET head == NextClass(ds, FirstOf(M), Len(ds))
            IN IF FirstOf(M) # 0 /\ head # 0 /\ ds[head].kind = "vcheader" THEN head ELSE 0
    BY Zenon DEF ControlHeader, M, iads
  <2> QED BY <2>8, <2>9, <2>10
<1>5. LastInside(ds, 7) \in (7 + total) .. (7 + total + rest)
  <2> DEFINE c == 7 + ds[7].claimed - 1
             S == {Len(ds), c}
  <2>1. c \in Nat /\ c >= 7 + total
    <3>1. cam.overclaims \in Nat /\ ds[7].claimed = total + 1 + cam.overclaims
      BY <1>1 DEF IsFront, IsCamera
    <3> QED BY <1>1, <3>1
  <2>2. S \in SUBSET Nat /\ \A x \in S : x >= 7 + total
    BY <1>1, <2>1
  <2>3. \E m \in S : (\A x \in S : m <= x) /\ m <= Len(ds)
    BY <1>1, <2>1
  <2>4. LastInside(ds, 7) = Min(S)
    BY Zenon DEF LastInside
  <2> HIDE DEF S, c
  <2>5. PICK m \in S : (\A x \in S : m <= x) /\ m <= Len(ds)
    BY <2>3
  <2>6. LastInside(ds, 7) = m
    BY <2>2, <2>4, <2>5, MinIs
  <2> QED BY <1>1, <2>2, <2>5, <2>6
<1> QED BY <1>1, <1>2, <1>3, <1>4, <1>5 DEF IsFront

(* The driver finds a format and a frame where the camera put them. *)
LEMMA FormatInside ==
  ASSUME NEW cam, IsCamera(cam), NEW ds, NEW off, NEW total, NEW rest,
         Sent(ds, cam, off, total, rest),
         NEW i \in 8 .. LastInside(ds, 7), ds[i].kind \in ClassKinds
  PROVE  /\ i \in 8 .. (7 + total) /\ ds[i].kind \in {"format", "frame", "class"}
         /\ ds[i].kind = "format" =>
              \E k \in 1 .. Len(cam.formats) :
                 i = 8 + off[k - 1] /\ IsFormatOf(ds[i], cam.formats[k], k)
<1>1. /\ total \in Nat /\ rest \in Nat /\ DOMAIN ds = 1 .. (7 + total + rest)
  BY DEF Sent
<1>2. LastInside(ds, 7) \in (7 + total) .. (7 + total + rest)
  BY HeadersAt
<1>3. i \in DOMAIN ds /\ i \notin {1, 2, 3, 4, 5, 6, 7}
  BY <1>1, <1>2
<1>4. i \in 8 .. (7 + total) /\ ds[i].kind \in {"format", "frame", "class"}
  BY <1>3, Places DEF IsSetting, ClassKinds
<1>5. i - 7 \in 1 .. total /\ 7 + (i - 7) = i
  BY <1>1, <1>4
<1>6. IsBody(ds, cam, off, i - 7)
  BY <1>5, BodyAt
<1>7. ASSUME ds[i].kind = "format"
      PROVE  \E k \in 1 .. Len(cam.formats) :
                i = 8 + off[k - 1] /\ IsFormatOf(ds[i], cam.formats[k], k)
  <2>1. PICK k \in 1 .. Len(cam.formats) :
           i - 7 = off[k - 1] + 1 /\ IsFormatOf(ds[i], cam.formats[k], k)
    BY <1>5, <1>6, <1>7 DEF IsBody, IsFrameOf
  <2>2. BlockFacts(ds, off, total, cam.formats[k], k)
    BY SentFacts
  <2>3. i = 8 + off[k - 1]
    BY <1>4, <2>1, <2>2 DEF BlockFacts
  <2> QED BY <2>1, <2>3
<1> QED BY <1>4, <1>7

LEMMA FormatThere ==
  ASSUME NEW cam, IsCamera(cam), NEW ds, NEW off, NEW total, NEW rest,
         Sent(ds, cam, off, total, rest), NEW k \in 1 .. Len(cam.formats)
  PROVE  /\ 8 + off[k - 1] \in 8 .. LastInside(ds, 7) /\ LastInside(ds, 7) \in Nat
         /\ IsFormatOf(ds[8 + off[k - 1]], cam.formats[k], k)
         /\ \A j \in 1 .. Len(cam.formats[k].frames) :
              /\ 8 + off[k - 1] + j \in (8 + off[k - 1] + 1) .. LastInside(ds, 7)
              /\ IsFrameOf(ds[8 + off[k - 1] + j], cam.formats[k].frames[j], j)
<1> DEFINE at == off[k - 1]
           f == cam.formats[k]
           m == Len(f.frames)
           last == LastInside(ds, 7)
<1>1. /\ at \in Nat /\ m \in Nat /\ off[k] = at + Size(f) /\ off[k] <= total
      /\ Size(f) = m + 1 + (IF f.closed THEN 1 ELSE 0)
      /\ BlockAt(ds, 7 + at, f, k)
  <2>1. BlockFacts(ds, off, total, f, k)
    BY SentFacts
  <2> QED BY <2>1 DEF BlockFacts
<1>2. last \in (7 + total) .. (7 + total + rest) /\ total \in Nat /\ rest \in Nat
  BY HeadersAt DEF Sent
<1>3. IsFormatOf(ds[7 + at + 1], f, k) /\ \A j \in 1 .. m : IsFrameOf(ds[7 + at + 1 + j], f.frames[j], j)
  BY <1>1 DEF BlockAt
<1> HIDE DEF at, f, m, last
<1>4. at + m + 1 <= total
  BY <1>1, <1>2
<1>5. 8 + at \in 8 .. last /\ last \in Nat /\ 7 + at + 1 = 8 + at
  BY <1>1, <1>2, <1>4
<1>6. \A j \in 1 .. m : 8 + at + j \in (8 + at + 1) .. last /\ 7 + at + 1 + j = 8 + at + j
  BY <1>1, <1>2, <1>4
<1>7. \A j \in 1 .. m : IsFrameOf(ds[8 + at + j], f.frames[j], j)
  BY <1>3, <1>6
<1>8. IsFormatOf(ds[8 + at], f, k)
  BY <1>3, <1>5
<1> QED BY <1>5, <1>6, <1>7, <1>8 DEF at, f, m, last

LEMMA ByIndexIs ==
  ASSUME NEW cam, IsCamera(cam), NEW ds, NEW off, NEW total, NEW rest,
         Sent(ds, cam, off, total, rest), NEW fi \in Nat, NEW ri \in Nat
  PROVE  ByIndex(ds, 2, fi, ri) =
            IF fi \in 1 .. Len(cam.formats) /\ ri \in 1 .. Len(cam.formats[fi].frames)
            THEN <<8 + off[fi - 1], 8 + off[fi - 1] + ri>> ELSE <<>>
<1> DEFINE n == Len(cam.formats)
           last == LastInside(ds, 7)
           F == {i \in 8 .. last : IsFormat(ds[i]) /\ ds[i].index = fi}
           fmt == FirstOf(F)
           R == {i \in (fmt + 1) .. last : ds[i].kind \in ClassKinds /\ ds[i].index = ri}
           frm == FirstOf(R)
<1>1. ByIndex(ds, 2, fi, ri) =
         IF fi = 0 \/ ri = 0 \/ fmt = 0 \/ frm = 0 \/ ds[fmt].frames < ri
         THEN <<>> ELSE <<fmt, frm>>
  <2>1. InputHeader(ds, 2) = 7 /\ 7 + 1 = 8 /\ 7 # 0
    BY HeadersAt
  <2> QED BY <2>1 DEF ByIndex
<1>2. last \in Nat /\ n \in Nat
  <2>1. n \in Nat \ {0}
    BY SentFacts
  <2> HIDE DEF n
  <2>2. 1 \in 1 .. n
    BY <2>1
  <2> QED BY <2>1, <2>2, FormatThere DEF n
<1>3. ASSUME NEW i \in F
      PROVE  fi \in 1 .. n /\ i = 8 + off[fi - 1]
  <2>1. i \in 8 .. last /\ ds[i].kind = "format" /\ ds[i].index = fi
    BY DEF IsFormat
  <2>2. PICK k \in 1 .. n : i = 8 + off[k - 1] /\ IsFormatOf(ds[i], cam.formats[k], k)
    BY <2>1, FormatInside DEF ClassKinds
  <2> QED BY <2>1, <2>2 DEF IsFormatOf
<1>4. CASE fi \notin 1 .. n
  <2>1. F = {}
    BY <1>3, <1>4
  <2> HIDE DEF F
  <2>2. fmt = 0
    BY <2>1 DEF FirstOf
  <2> QED BY <1>1, <1>4, <2>2
<1>5. CASE fi \in 1 .. n
  <2> DEFINE at == 8 + off[fi - 1]
             m == Len(cam.formats[fi].frames)
  <2>1. /\ at \in 8 .. last /\ IsFormatOf(ds[at], cam.formats[fi], fi)
        /\ \A j \in 1 .. m : /\ at + j \in (at + 1) .. last
                             /\ IsFrameOf(ds[at + j], cam.formats[fi].frames[j], j)
    BY <1>5, FormatThere
  <2>2. at \in F /\ F \in SUBSET Nat /\ m \in Nat
    <3>1. BlockFacts(ds, off, total, cam.formats[fi], fi)
      BY <1>5, SentFacts
    <3>2. m \in Nat
      BY <3>1 DEF BlockFacts
    <3>3. at \in (7 + 1) .. last /\ IsFormat(ds[at]) /\ ds[at].index = fi
      BY <2>1 DEF IsFormat, IsFormatOf
    <3>4. F \in SUBSET Nat
      BY <1>2
    <3> HIDE DEF at, m
    <3> QED BY <3>2, <3>3, <3>4
  <2>3. \A i \in F : at <= i
    BY <1>2, <1>3, <2>1
  <2> HIDE DEF F
  <2>4. fmt = at
    BY <2>2, <2>3, FirstIs
  <2>5. ds[fmt].frames = m
    BY <2>1, <2>4 DEF IsFormatOf
  <2> HIDE DEF at
  <2>6. CASE ri \in 1 .. m
    <3> HIDE DEF fmt
    <3>1. at + ri \in R /\ R \in SUBSET Nat
      BY <1>2, <2>1, <2>4, <2>6 DEF IsFrameOf, ClassKinds
    <3>2. ASSUME NEW i \in R PROVE at + ri <= i
      <4>1. i \in (at + 1) .. last /\ ds[i].index = ri /\ at \in Nat
        BY <2>1, <2>4
      <4>2. CASE i < at + ri
        <5>1. i - at \in 1 .. m /\ at + (i - at) = i
          BY <2>2, <2>6, <4>1, <4>2
        <5>2. ds[i].index = i - at
          BY <2>1, <5>1 DEF IsFrameOf
        <5> QED BY <4>1, <4>2, <5>2
      <4> QED BY <4>1, <4>2
    <3> HIDE DEF R
    <3>3. frm = at + ri
      BY <3>1, <3>2, FirstIs
    <3>4. at # 0 /\ at + ri # 0 /\ fi # 0 /\ ri # 0 /\ ~(m < ri)
      BY <1>5, <2>1, <2>2, <2>6
    <3>5. ByIndex(ds, 2, fi, ri) = <<at, at + ri>>
      BY <1>1, <2>4, <2>5, <3>3, <3>4
    <3> QED BY <1>5, <2>6, <3>5 DEF at
  <2>7. CASE ri \notin 1 .. m
    <3>1. ri = 0 \/ m < ri
      BY <2>2, <2>7
    <3> HIDE DEF fmt, frm
    <3>2. ByIndex(ds, 2, fi, ri) = <<>>
      BY <1>1, <2>5, <3>1
    <3> QED BY <1>5, <2>7, <3>2
  <2> QED BY <2>6, <2>7
<1> QED BY <1>4, <1>5

LEMMA AnswerMeans ==
  ASSUME NEW cam, IsCamera(cam), NEW ds, NEW off, NEW total, NEW rest,
         Sent(ds, cam, off, total, rest), NEW fi \in Nat, NEW ri \in Nat, NEW t
  PROVE  GetAnswer(ds, 2, <<fi, ri, t>>) = Meaning(cam, <<fi, ri, t>>)
<1> DEFINE n == Len(cam.formats)
           req == <<fi, ri, t>>
           found == ByIndex(ds, 2, req[1], req[2])
<1>1. req # <<>> /\ req[1] = fi /\ req[2] = ri /\ req[3] = t
  OBVIOUS
<1>2. DOMAIN cam.formats = 1 .. n
  BY SentFacts
<1> HIDE DEF req
<1>3. found = IF fi \in 1 .. n /\ ri \in 1 .. Len(cam.formats[fi].frames)
              THEN <<8 + off[fi - 1], 8 + off[fi - 1] + ri>> ELSE <<>>
  BY <1>1, ByIndexIs
<1> HIDE DEF found
<1>4. GetAnswer(ds, 2, req) =
         IF found = <<>> THEN <<>> ELSE <<Parsed(ds[found[1]]), ds[found[2]].res, req[3]>>
  BY Zenon DEF GetAnswer, found
<1>5. CASE fi \in 1 .. n /\ ri \in 1 .. Len(cam.formats[fi].frames)
  <2>1. DOMAIN cam.formats[fi].frames = 1 .. Len(cam.formats[fi].frames)
    BY <1>5, SentFacts DEF BlockFacts
  <2>2. /\ found = <<8 + off[fi - 1], 8 + off[fi - 1] + ri>>
    BY <1>3, <1>5
  <2>3. found # <<>> /\ found[1] = 8 + off[fi - 1] /\ found[2] = 8 + off[fi - 1] + ri
    BY <2>2
  <2>4. /\ IsFormatOf(ds[8 + off[fi - 1]], cam.formats[fi], fi)
        /\ IsFrameOf(ds[8 + off[fi - 1] + ri], cam.formats[fi].frames[ri], ri)
    BY <1>5, FormatThere
  <2>5. GetAnswer(ds, 2, req) = <<cam.formats[fi].format, cam.formats[fi].frames[ri].res, t>>
    BY <1>1, <1>4, <2>3, <2>4 DEF IsFormatOf, IsFrameOf, Parsed
  <2>6. Meaning(cam, req) = <<cam.formats[fi].format, cam.formats[fi].frames[ri].res, t>>
    BY <1>1, <1>2, <1>5, <2>1 DEF Meaning
  <2> QED BY <2>5, <2>6 DEF req
<1>6. CASE ~(fi \in 1 .. n /\ ri \in 1 .. Len(cam.formats[fi].frames))
  <2>1. fi \in 1 .. n => DOMAIN cam.formats[fi].frames = 1 .. Len(cam.formats[fi].frames)
    BY SentFacts DEF BlockFacts
  <2>2. GetAnswer(ds, 2, req) = <<>>
    BY <1>3, <1>4, <1>6
  <2>3. Meaning(cam, req) = <<>>
    BY <1>1, <1>2, <1>6, <2>1 DEF Meaning
  <2> QED BY <2>2, <2>3 DEF req
<1> QED BY <1>5, <1>6

LEMMA FrameEqualIs ==
  ASSUME NEW r \in FrameRecords, NEW j, NEW d, IsFrameOf(d, r, j), NEW want
  PROVE  FrameEqual(d, want) <=> IsWanted(r, want)
<1>1. /\ d.kind = "frame" /\ d.res = r.res /\ d.intervals = r.intervals
      /\ d.from = r.from /\ d.to = r.to /\ d.step = r.step
  BY DEF IsFrameOf
<1>2. Intervals(d) = FrameIntervals(r)
  BY <1>1, Zenon DEF Intervals, FrameIntervals
<1> QED BY <1>1, <1>2, Zenon DEF FrameEqual, IsWanted, IsFrame

IsFirstWanted(frames, want, j) ==
  /\ j \in 1 .. Len(frames) /\ IsWanted(frames[j], want)
  /\ \A i \in 1 .. Len(frames) : IsWanted(frames[i], want) => j <= i

LEMMA ByFormatIs ==
  ASSUME NEW cam, IsCamera(cam), NEW ds, NEW off, NEW total, NEW rest,
         Sent(ds, cam, off, total, rest), NEW want, NEW k \in 1 .. Len(cam.formats),
         cam.formats[k].format = want.format, want.format # "unknown",
         NEW j, IsFirstWanted(cam.formats[k].frames, want, j)
  PROVE  ByFormat(ds, 2, want) = <<8 + off[k - 1], 8 + off[k - 1] + j>>
<1> DEFINE n == Len(cam.formats)
           last == LastInside(ds, 7)
           at == 8 + off[k - 1]
           frames == cam.formats[k].frames
           m == Len(frames)
           F == {i \in 8 .. last : IsFormat(ds[i]) /\ Parsed(ds[i]) = want.format}
           fmt == FirstOf(F)
           R == {i \in (fmt + 1) .. last : FrameEqual(ds[i], want)}
           frm == FirstOf(R)
<1>1. ByFormat(ds, 2, want) = IF fmt = 0 \/ frm = 0 THEN <<>> ELSE <<fmt, frm>>
  <2>1. InputHeader(ds, 2) = 7 /\ 7 + 1 = 8 /\ 7 # 0
    BY HeadersAt
  <2> QED BY <2>1 DEF ByFormat
<1>2. /\ at \in 8 .. last /\ last \in Nat /\ IsFormatOf(ds[at], cam.formats[k], k)
      /\ \A i \in 1 .. m : at + i \in (at + 1) .. last /\ IsFrameOf(ds[at + i], frames[i], i)
  BY FormatThere
<1>3. m \in Nat /\ frames \in Seq(FrameRecords) /\ \A i \in 1 .. m : frames[i] \in FrameRecords
  <2>1. BlockFacts(ds, off, total, cam.formats[k], k)
    BY SentFacts
  <2>2. m \in Nat /\ frames \in Seq(FrameRecords)
    BY <2>1 DEF BlockFacts
  <2> QED BY <2>2
<1>4. ASSUME NEW i \in F PROVE i = at
  <2>1. i \in 8 .. last /\ ds[i].kind = "format" /\ ds[i].format = want.format
    BY DEF IsFormat, Parsed
  <2>2. PICK x \in 1 .. n : i = 8 + off[x - 1] /\ IsFormatOf(ds[i], cam.formats[x], x)
    BY <2>1, FormatInside DEF ClassKinds
  <2>3. cam.formats[x].format = cam.formats[k].format
    BY <2>1, <2>2 DEF IsFormatOf
  <2>4. x \in DOMAIN cam.formats /\ k \in DOMAIN cam.formats
    BY SentFacts
  <2>5. x = k \/ cam.formats[k].format = "unknown"
    BY <2>3, <2>4 DEF IsCamera
  <2> QED BY <2>2, <2>5
<1> HIDE DEF n, last, at
<1>5. at \in F /\ F \in SUBSET Nat /\ \A x \in F : at <= x
  <2>1. at \in Nat /\ \A x \in 8 .. last : x \in Nat
    BY <1>2
  <2>2. IsFormat(ds[at]) /\ Parsed(ds[at]) = want.format
    BY <1>2 DEF IsFormat, IsFormatOf, Parsed
  <2>3. at \in F
    BY <1>2, <2>2
  <2>4. F \in SUBSET Nat
    BY <2>1
  <2> HIDE DEF F
  <2>5. at \in Nat
    BY <2>1
  <2> HIDE DEF at
  <2>6. \A x \in F : at <= x
    BY <1>4, <2>5
  <2> QED BY <2>3, <2>4, <2>6
<1> HIDE DEF F
<1>6. fmt = at
  BY <1>5, FirstIs
<1> HIDE DEF fmt, frames, m
<1>7. ASSUME NEW i \in 1 .. m PROVE FrameEqual(ds[at + i], want) <=> IsWanted(frames[i], want)
  BY <1>2, <1>3, FrameEqualIs
<1>8. j \in 1 .. m /\ IsWanted(frames[j], want)
      /\ \A i \in 1 .. m : IsWanted(frames[i], want) => j <= i
  BY DEF IsFirstWanted, frames, m
<1>9. at + j \in R /\ R \in SUBSET Nat
  BY <1>2, <1>6, <1>7, <1>8
<1>10. ASSUME NEW i \in R PROVE at + j <= i
  <2>1. i \in (at + 1) .. last /\ FrameEqual(ds[i], want) /\ at \in Nat
    BY <1>2, <1>6
  <2>2. CASE i < at + j
    <3>1. i - at \in 1 .. m /\ at + (i - at) = i /\ i - at < j
      BY <1>3, <1>8, <2>1, <2>2
    <3>2. IsWanted(frames[i - at], want)
      BY <1>7, <2>1, <3>1
    <3>3. j <= i - at
      BY <1>8, <3>1, <3>2
    <3> QED BY <1>3, <1>8, <3>1, <3>3
  <2>3. at + j \in Nat
    BY <1>2, <1>3, <1>8
  <2> QED BY <2>1, <2>2, <2>3
<1> HIDE DEF R
<1>11. frm = at + j
  BY <1>9, <1>10, FirstIs
<1> HIDE DEF frm
<1>12. at # 0 /\ at + j # 0
  BY <1>2, <1>8
<1>13. ByFormat(ds, 2, want) = <<at, at + j>>
  BY <1>1, <1>6, <1>11, <1>12
<1> QED BY <1>13 DEF at

(* What the camera offers is found and negotiated as asked for. *)
InOffered(cam, want, t) ==
  \E f \in ToSet(cam.formats) : f.format = want.format /\
     \E r \in ToSet(f.frames) : IsWanted(r, want) /\
        \E i \in Settles(r, WantedInterval(r, want)) : t = <<f.format, r.res, i>>

LEMMA OfferedIs ==
  ASSUME NEW cam, NEW want, NEW t
  PROVE  t \in Offered(cam, want) <=> InOffered(cam, want, t)
BY SMT DEF Offered, InOffered

LEMMA NegotiatesOffered ==
  ASSUME NEW cam, IsCamera(cam), NEW ds, NEW off, NEW total, NEW rest,
         Sent(ds, cam, off, total, rest), NEW want, want.format # "unknown", Offered(cam, want) # {}
  PROVE  /\ ByFormat(ds, 2, want) # <<>>
         /\ \A reply \in Replies(cam, SetRequest(ds, 2, want)) :
               GetAnswer(ds, 2, reply) \in Offered(cam, want)
<1> DEFINE n == Len(cam.formats)
<1>1. n \in Nat \ {0} /\ DOMAIN cam.formats = 1 .. n
  BY SentFacts
<1>2. PICK t : t \in Offered(cam, want)
  OBVIOUS
<1>3. InOffered(cam, want, t)
  BY <1>2, OfferedIs
<1>4. PICK f \in ToSet(cam.formats) : f.format = want.format /\
         \E r \in ToSet(f.frames) : IsWanted(r, want)
  BY <1>3 DEF InOffered
<1>5. PICK k \in 1 .. n : f = cam.formats[k]
  BY <1>1, <1>4 DEF ToSet
<1> DEFINE frames == cam.formats[k].frames
           m == Len(frames)
           J == {i \in 1 .. m : IsWanted(frames[i], want)}
<1>6. m \in Nat \ {0} /\ DOMAIN frames = 1 .. m
  BY SentFacts DEF BlockFacts
<1>7. cam.formats[k].format = want.format /\ J # {} /\ J \in SUBSET Nat
  <2>1. PICK r \in ToSet(frames) : IsWanted(r, want)
    BY <1>4, <1>5
  <2>2. PICK i \in 1 .. m : r = frames[i]
    BY <1>6, <2>1 DEF ToSet
  <2>3. i \in J
    BY <2>1, <2>2
  <2> QED BY <1>4, <1>5, <2>3
<1>8. PICK j \in J : \A i \in J : j <= i
  <2> HIDE DEF J
  <2> QED BY <1>7, Least
<1>9. j \in 1 .. m /\ IsWanted(frames[j], want)
      /\ \A i \in 1 .. m : IsWanted(frames[i], want) => j <= i
  BY <1>8
<1> DEFINE at == 8 + off[k - 1]
           r == frames[j]
           iv == WantedInterval(r, want)
           req == <<k, j, iv>>
<1>10. ByFormat(ds, 2, want) = <<at, at + j>>
  <2>1. IsFirstWanted(cam.formats[k].frames, want, j)
    BY <1>9, Zenon DEF IsFirstWanted
  <2>2. k \in 1 .. Len(cam.formats) /\ cam.formats[k].format = want.format
    BY <1>7
  <2> HIDE DEF J, frames, m, n, at
  <2>3. ByFormat(ds, 2, want) = <<8 + off[k - 1], 8 + off[k - 1] + j>>
    BY <2>1, <2>2, ByFormatIs
  <2> QED BY <2>3 DEF at
<1>11. IsFormatOf(ds[at], cam.formats[k], k) /\ IsFrameOf(ds[at + j], r, j)
  BY <1>9, FormatThere
<1> HIDE DEF J, at, r, n
<1>12. SetRequest(ds, 2, want) = req
  <2> DEFINE found == ByFormat(ds, 2, want)
  <2>1. found # <<>> /\ found[1] = at /\ found[2] = at + j
    BY <1>10
  <2>2. SetRequest(ds, 2, want) =
           IF found = <<>> THEN <<>>
           ELSE <<ds[found[1]].index, ds[found[2]].index,
                  IF want.fps # 0 THEN IntervalOf(want.fps)
                  ELSE Head(ds[found[2]].intervals \o <<ds[found[2]].from>>)>>
    BY Zenon DEF SetRequest
  <2> HIDE DEF found
  <2>3. SetRequest(ds, 2, want) =
           <<ds[at].index, ds[at + j].index,
             IF want.fps # 0 THEN IntervalOf(want.fps)
             ELSE Head(ds[at + j].intervals \o <<ds[at + j].from>>)>>
    BY <2>1, <2>2
  <2>4. /\ ds[at].index = k /\ ds[at + j].index = j
        /\ ds[at + j].intervals = r.intervals /\ ds[at + j].from = r.from
    BY <1>11 DEF IsFormatOf, IsFrameOf
  <2>5. Head(ds[at + j].intervals \o <<ds[at + j].from>>) = DefaultInterval(r)
    BY <2>4, Zenon DEF DefaultInterval
  <2>6. iv = IF want.fps # 0 THEN IntervalOf(want.fps) ELSE DefaultInterval(r)
    BY Zenon DEF WantedInterval
  <2> HIDE DEF iv
  <2> QED BY <2>3, <2>4, <2>5, <2>6
<1> HIDE DEF iv
<1>13. Meaning(cam, req) = <<cam.formats[k].format, r.res, iv>>
  <2>1. req # <<>> /\ req[1] = k /\ req[2] = j /\ req[3] = iv
    OBVIOUS
  <2>2. k \in DOMAIN cam.formats /\ j \in DOMAIN cam.formats[k].frames
    BY <1>1, <1>6, <1>9
  <2> HIDE DEF req
  <2> QED BY <2>1, <2>2 DEF Meaning, r
<1>14. ASSUME NEW reply \in Replies(cam, req)
       PROVE  GetAnswer(ds, 2, reply) \in Offered(cam, want)
  <2>1. Meaning(cam, req) # <<>>
    <3> HIDE DEF req
    <3> QED BY <1>13
  <2>2. req[1] = k /\ req[2] = j /\ req[3] = iv
    OBVIOUS
  <2> HIDE DEF req
  <2>3. PICK i \in Settles(r, iv) : reply = <<k, j, i>>
    <3>1. Replies(cam, req) =
             {<<req[1], req[2], i>> : i \in Settles(cam.formats[req[1]].frames[req[2]], req[3])}
      BY <2>1, Zenon DEF Replies
    <3>2. cam.formats[req[1]].frames[req[2]] = r
      BY <2>2 DEF r
    <3> QED BY <2>2, <3>1, <3>2
  <2>4. k \in Nat /\ j \in Nat
    BY <1>1, <1>6, <1>9
  <2>5. GetAnswer(ds, 2, <<k, j, i>>) = Meaning(cam, <<k, j, i>>)
    BY <2>4, AnswerMeans
  <2>6. Meaning(cam, <<k, j, i>>) = <<cam.formats[k].format, r.res, i>>
    <3>1. <<k, j, i>> # <<>> /\ <<k, j, i>>[1] = k /\ <<k, j, i>>[2] = j /\ <<k, j, i>>[3] = i
      OBVIOUS
    <3>2. k \in DOMAIN cam.formats /\ j \in DOMAIN cam.formats[k].frames
      BY <1>1, <1>6, <1>9
    <3> QED BY <3>1, <3>2 DEF Meaning, r
  <2>7. InOffered(cam, want, <<cam.formats[k].format, r.res, i>>)
    <3>1. cam.formats[k] \in ToSet(cam.formats) /\ r \in ToSet(cam.formats[k].frames)
      BY <1>1, <1>5, <1>6, <1>9 DEF ToSet, r
    <3>2. cam.formats[k].format = want.format /\ IsWanted(r, want)
      BY <1>7, <1>9 DEF r
    <3>3. i \in Settles(r, WantedInterval(r, want))
      BY <2>3 DEF iv
    <3> QED BY <3>1, <3>2, <3>3, Zenon DEF InOffered
  <2> QED BY <2>3, <2>5, <2>6, <2>7, OfferedIs
<1>18. ByFormat(ds, 2, want) # <<>>
  <2>1. \A a, b : <<a, b>> # <<>>
    OBVIOUS
  <2> QED BY <1>10, <2>1
<1> HIDE DEF req
<1> QED BY <1>12, <1>14, <1>18

LEMMA ClaimsOffered ==
  ASSUME NEW cam, IsCamera(cam), NEW ds, NEW off, NEW total, NEW rest,
         Sent(ds, cam, off, total, rest), NEW want, ByFormat(ds, 2, want) # <<>>, NEW limit
  PROVE  Claimed(ds, 0, want, limit) =
            IF BestAlternate(ds, 2, limit) = -1 THEN <<>> ELSE <<2, BestAlternate(ds, 2, limit)>>
<1>1. ControlHeader(ds, 0) = 5 /\ ds[5].inside = <<2>>
  BY HeadersAt
<1> DEFINE in == ds[5].inside
           good == {k \in DOMAIN in : Supported(ds, in[k], want)}
<1>2. DOMAIN in = {1} /\ in[1] = 2
  BY <1>1
<1>3. Supported(ds, 2, want)
  BY DEF Supported
<1>4. good = {1}
  BY <1>2, <1>3
<1> HIDE DEF good
<1>5. Min(good) = 1
  <2>1. good \in SUBSET Nat /\ 1 \in good /\ \A x \in good : 1 <= x
    BY <1>4
  <2> QED BY <2>1, MinIs
<1> DEFINE head == ControlHeader(ds, 0)
           set == {k \in DOMAIN ds[head].inside : Supported(ds, ds[head].inside[k], want)}
<1>6. StreamingInterface(ds, 0, want) =
         IF head = 0 \/ set = {} THEN -1 ELSE ds[head].inside[Min(set)]
  BY Zenon DEF StreamingInterface
<1>7. set = good
  BY <1>1 DEF good
<1>8. head = 5 /\ head # 0 /\ good # {}
  BY <1>1, <1>4
<1> HIDE DEF set, head
<1>9. StreamingInterface(ds, 0, want) = 2
  BY <1>2, <1>5, <1>6, <1>7, <1>8
<1> QED BY <1>9 DEF Claimed

(* The alternate setting with the largest packet within the limit. *)
LEMMA MaxIs ==
  ASSUME NEW S, S \in SUBSET Nat, NEW m \in S, \A x \in S : m >= x
  PROVE  Max(S) = m
<1>1. Max(S) \in S /\ \A y \in S : Max(S) >= y
  BY Zenon DEF Max
<1>2. Max(S) \in Nat /\ Max(S) >= m /\ m >= Max(S)
  BY <1>1
<1> QED BY <1>2

LEMMA MaxInside ==
  ASSUME NEW n \in Nat, NEW S \in SUBSET (0 .. n), S # {}
  PROVE  Max(S) \in S
<1> DEFINE T == {n - k : k \in S}
<1>1. T \in SUBSET Nat /\ T # {}
  <2>1. \A k \in S : n - k \in Nat
    OBVIOUS
  <2> QED BY <2>1
<1>2. PICK d \in T : \A m \in T : d <= m
  <2> HIDE DEF T
  <2> QED BY <1>1, Least
<1>3. PICK x \in S : d = n - x
  OBVIOUS
<1>4. \A y \in S : x >= y
  <2> TAKE y \in S
  <2>1. n - y \in T
    OBVIOUS
  <2>2. n - x <= n - y
    BY <1>2, <1>3, <2>1
  <2> QED BY <2>2
<1> QED BY <1>4, Zenon DEF Max

PacketOf(cam, a) == IF a = 0 THEN cam.bulk ELSE cam.packets[a]

FitsOf(cam, rest, limit) ==
  {a \in 0 .. rest : PacketOf(cam, a) # 0 /\ PacketOf(cam, a) <= limit}
BestOf(cam, fits) ==
  {a \in fits : \A b \in fits : PacketOf(cam, b) <= PacketOf(cam, a)}

LEMMA SettingsAre ==
  ASSUME NEW cam, IsCamera(cam), NEW ds, NEW off, NEW total, NEW rest,
         Sent(ds, cam, off, total, rest)
  PROVE  /\ rest \in Nat
         /\ 0 .. (Cardinality(Settings(ds, 2)) - 1) = 0 .. rest
<1>1. rest \in Nat /\ total \in Nat /\ IsFront(ds, cam, total)
  BY DEF Sent
<1> DEFINE I == {j \in DOMAIN ds : ds[j].kind = "interface" /\ ds[j].number = 2}
           S == {ds[i].setting : i \in I}
<1>2. ASSUME NEW a \in 0 .. rest PROVE a \in S
  <2> DEFINE at == SettingAt(total, a)
  <2>1. at \in DOMAIN ds /\ IsSetting(ds[at], a, IF a = 0 THEN cam.bulk ELSE cam.packets[a])
    BY SettingsAt
  <2> HIDE DEF at
  <2>2. at \in I /\ ds[at].setting = a
    BY <2>1 DEF IsSetting
  <2> QED BY <2>2
<1>3. ASSUME NEW i \in I PROVE ds[i].setting \in 0 .. rest
  <2>1. i \in DOMAIN ds /\ ds[i].kind = "interface" /\ ds[i].number = 2
    OBVIOUS
  <2>2. CASE i \in {1, 2, 3, 4, 5, 6, 7}
    <3>1. i = 6
      BY <1>1, <2>1, <2>2 DEF IsFront
    <3>2. ds[6].setting = 0
      BY <1>1 DEF IsFront, IsSetting
    <3> QED BY <1>1, <3>1, <3>2
  <2>3. CASE \E x \in 1 .. rest : i = 7 + total + x /\ IsSetting(ds[i], x, cam.packets[x])
    BY <1>1, <2>3 DEF IsSetting
  <2> QED BY <2>1, <2>2, <2>3, Places
<1> HIDE DEF I
<1>4. S = 0 .. rest
  <2>1. \A s \in S : s \in 0 .. rest
    BY <1>3
  <2> HIDE DEF S
  <2> QED BY <1>2, <2>1
<1>5. Settings(ds, 2) = S
  BY Zenon DEF Settings, I
<1>6. Cardinality(0 .. rest) = rest + 1
  BY <1>1, FS_Interval
<1> HIDE DEF S
<1>7. Cardinality(Settings(ds, 2)) - 1 = rest
  BY <1>1, <1>4, <1>5, <1>6
<1> QED BY <1>1, <1>7

LEMMA BestIs ==
  ASSUME NEW cam, IsCamera(cam), NEW ds, NEW off, NEW total, NEW rest,
         Sent(ds, cam, off, total, rest), NEW limit \in Nat
  PROVE  /\ BestAlternate(ds, 2, limit) =
               IF FitsOf(cam, rest, limit) = {} THEN -1
               ELSE Max(BestOf(cam, FitsOf(cam, rest, limit)))
         /\ \A a \in 0 .. rest : /\ Packet(ds, 2, a) = PacketOf(cam, a)
                                 /\ PacketOf(cam, a) \in Nat
<1> DEFINE fits == {a \in 0 .. rest : PacketOf(cam, a) # 0 /\ PacketOf(cam, a) <= limit}
           best == {a \in fits : \A b \in fits : PacketOf(cam, b) <= PacketOf(cam, a)}
           asked == 0 .. (Cardinality(Settings(ds, 2)) - 1)
           broken == \E a \in asked :
                       LET i == Interface(ds, 2, a) IN
                         \/ i = 0 \/ ~ds[i].video \/ ~ds[i].streaming
                         \/ ds[i].endpoints # 1 /\ ~(a = 0 /\ ds[i].endpoints = 0)
           fitsC == {a \in asked : /\ ds[Interface(ds, 2, a)].endpoints = 1
                                   /\ Packet(ds, 2, a) <= limit}
           bestC == {a \in fitsC : \A b \in fitsC : Packet(ds, 2, b) <= Packet(ds, 2, a)}
<1>1. BestAlternate(ds, 2, limit) = IF broken \/ fitsC = {} THEN -1 ELSE Max(bestC)
  BY Zenon DEF BestAlternate
<1>2. rest \in Nat /\ asked = 0 .. rest /\ total \in Nat
  BY SettingsAre DEF Sent
<1>3. ASSUME NEW a \in 0 .. rest
      PROVE  /\ Interface(ds, 2, a) # 0
             /\ IsSetting(ds[Interface(ds, 2, a)], a, PacketOf(cam, a))
  <2>1. /\ IsSetting(ds[SettingAt(total, a)], a, IF a = 0 THEN cam.bulk ELSE cam.packets[a])
        /\ Interface(ds, 2, a) = SettingAt(total, a)
    BY SettingsAt
  <2>2. SettingAt(total, a) # 0
    BY <1>2 DEF SettingAt
  <2> QED BY <2>1, <2>2 DEF PacketOf
<1>4. ASSUME NEW a \in 0 .. rest PROVE PacketOf(cam, a) \in Nat /\ (a # 0 => PacketOf(cam, a) # 0)
  <2>1. rest = IF cam.bulk # 0 THEN 0 ELSE Len(cam.packets)
    BY DEF Sent
  <2>2. cam.packets \in Seq(Nat \ {0}) /\ cam.bulk \in Nat
    BY DEF IsCamera
  <2>3. CASE a = 0
    BY <2>2, <2>3 DEF PacketOf
  <2>4. CASE a # 0
    <3>1. a \in 1 .. Len(cam.packets)
      BY <1>2, <2>1, <2>4
    <3>2. cam.packets[a] \in Nat \ {0}
      BY <2>2, <3>1
    <3> QED BY <2>4, <3>2 DEF PacketOf
  <2> QED BY <2>3, <2>4
<1>5. ASSUME NEW a \in 0 .. rest
      PROVE  /\ Packet(ds, 2, a) = PacketOf(cam, a)
             /\ ds[Interface(ds, 2, a)].video = TRUE /\ ds[Interface(ds, 2, a)].streaming = TRUE
             /\ ds[Interface(ds, 2, a)].endpoints = IF PacketOf(cam, a) = 0 THEN 0 ELSE 1
  BY <1>3 DEF IsSetting, Packet
<1>6. ~broken
  <2> SUFFICES ASSUME NEW a \in 0 .. rest
               PROVE LET i == Interface(ds, 2, a) IN
                       ~(\/ i = 0 \/ ~ds[i].video \/ ~ds[i].streaming
                         \/ ds[i].endpoints # 1 /\ ~(a = 0 /\ ds[i].endpoints = 0))
    BY <1>2
  <2> QED BY <1>3, <1>4, <1>5
<1>7. fitsC = fits
  <2>1. \A a \in 0 .. rest : (ds[Interface(ds, 2, a)].endpoints = 1) <=> PacketOf(cam, a) # 0
    <3> TAKE a \in 0 .. rest
    <3> DEFINE e == ds[Interface(ds, 2, a)].endpoints
               x == PacketOf(cam, a)
    <3>1. e = IF x = 0 THEN 0 ELSE 1
      BY <1>5
    <3> HIDE DEF e, x
    <3>2. (e = 1) <=> (x # 0)
      BY <3>1
    <3> QED BY <3>2 DEF e, x
  <2> HIDE DEF asked
  <2> QED BY <1>2, <1>5, <2>1
<1>8. bestC = best
  <2>1. \A a \in fits : Packet(ds, 2, a) = PacketOf(cam, a)
    BY <1>5
  <2> HIDE DEF fits, fitsC
  <2> QED BY <1>7, <2>1
<1> HIDE DEF broken, fitsC, bestC, best, fits
<1>9. BestAlternate(ds, 2, limit) = IF fits = {} THEN -1 ELSE Max(best)
  BY <1>1, <1>6, <1>7, <1>8
<1> QED BY <1>4, <1>5, <1>9 DEF fits, best, FitsOf, BestOf

LEMMA SettingAlwaysBest ==
  ASSUME NEW cam, IsCamera(cam), NEW ds, NEW off, NEW total, NEW rest,
         Sent(ds, cam, off, total, rest), Limits \subseteq Nat
  PROVE  BestSetting(cam, ds)
<1> SUFFICES ASSUME NEW limit \in Limits
             PROVE  LET packets == IF cam.bulk # 0 THEN {cam.bulk} ELSE ToSet(cam.packets)
                        best    == BestAlternate(ds, 2, limit)
                    IN IF \A p \in packets : p > limit THEN best = -1
                       ELSE Packet(ds, 2, best) = Max({p \in packets : p <= limit})
  BY DEF BestSetting
<1> DEFINE packets == IF cam.bulk # 0 THEN {cam.bulk} ELSE ToSet(cam.packets)
           fits == {a \in 0 .. rest : PacketOf(cam, a) # 0 /\ PacketOf(cam, a) <= limit}
           best == {a \in fits : \A b \in fits : PacketOf(cam, b) <= PacketOf(cam, a)}
<1>1. /\ BestAlternate(ds, 2, limit) = IF fits = {} THEN -1 ELSE Max(best)
      /\ \A a \in 0 .. rest : Packet(ds, 2, a) = PacketOf(cam, a) /\ PacketOf(cam, a) \in Nat
      /\ limit \in Nat
  <2>1. limit \in Nat
    OBVIOUS
  <2>2. /\ BestAlternate(ds, 2, limit) =
              IF FitsOf(cam, rest, limit) = {} THEN -1
              ELSE Max(BestOf(cam, FitsOf(cam, rest, limit)))
        /\ \A a \in 0 .. rest : Packet(ds, 2, a) = PacketOf(cam, a) /\ PacketOf(cam, a) \in Nat
    BY <2>1, BestIs
  <2>3. FitsOf(cam, rest, limit) = fits /\ BestOf(cam, fits) = best
    BY Zenon DEF FitsOf, BestOf
  <2> HIDE DEF fits, best
  <2> QED BY <2>1, <2>2, <2>3
<1>2. /\ rest = (IF cam.bulk # 0 THEN 0 ELSE Len(cam.packets)) /\ rest \in Nat
      /\ cam.packets \in Seq(Nat \ {0}) /\ cam.bulk \in Nat
  BY DEF Sent, IsCamera
<1>3. \A p : p \in packets <=> \E a \in 0 .. rest : PacketOf(cam, a) # 0 /\ p = PacketOf(cam, a)
  <2>1. CASE cam.bulk # 0
    <3>1. rest = 0 /\ packets = {cam.bulk}
      BY <1>2, <2>1
    <3>2. 0 .. rest = {0} /\ PacketOf(cam, 0) = cam.bulk
      BY <3>1 DEF PacketOf
    <3> HIDE DEF packets
    <3> QED BY <2>1, <3>1, <3>2
  <2>2. CASE cam.bulk = 0
    <3>1. rest = Len(cam.packets) /\ packets = ToSet(cam.packets) /\ PacketOf(cam, 0) = 0
      BY <1>2, <2>2 DEF PacketOf
    <3>2. ASSUME NEW a \in 1 .. rest
          PROVE  PacketOf(cam, a) = cam.packets[a] /\ PacketOf(cam, a) # 0 /\ a \in 0 .. rest
                 /\ a \in DOMAIN cam.packets
      BY <1>2, <3>1 DEF PacketOf
    <3>3. \A p : p \in packets <=> \E a \in 1 .. rest : p = cam.packets[a]
      BY <1>2, <3>1 DEF ToSet
    <3>4. \A a \in 0 .. rest : a = 0 \/ a \in 1 .. rest
      BY <1>2
    <3> HIDE DEF packets
    <3> QED BY <3>1, <3>2, <3>3, <3>4
  <2> QED BY <2>1, <2>2
<1> HIDE DEF packets
<1>4. CASE fits = {}
  <2>1. \A p \in packets : p > limit
    <3> TAKE p \in packets
    <3>1. PICK a \in 0 .. rest : PacketOf(cam, a) # 0 /\ p = PacketOf(cam, a)
      BY <1>3
    <3>2. a \notin fits
      BY <1>4
    <3>3. ~(PacketOf(cam, a) <= limit)
      BY <3>1, <3>2
    <3> QED BY <1>1, <3>1, <3>3
  <2> HIDE DEF fits, best
  <2> QED BY <1>1, <1>4, <2>1 DEF packets
<1>5. CASE fits # {}
  <2> DEFINE D == {limit - PacketOf(cam, a) : a \in fits}
  <2>1. \A a \in fits : /\ PacketOf(cam, a) \in Nat /\ PacketOf(cam, a) <= limit
                        /\ limit - PacketOf(cam, a) \in Nat /\ PacketOf(cam, a) # 0
                        /\ a \in 0 .. rest
    BY <1>1
  <2>2. D \in SUBSET Nat /\ D # {}
    BY <1>5, <2>1
  <2>3. PICK d \in D : \A e \in D : d <= e
    <3> HIDE DEF D
    <3> QED BY <2>2, Least
  <2>4. PICK a0 \in fits : d = limit - PacketOf(cam, a0)
    OBVIOUS
  <2>5. a0 \in best
    <3>1. ASSUME NEW b \in fits PROVE PacketOf(cam, b) <= PacketOf(cam, a0)
      <4>1. limit - PacketOf(cam, b) \in D
        OBVIOUS
      <4>2. limit - PacketOf(cam, a0) <= limit - PacketOf(cam, b)
        BY <2>3, <2>4, <4>1
      <4> HIDE DEF fits
      <4> QED BY <1>1, <2>1, <4>2
    <3> HIDE DEF fits
    <3> QED BY <3>1
  <2> DEFINE a == Max(best)
  <2>6. a \in best
    <3>1. best \in SUBSET (0 .. rest) /\ best # {}
      BY <2>5
    <3> HIDE DEF best
    <3> QED BY <1>2, <3>1, MaxInside
  <2> HIDE DEF a
  <2>7. a \in fits /\ \A b \in fits : PacketOf(cam, b) <= PacketOf(cam, a)
    BY <2>6
  <2> HIDE DEF best, D
  <2>8. Packet(ds, 2, BestAlternate(ds, 2, limit)) = PacketOf(cam, a)
    BY <1>1, <1>5, <2>1, <2>7 DEF a
  <2> DEFINE S == {p \in packets : p <= limit}
  <2>9. PacketOf(cam, a) \in S
    BY <1>3, <2>1, <2>7
  <2>10. ASSUME NEW p \in S PROVE p \in Nat /\ PacketOf(cam, a) >= p
    <3>1. PICK b \in 0 .. rest : PacketOf(cam, b) # 0 /\ p = PacketOf(cam, b)
      BY <1>3
    <3>2. b \in fits
      BY <3>1
    <3> QED BY <2>1, <2>7, <3>1, <3>2
  <2>11. ~ \A p \in packets : p > limit
    BY <1>1, <2>9, <2>10
  <2> HIDE DEF S, fits
  <2>12. Max(S) = PacketOf(cam, a)
    <3>1. S \in SUBSET Nat
      BY <2>10
    <3> QED BY <2>9, <2>10, <3>1, MaxIs
  <2> QED BY <2>8, <2>11, <2>12 DEF S, packets
<1> QED BY <1>4, <1>5

(* The number of frames and their list (uvc_desc_get_frame_list): what the    *)
(* folds compute, one descriptor after the other.                             *)
IsCounted(it, s) ==
  it = [t \in SUBSET DOMAIN s |->
          IF t = {} THEN 0
          ELSE IF IsKnown(s[Max(t)]) THEN it[t \ {Max(t)}] + s[Max(t)].frames
               ELSE it[t \ {Max(t)}]]

LEMMA CountedIsFold ==
  ASSUME NEW s, \E it : IsCounted(it, s)
  PROVE  \E it : IsCounted(it, s) /\ CountFrames(s) = it[DOMAIN s]
BY Zenon DEF IsCounted, CountFrames, FoldLeft, MapThenFoldSet

LEMMA CountWalks ==
  ASSUME NEW E, NEW s \in Seq(E),
         \A k \in 1 .. Len(s) : IsKnown(s[k]) => s[k].frames \in Nat
  PROVE  \E w : /\ w \in [0 .. Len(s) -> Nat] /\ w[0] = 0
                /\ \A k \in 1 .. Len(s) :
                      w[k] = IF IsKnown(s[k]) THEN w[k - 1] + s[k].frames ELSE w[k - 1]
                /\ CountFrames(s) = w[Len(s)]
<1> DEFINE n == Len(s)
           step == [p \in (1 .. n) \X Nat |->
                      IF IsKnown(s[p[1]]) THEN p[2] + s[p[1]].frames ELSE p[2]]
<1>1. n \in Nat /\ DOMAIN s = 1 .. n
  OBVIOUS
<1>2. ASSUME NEW k \in 1 .. n, NEW v \in Nat
      PROVE  /\ step[<<k, v>>] = IF IsKnown(s[k]) THEN v + s[k].frames ELSE v
             /\ step[<<k, v>>] \in Nat
  <2>1. step[<<k, v>>] = IF IsKnown(s[k]) THEN v + s[k].frames ELSE v
    OBVIOUS
  <2>2. IsKnown(s[k]) => s[k].frames \in Nat
    OBVIOUS
  <2> HIDE DEF step
  <2> QED BY <2>1, <2>2
<1> HIDE DEF n, step
<1>3. PICK f, w : /\ IsFold(f, n, Nat, 0, step) /\ IsWalk(w, n, Nat, 0, step)
                  /\ w[n] = f[1 .. n]
  <2>1. Steps(n, Nat, step)
    BY <1>2 DEF Steps
  <2> DEFINE V == Nat
             base == 0
  <2>2. base \in V /\ Steps(n, V, step)
    BY <2>1
  <2> HIDE DEF V, base
  <2>3. \E f, w : IsFold(f, n, V, base, step) /\ IsWalk(w, n, V, base, step) /\ w[n] = f[1 .. n]
    BY <1>1, <2>2, WalkExists
  <2> QED BY <2>3 DEF V, base
<1>4. /\ f \in [SUBSET (1 .. n) -> Nat]
      /\ \A t \in SUBSET (1 .. n) :
            f[t] = IF t = {} THEN 0 ELSE step[<<Max(t), f[t \ {Max(t)}]>>]
  BY <1>3 DEF IsFold
<1>5. ASSUME NEW t \in SUBSET (1 .. n)
      PROVE  f[t] = IF t = {} THEN 0
                    ELSE IF IsKnown(s[Max(t)]) THEN f[t \ {Max(t)}] + s[Max(t)].frames
                         ELSE f[t \ {Max(t)}]
  <2>1. CASE t = {}
    BY <1>4, <2>1
  <2>2. CASE t # {}
    <3>1. Max(t) \in 1 .. n /\ t \ {Max(t)} \in SUBSET (1 .. n)
      BY <1>1, <2>2, MaxIn
    <3>2. f[t \ {Max(t)}] \in Nat
      BY <1>4, <3>1
    <3>3. f[t] = step[<<Max(t), f[t \ {Max(t)}]>>]
      BY <1>4, <2>2
    <3> QED BY <1>2, <2>2, <3>1, <3>2, <3>3
  <2> QED BY <2>1, <2>2
<1>6. f = [t \in SUBSET (1 .. n) |-> f[t]]
  BY <1>4
<1>7. IsCounted(f, s)
  <2>1. f = [t \in SUBSET (1 .. n) |->
               IF t = {} THEN 0
               ELSE IF IsKnown(s[Max(t)]) THEN f[t \ {Max(t)}] + s[Max(t)].frames
                    ELSE f[t \ {Max(t)}]]
    BY <1>5, <1>6, Zenon
  <2> QED BY <1>1, <2>1 DEF IsCounted
<1>8. PICK g : IsCounted(g, s) /\ CountFrames(s) = g[DOMAIN s]
  BY <1>7, CountedIsFold
<1>9. /\ w \in [0 .. n -> Nat] /\ w[0] = 0
      /\ \A k \in 1 .. n : w[k] = IF IsKnown(s[k]) THEN w[k - 1] + s[k].frames ELSE w[k - 1]
  <2>1. /\ w \in [0 .. n -> Nat] /\ w[0] = 0 /\ \A k \in 1 .. n : w[k] = step[<<k, w[k - 1]>>]
    BY <1>3 DEF IsWalk
  <2>2. \A k \in 1 .. n : w[k - 1] \in Nat
    BY <1>1, <2>1
  <2> QED BY <1>2, <2>1, <2>2
<1> DEFINE G == {m \in 0 .. n : g[1 .. m] = f[1 .. m]}
<1>10. /\ \A t \in SUBSET (1 .. n) :
            g[t] = IF t = {} THEN 0
                   ELSE IF IsKnown(s[Max(t)]) THEN g[t \ {Max(t)}] + s[Max(t)].frames
                        ELSE g[t \ {Max(t)}]
  BY <1>1, <1>8 DEF IsCounted
<1>11. 0 \in G
  <2>1. 1 .. 0 = {} /\ {} \in SUBSET (1 .. n) /\ 0 \in 0 .. n
    BY <1>1
  <2> QED BY <1>5, <1>10, <2>1
<1>12. ASSUME NEW m \in 0 .. (n - 1), m \in G PROVE m + 1 \in G
  <2>1. /\ 1 .. (m + 1) \in SUBSET (1 .. n) /\ m + 1 \in 1 .. (m + 1) /\ m + 1 \in 0 .. n
        /\ (1 .. (m + 1)) \ {m + 1} = 1 .. m /\ m + 1 \in Nat /\ 1 .. (m + 1) # {}
    <3>1. m \in Nat /\ m + 1 \in Nat /\ m + 1 <= n
      BY <1>1
    <3>2. 1 .. (m + 1) \in SUBSET (1 .. n)
      BY <1>1, <3>1
    <3>3. m + 1 \in 1 .. (m + 1) /\ m + 1 \in 0 .. n
      BY <1>1, <3>1
    <3>4. (1 .. (m + 1)) \ {m + 1} = 1 .. m
      BY <3>1
    <3>5. 1 .. (m + 1) # {}
      BY <3>3
    <3> QED BY <3>1, <3>2, <3>3, <3>4, <3>5
  <2>2. Max(1 .. (m + 1)) = m + 1
    <3>1. 1 .. (m + 1) \in SUBSET (1 .. (m + 1))
      OBVIOUS
    <3> QED BY <2>1, <3>1, LargestIs
  <2>3. g[1 .. m] = f[1 .. m]
    BY <1>12
  <2>4. g[1 .. (m + 1)] = IF IsKnown(s[m + 1]) THEN g[1 .. m] + s[m + 1].frames ELSE g[1 .. m]
    BY <1>10, <2>1, <2>2
  <2>5. f[1 .. (m + 1)] = IF IsKnown(s[m + 1]) THEN f[1 .. m] + s[m + 1].frames ELSE f[1 .. m]
    BY <1>5, <2>1, <2>2
  <2>6. g[1 .. (m + 1)] = f[1 .. (m + 1)]
    BY <2>3, <2>4, <2>5
  <2> QED BY <2>1, <2>6
<1> HIDE DEF G
<1>13. 0 .. n \subseteq G
  BY <1>1, <1>11, <1>12, Upwards
<1>14. n \in G
  BY <1>1, <1>13
<1>15. CountFrames(s) = w[n]
  BY <1>1, <1>3, <1>8, <1>14 DEF G
<1> QED BY <1>9, <1>15 DEF n

Begun == [format |-> "none", list |-> <<>>]
FormatsOf(s) == {s[k].format : k \in 1 .. Len(s)} \cup {"none"}
EntriesOf(s) == [format : FormatsOf(s), res : {s[k].res : k \in 1 .. Len(s)}]
ListStates(s) == [format : FormatsOf(s), list : Seq(EntriesOf(s))]

IsListed(it, s, size) ==
  it = [t \in SUBSET DOMAIN s |->
          IF t = {} THEN Begun ELSE ListStep(it[t \ {Max(t)}], s[Max(t)], size)]

LEMMA ListedIsFold ==
  ASSUME NEW s, NEW size, \E it : IsListed(it, s, size)
  PROVE  \E it : IsListed(it, s, size) /\ ListFrames(s, size) = it[DOMAIN s]
BY Zenon DEF IsListed, ListFrames, FoldLeft, MapThenFoldSet, Begun

LEMMA ListStepType ==
  ASSUME NEW s, NEW k \in 1 .. Len(s), NEW v \in ListStates(s), NEW size
  PROVE  ListStep(v, s[k], size) \in ListStates(s)
<1> DEFINE d == s[k]
           F == FormatsOf(s)
           I == EntriesOf(s)
           new == [format |-> v.format, res |-> d.res]
<1>1. d.format \in F /\ "none" \in F /\ d.res \in {s[i].res : i \in 1 .. Len(s)}
  BY DEF FormatsOf
<1>2. v.format \in F /\ v.list \in Seq(I) /\ v = [format |-> v.format, list |-> v.list]
  BY DEF ListStates
<1>3. new \in I
  BY <1>1, <1>2 DEF EntriesOf
<1> HIDE DEF d, F, I, new
<1>4. Append(v.list, new) \in Seq(I)
  BY <1>2, <1>3
<1>5. \/ ListStep(v, d, size) = v
      \/ ListStep(v, d, size) = [v EXCEPT !.format = d.format]
      \/ ListStep(v, d, size) = [v EXCEPT !.format = "none"]
      \/ ListStep(v, d, size) = [v EXCEPT !.list = Append(v.list, new)]
  BY Zenon DEF ListStep, Parsed, new
<1> DEFINE Q == Seq(I)
           x == Append(v.list, new)
<1>6. v \in [format : F, list : Q] /\ x \in Q /\ d.format \in F /\ "none" \in F
  BY <1>1, <1>2, <1>4 DEF ListStates, F, I
<1>7. ListStep(v, d, size) \in [format : F, list : Q]
  <2> DEFINE y == d.format
  <2>1. ListStep(v, d, size) \in {v, [v EXCEPT !.format = y], [v EXCEPT !.format = "none"],
                                  [v EXCEPT !.list = x]}
    BY <1>5
  <2>2. y \in F
    BY <1>6
  <2> HIDE DEF Q, x, y
  <2>3. [v EXCEPT !.format = y] \in [format : F, list : Q]
    BY <1>6, <2>2
  <2>4. [v EXCEPT !.format = "none"] \in [format : F, list : Q]
    BY <1>6
  <2>5. [v EXCEPT !.list = x] \in [format : F, list : Q]
    BY <1>6
  <2> QED BY <1>6, <2>1, <2>3, <2>4, <2>5
<1> QED BY <1>7 DEF ListStates, F, I, d

LEMMA ListWalks ==
  ASSUME NEW E, NEW s \in Seq(E), NEW size
  PROVE  \E w : /\ w \in [0 .. Len(s) -> ListStates(s)] /\ w[0] = Begun
                /\ \A k \in 1 .. Len(s) : w[k] = ListStep(w[k - 1], s[k], size)
                /\ ListFrames(s, size) = w[Len(s)]
<1> DEFINE n == Len(s)
           V == ListStates(s)
           step == [p \in (1 .. n) \X V |-> ListStep(p[2], s[p[1]], size)]
<1>1. n \in Nat /\ DOMAIN s = 1 .. n
  OBVIOUS
<1>2. ASSUME NEW k \in 1 .. n, NEW v \in V
      PROVE  step[<<k, v>>] = ListStep(v, s[k], size) /\ step[<<k, v>>] \in V
  <2>1. step[<<k, v>>] = ListStep(v, s[k], size)
    OBVIOUS
  <2>2. ListStep(v, s[k], size) \in V
    BY ListStepType
  <2> HIDE DEF step
  <2> QED BY <2>1, <2>2
<1>0. Begun \in V
  <2>1. <<>> \in Seq(EntriesOf(s)) /\ "none" \in FormatsOf(s)
    BY DEF FormatsOf
  <2> QED BY <2>1 DEF Begun, ListStates
<1> HIDE DEF n, step, V
<1>3. PICK f, w : /\ IsFold(f, n, V, Begun, step) /\ IsWalk(w, n, V, Begun, step)
                  /\ w[n] = f[1 .. n]
  <2>1. Steps(n, V, step)
    BY <1>2 DEF Steps
  <2> DEFINE base == Begun
  <2>2. base \in V
    BY <1>0
  <2> HIDE DEF base
  <2>3. \E f, w : IsFold(f, n, V, base, step) /\ IsWalk(w, n, V, base, step) /\ w[n] = f[1 .. n]
    BY <1>1, <2>1, <2>2, WalkExists
  <2> QED BY <2>3 DEF base
<1>4. /\ f \in [SUBSET (1 .. n) -> V]
      /\ \A t \in SUBSET (1 .. n) :
            f[t] = IF t = {} THEN Begun ELSE step[<<Max(t), f[t \ {Max(t)}]>>]
  BY <1>3 DEF IsFold
<1>5. ASSUME NEW t \in SUBSET (1 .. n)
      PROVE  f[t] = IF t = {} THEN Begun ELSE ListStep(f[t \ {Max(t)}], s[Max(t)], size)
  <2>1. CASE t = {}
    BY <1>4, <2>1
  <2>2. CASE t # {}
    <3>1. Max(t) \in 1 .. n /\ t \ {Max(t)} \in SUBSET (1 .. n)
      BY <1>1, <2>2, MaxIn
    <3>2. f[t \ {Max(t)}] \in V
      BY <1>4, <3>1
    <3>3. f[t] = step[<<Max(t), f[t \ {Max(t)}]>>]
      BY <1>4, <2>2
    <3> QED BY <1>2, <2>2, <3>1, <3>2, <3>3
  <2> QED BY <2>1, <2>2
<1>6. f = [t \in SUBSET (1 .. n) |-> f[t]]
  BY <1>4
<1>7. IsListed(f, s, size)
  <2>1. f = [t \in SUBSET (1 .. n) |->
               IF t = {} THEN Begun ELSE ListStep(f[t \ {Max(t)}], s[Max(t)], size)]
    BY <1>5, <1>6, Zenon
  <2> QED BY <1>1, <2>1 DEF IsListed
<1>8. PICK g : IsListed(g, s, size) /\ ListFrames(s, size) = g[DOMAIN s]
  BY <1>7, ListedIsFold
<1>9. /\ w \in [0 .. n -> V] /\ w[0] = Begun
      /\ \A k \in 1 .. n : w[k] = ListStep(w[k - 1], s[k], size)
  <2>1. /\ w \in [0 .. n -> V] /\ w[0] = Begun
        /\ \A k \in 1 .. n : w[k] = step[<<k, w[k - 1]>>]
    BY <1>3 DEF IsWalk
  <2>2. \A k \in 1 .. n : w[k - 1] \in V
    BY <1>1, <2>1
  <2> QED BY <1>2, <2>1, <2>2
<1> DEFINE G == {m \in 0 .. n : g[1 .. m] = f[1 .. m]}
<1>10. \A t \in SUBSET (1 .. n) :
          g[t] = IF t = {} THEN Begun ELSE ListStep(g[t \ {Max(t)}], s[Max(t)], size)
  BY <1>1, <1>8 DEF IsListed
<1>11. 0 \in G
  <2>1. 1 .. 0 = {} /\ {} \in SUBSET (1 .. n) /\ 0 \in 0 .. n
    BY <1>1
  <2> QED BY <1>5, <1>10, <2>1
<1>12. ASSUME NEW m \in 0 .. (n - 1), m \in G PROVE m + 1 \in G
  <2>1. /\ 1 .. (m + 1) \in SUBSET (1 .. n) /\ m + 1 \in 1 .. (m + 1) /\ m + 1 \in 0 .. n
        /\ (1 .. (m + 1)) \ {m + 1} = 1 .. m /\ m + 1 \in Nat /\ 1 .. (m + 1) # {}
    <3>1. m \in Nat /\ m + 1 \in Nat /\ m + 1 <= n
      BY <1>1
    <3>2. 1 .. (m + 1) \in SUBSET (1 .. n)
      BY <1>1, <3>1
    <3>3. m + 1 \in 1 .. (m + 1) /\ m + 1 \in 0 .. n
      BY <1>1, <3>1
    <3>4. (1 .. (m + 1)) \ {m + 1} = 1 .. m
      BY <3>1
    <3>5. 1 .. (m + 1) # {}
      BY <3>3
    <3> QED BY <3>1, <3>2, <3>3, <3>4, <3>5
  <2>2. Max(1 .. (m + 1)) = m + 1
    <3>1. 1 .. (m + 1) \in SUBSET (1 .. (m + 1))
      OBVIOUS
    <3> QED BY <2>1, <3>1, LargestIs
  <2>3. g[1 .. m] = f[1 .. m]
    BY <1>12
  <2>4. g[1 .. (m + 1)] = ListStep(g[1 .. m], s[m + 1], size)
    BY <1>10, <2>1, <2>2
  <2>5. f[1 .. (m + 1)] = ListStep(f[1 .. m], s[m + 1], size)
    BY <1>5, <2>1, <2>2
  <2>6. g[1 .. (m + 1)] = f[1 .. (m + 1)]
    BY <2>3, <2>4, <2>5
  <2> QED BY <2>1, <2>6
<1> HIDE DEF G
<1>13. 0 .. n \subseteq G
  BY <1>1, <1>11, <1>12, Upwards
<1>14. n \in G
  BY <1>1, <1>13
<1>15. ListFrames(s, size) = w[n]
  BY <1>1, <1>3, <1>8, <1>14 DEF G
<1> QED BY <1>9, <1>15 DEF n, V

\* A walk that stands still from a to b.
LEMMA StandsStill ==
  ASSUME NEW a \in Nat, NEW b \in Nat, NEW w, \A p \in (a + 1) .. b : w[p] = w[p - 1]
  PROVE  \A p \in a .. b : w[p] = w[a]
<1> SUFFICES ASSUME NEW p \in a .. b PROVE w[p] = w[a]
  OBVIOUS
<1> DEFINE n == b - a
           G == {m \in 0 .. n : w[a + m] = w[a]}
<1>1. n \in Nat /\ p - a \in 0 .. n /\ a + (p - a) = p
  OBVIOUS
<1>2. 0 \in G
  BY <1>1
<1>3. ASSUME NEW m \in 0 .. (n - 1), m \in G PROVE m + 1 \in G
  <2>1. a + (m + 1) \in (a + 1) .. b /\ (a + (m + 1)) - 1 = a + m /\ m + 1 \in 0 .. n
    BY <1>1
  <2>2. w[a + m] = w[a]
    BY <1>3
  <2>3. w[a + (m + 1)] = w[a]
    BY <2>1, <2>2
  <2> HIDE DEF n
  <2> QED BY <2>1, <2>3
<1> HIDE DEF G, n
<1>4. 0 .. n \subseteq G
  BY <1>1, <1>2, <1>3, Upwards
<1>5. p - a \in G
  BY <1>1, <1>4
<1> QED BY <1>1, <1>5 DEF G

(* The part the header claims, from the format descriptors on. *)
ReadsBlock(s, off, total, f, k) ==
  /\ Len(f.frames) \in Nat \ {0} /\ f.closed \in BOOLEAN /\ f.format # "none"
  /\ off[k - 1] \in Nat /\ off[k] \in Nat /\ off[k] <= total
  /\ off[k] = off[k - 1] + Len(f.frames) + 1 + (IF f.closed THEN 1 ELSE 0)
  /\ s[off[k - 1] + 1].kind = "format" /\ s[off[k - 1] + 1].format = f.format
  /\ s[off[k - 1] + 1].frames = Len(f.frames)
  /\ \A j \in 1 .. Len(f.frames) : /\ s[off[k - 1] + 1 + j].kind = "frame"
                                   /\ s[off[k - 1] + 1 + j].res = f.frames[j].res
  /\ f.closed => s[off[k]].kind = "class"

Reads(s, cam, off, total) ==
  /\ Len(cam.formats) \in Nat \ {0} /\ DOMAIN cam.formats = 1 .. Len(cam.formats)
  /\ total \in Nat /\ Len(s) \in Nat /\ total <= Len(s)
  /\ s \in Seq({s[p] : p \in DOMAIN s}) /\ DOMAIN s = 1 .. Len(s)
  /\ off[0] = 0 /\ off[Len(cam.formats)] = total
  /\ \A k \in 1 .. Len(cam.formats) : ReadsBlock(s, off, total, cam.formats[k], k)
  /\ \A p \in (total + 1) .. Len(s) : s[p].kind = "interface"
  /\ \A p \in 1 .. Len(s) : s[p].kind = "format" => s[p].frames \in Nat

LEMMA InsideReads ==
  ASSUME NEW cam, IsCamera(cam), NEW ds, NEW off, NEW total, NEW rest,
         Sent(ds, cam, off, total, rest)
  PROVE  Reads(Inside(ds, 7), cam, off, total)
<1> DEFINE s == Inside(ds, 7)
           last == LastInside(ds, 7)
           len == last - 7
           n == Len(cam.formats)
           R == {ds[i] : i \in DOMAIN ds}
<1>1. /\ last \in (7 + total) .. (7 + total + rest) /\ total \in Nat /\ rest \in Nat
      /\ Len(ds) = 7 + total + rest /\ DOMAIN ds = 1 .. (7 + total + rest)
      /\ ds \in Seq(R)
  BY HeadersAt DEF Sent
<1>2. len \in Nat /\ total <= len /\ last \in Nat /\ len <= total + rest /\ 1 + last - 8 = len
  <2>1. last \in Nat /\ total \in Nat /\ rest \in Nat /\ 7 + total <= last /\ last <= 7 + total + rest
    BY <1>1
  <2> HIDE DEF last
  <2> QED BY <2>1
<1> HIDE DEF R
<1>3. /\ s \in Seq(R) /\ Len(s) = len
      /\ \A p \in 1 .. len : s[p] = ds[7 + p]
  <2>1. s = SubSeq(ds, 8, last)
    BY DEF Inside
  <2>2. \A p \in 8 .. last : p \in 1 .. Len(ds)
    BY <1>1
  <2> HIDE DEF last, len, s
  <2>3. SubSeq(ds, 8, last) \in Seq(R) /\ Len(SubSeq(ds, 8, last)) = len
    BY <1>1, <1>2, <2>2
  <2>4. \A p \in 1 .. len : SubSeq(ds, 8, last)[p] = ds[7 + p]
    BY <1>1, <1>2, <2>2
  <2> QED BY <2>1, <2>3, <2>4
<1> HIDE DEF s, len, last
<1>4. DOMAIN s = 1 .. Len(s) /\ s \in Seq({s[p] : p \in DOMAIN s})
  <2> DEFINE T == {s[p] : p \in DOMAIN s}
  <2>1. DOMAIN s = 1 .. Len(s) /\ s = [p \in 1 .. Len(s) |-> s[p]] /\ Len(s) \in Nat
    BY <1>3
  <2>2. \A p \in 1 .. Len(s) : s[p] \in T
    BY <2>1
  <2> HIDE DEF T
  <2>3. s \in Seq(T)
    BY <2>1, <2>2
  <2> QED BY <2>1, <2>3 DEF T
<1>5. n \in Nat \ {0} /\ DOMAIN cam.formats = 1 .. n
  BY SentFacts
<1>6. off[0] = 0 /\ off[n] = total
  BY DEF Sent, Offsets
<1>7. ASSUME NEW k \in 1 .. n PROVE ReadsBlock(s, off, total, cam.formats[k], k)
  <2> DEFINE f == cam.formats[k]
             m == Len(f.frames)
             at == off[k - 1]
  <2>1. BlockFacts(ds, off, total, f, k)
    BY SentFacts
  <2>2. /\ m \in Nat \ {0} /\ f.closed \in BOOLEAN /\ at \in Nat /\ off[k] \in Nat /\ off[k] <= total
        /\ off[k] = at + m + 1 + (IF f.closed THEN 1 ELSE 0)
    <3> DEFINE size == Size(f)
               c == IF f.closed THEN 1 ELSE 0
               next == off[k]
    <3>1. /\ m \in Nat \ {0} /\ f.closed \in BOOLEAN /\ at \in Nat
          /\ next \in Nat /\ next <= total
      BY <2>1 DEF BlockFacts
    <3>2. next = at + size
      BY <2>1 DEF BlockFacts
    <3>3. size = m + 1 + c
      BY <2>1 DEF BlockFacts
    <3>4. c \in Nat
      OBVIOUS
    <3> HIDE DEF m, at, size, c, next
    <3>5. next = at + m + 1 + c
      BY <3>1, <3>2, <3>3, <3>4
    <3> QED BY <3>1, <3>5 DEF c, next
  <2>3. BlockAt(ds, 7 + at, f, k)
    BY <2>1 DEF BlockFacts
  <2>4. f.format # "none"
    BY <1>5 DEF IsCamera
  <2>5. /\ IsFormatOf(ds[7 + at + 1], f, k)
        /\ \A j \in 1 .. m : IsFrameOf(ds[7 + at + 1 + j], f.frames[j], j)
        /\ f.closed => ds[7 + at + m + 2].kind = "class"
    BY <2>3 DEF BlockAt
  <2> HIDE DEF f, m, at
  <2>6. s[at + 1] = ds[7 + at + 1]
    <3>1. at + 1 \in 1 .. len /\ 7 + (at + 1) = 7 + at + 1
      BY <1>1, <1>2, <2>2
    <3> QED BY <1>3, <3>1
  <2>7. \A j \in 1 .. m : s[at + 1 + j] = ds[7 + at + 1 + j]
    <3> TAKE j \in 1 .. m
    <3>1. at + 1 + j \in 1 .. len /\ 7 + (at + 1 + j) = 7 + at + 1 + j
      BY <1>1, <1>2, <2>2
    <3> QED BY <1>3, <3>1
  <2>8. f.closed => s[off[k]] = ds[7 + at + m + 2]
    <3> HAVE f.closed
    <3>1. off[k] \in 1 .. len /\ 7 + off[k] = 7 + at + m + 2
      BY <1>1, <1>2, <2>2
    <3> QED BY <1>3, <3>1
  <2>9. /\ s[at + 1].kind = "format" /\ s[at + 1].format = f.format
        /\ s[at + 1].frames = m
    BY <2>5, <2>6 DEF IsFormatOf, m
  <2>10. \A j \in 1 .. m : s[at + 1 + j].kind = "frame" /\ s[at + 1 + j].res = f.frames[j].res
    BY <2>5, <2>7 DEF IsFrameOf
  <2>11. f.closed => s[off[k]].kind = "class"
    BY <2>5, <2>8
  <2>12. ReadsBlock(s, off, total, f, k)
    BY <2>2, <2>4, <2>9, <2>10, <2>11, Zenon DEF ReadsBlock, m, at
  <2> QED BY <2>12 DEF f
<1>8. ASSUME NEW p \in (total + 1) .. len PROVE s[p].kind = "interface"
  <2>1. p \in 1 .. len /\ p - total \in 1 .. rest /\ 7 + p = 7 + total + (p - total)
    BY <1>1, <1>2
  <2>2. IsSetting(ds[7 + total + (p - total)], p - total, cam.packets[p - total])
    BY <2>1 DEF Sent
  <2> QED BY <1>3, <2>1, <2>2 DEF IsSetting
<1>9. ASSUME NEW p \in 1 .. len, s[p].kind = "format" PROVE s[p].frames \in Nat
  <2>1. 7 + p \in 8 .. LastInside(ds, 7) /\ ds[7 + p].kind = "format" /\ s[p] = ds[7 + p]
    BY <1>1, <1>2, <1>3, <1>9 DEF last, len
  <2>2. PICK k \in 1 .. n : IsFormatOf(ds[7 + p], cam.formats[k], k)
    BY <2>1, FormatInside DEF ClassKinds
  <2>3. BlockFacts(ds, off, total, cam.formats[k], k)
    BY SentFacts
  <2>4. Len(cam.formats[k].frames) \in Nat
    BY <2>3 DEF BlockFacts
  <2> QED BY <2>1, <2>2, <2>4 DEF IsFormatOf
<1>10. Reads(s, cam, off, total)
  BY <1>1, <1>2, <1>3, <1>4, <1>5, <1>6, <1>7, <1>8, <1>9 DEF Reads, n
<1> QED BY <1>10 DEF s

(* The frames a camera has, by name. *)
EntryOf(cam, k, j) ==
  [format |-> cam.formats[k].format, res |-> cam.formats[k].frames[j].res]

LEMMA ListedIs ==
  ASSUME NEW f, f.frames \in Seq(FrameRecords)
  PROVE  /\ Len(Listed(f)) \in Nat /\ DOMAIN Listed(f) = 1 .. Len(Listed(f))
         /\ f.format = "unknown" => Len(Listed(f)) = 0
         /\ f.format # "unknown" => Len(Listed(f)) = Len(f.frames)
<1>1. CASE f.format = "unknown"
  <2>1. Listed(f) = <<>>
    BY <1>1 DEF Listed
  <2>2. <<>> \in Seq(FrameRecords) /\ Len(<<>>) = 0
    OBVIOUS
  <2> QED BY <1>1, <2>1, <2>2
<1>2. CASE f.format # "unknown"
  <2>1. Listed(f) = f.frames
    BY <1>2 DEF Listed
  <2> QED BY <1>2, <2>1
<1> QED BY <1>1, <1>2

NamesOf(flat, cam, at, k) ==
  /\ at[k - 1] \in Nat /\ at[k] \in Nat /\ at[k] <= Len(flat)
  /\ cam.formats[k].format = "unknown" => at[k] = at[k - 1]
  /\ cam.formats[k].format # "unknown" =>
        /\ at[k] = at[k - 1] + Len(cam.formats[k].frames)
        /\ \A j \in 1 .. Len(cam.formats[k].frames) : flat[at[k - 1] + j] = EntryOf(cam, k, j)

Named(flat, cam, at) ==
  /\ Len(flat) \in Nat /\ DOMAIN flat = 1 .. Len(flat)
  /\ flat = [i \in 1 .. Len(flat) |-> flat[i]]
  /\ at[0] = 0 /\ at[Len(cam.formats)] = Len(flat)
  /\ \A k \in 1 .. Len(cam.formats) : NamesOf(flat, cam, at, k)

LEMMA NamesLaid ==
  ASSUME NEW cam, IsCamera(cam)
  PROVE  \E at : Named(NamesIn(cam), cam, at)
<1> DEFINE n == Len(cam.formats)
           m(k) == Len(Listed(cam.formats[k]))
           EE == {EntryOf(cam, k, j) : k \in 1 .. n, j \in Nat}
           seqs == [k \in 1 .. n |-> [j \in 1 .. m(k) |-> EntryOf(cam, k, j)]]
           flat == NamesIn(cam)
<1>1. n \in Nat \ {0} /\ DOMAIN cam.formats = 1 .. n
      /\ \A k \in 1 .. n : m(k) \in Nat /\ DOMAIN Listed(cam.formats[k]) = 1 .. m(k)
  <2>1. n \in Nat \ {0} /\ DOMAIN cam.formats = 1 .. n
        /\ \A k \in 1 .. n : cam.formats[k] \in FormatRecords
    BY DEF IsCamera
  <2>2. \A k \in 1 .. n : cam.formats[k].frames \in Seq(FrameRecords)
    BY <2>1 DEF FormatRecords
  <2>3. \A k \in 1 .. n : m(k) \in Nat /\ DOMAIN Listed(cam.formats[k]) = 1 .. m(k)
    BY <2>2, ListedIs
  <2> QED BY <2>1, <2>3
<1>2. flat = FlattenSeq(seqs)
  <2>1. \A k \in 1 .. n : [j \in DOMAIN Listed(cam.formats[k]) |-> EntryOf(cam, k, j)] =
                          [j \in 1 .. m(k) |-> EntryOf(cam, k, j)]
    BY <1>1
  <2>2. [k \in DOMAIN cam.formats |->
            [j \in DOMAIN Listed(cam.formats[k]) |-> EntryOf(cam, k, j)]] = seqs
    BY <1>1, <2>1
  <2> HIDE DEF seqs, m, n
  <2> QED BY <2>2, Zenon DEF NamesIn, EntryOf
<1>3. \A k \in 1 .. n : [j \in 1 .. m(k) |-> EntryOf(cam, k, j)] \in Seq(EE)
  <2> TAKE k \in 1 .. n
  <2>1. \A j \in 1 .. m(k) : EntryOf(cam, k, j) \in EE /\ j \in Nat
    OBVIOUS
  <2>2. m(k) \in Nat
    BY <1>1
  <2> HIDE DEF EE, m
  <2> QED BY <2>1, <2>2
<1>4. seqs \in Seq(Seq(EE)) /\ Len(seqs) = n /\ seqs # <<>>
  <2> HIDE DEF EE
  <2> QED BY <1>1, <1>3
<1>5. \A k \in 1 .. n : Len(seqs[k]) = m(k) /\ \A j \in 1 .. m(k) : seqs[k][j] = EntryOf(cam, k, j)
  <2> TAKE k \in 1 .. n
  <2>1. seqs[k] = [j \in 1 .. m(k) |-> EntryOf(cam, k, j)] /\ m(k) \in Nat
    BY <1>1
  <2> HIDE DEF seqs, m
  <2> QED BY <2>1
<1> HIDE DEF seqs, m, n, EE, flat
<1>6. flat \in Seq(EE) /\ \E off : IsLaid(flat, seqs, off)
  BY <1>2, <1>4, Flattened
<1>7. PICK at : IsLaid(flat, seqs, at)
  BY <1>6
<1>8. /\ at \in [0 .. n -> Nat] /\ at[0] = 0 /\ Len(flat) = at[n]
      /\ \A k \in 1 .. n : at[k] = at[k - 1] + Len(seqs[k])
      /\ \A j, k \in 0 .. n : j <= k => at[j] <= at[k]
      /\ \A k \in 1 .. n : \A q \in 1 .. Len(seqs[k]) : flat[at[k - 1] + q] = seqs[k][q]
  BY <1>4, <1>7 DEF IsLaid
<1>9. ASSUME NEW k \in 1 .. n PROVE NamesOf(flat, cam, at, k)
  <2>1. k \in 0 .. n /\ k - 1 \in 0 .. n /\ n \in 0 .. n /\ k <= n
    BY <1>1
  <2>2. at[k - 1] \in Nat /\ at[k] \in Nat /\ at[k] <= Len(flat)
    BY <1>8, <2>1
  <2>3. at[k] = at[k - 1] + m(k)
    BY <1>5, <1>8
  <2>4. \A j \in 1 .. m(k) : flat[at[k - 1] + j] = EntryOf(cam, k, j)
    BY <1>5, <1>8
  <2>5. cam.formats[k].frames \in Seq(FrameRecords)
    <3>1. cam.formats \in Seq(FormatRecords) /\ k \in DOMAIN cam.formats
      BY <1>1 DEF IsCamera
    <3>2. cam.formats[k] \in FormatRecords
      BY <3>1
    <3> QED BY <3>2 DEF FormatRecords
  <2>6. /\ cam.formats[k].format = "unknown" => m(k) = 0
        /\ cam.formats[k].format # "unknown" => m(k) = Len(cam.formats[k].frames)
    BY <2>5, ListedIs DEF m
  <2> HIDE DEF m
  <2>7. cam.formats[k].format = "unknown" => at[k] = at[k - 1]
    BY <2>2, <2>3, <2>6
  <2>8. cam.formats[k].format # "unknown" =>
           /\ at[k] = at[k - 1] + Len(cam.formats[k].frames)
           /\ \A j \in 1 .. Len(cam.formats[k].frames) : flat[at[k - 1] + j] = EntryOf(cam, k, j)
    BY <2>3, <2>4, <2>6
  <2> QED BY <2>2, <2>7, <2>8 DEF NamesOf
<1>10. Len(flat) \in Nat /\ DOMAIN flat = 1 .. Len(flat) /\ flat = [i \in 1 .. Len(flat) |-> flat[i]]
  BY <1>6
<1>11. Named(flat, cam, at)
  BY <1>8, <1>9, <1>10 DEF Named, n
<1> QED BY <1>11 DEF flat

(* As many frames are counted as there are. *)
LEMMA CountIs ==
  ASSUME NEW cam, NEW s, NEW off, NEW total, Reads(s, cam, off, total),
         NEW flat, NEW at, Named(flat, cam, at)
  PROVE  CountFrames(s) = Len(flat)
<1> DEFINE n == Len(cam.formats)
           E == {s[p] : p \in DOMAIN s}
<1>1. /\ n \in Nat \ {0} /\ total \in Nat /\ Len(s) \in Nat /\ total <= Len(s)
      /\ s \in Seq(E) /\ DOMAIN s = 1 .. Len(s)
      /\ off[0] = 0 /\ off[n] = total /\ at[0] = 0 /\ at[n] = Len(flat)
      /\ \A p \in (total + 1) .. Len(s) : s[p].kind = "interface"
  BY DEF Reads, Named
<1>2. \A k \in 1 .. n : ReadsBlock(s, off, total, cam.formats[k], k) /\ NamesOf(flat, cam, at, k)
  BY DEF Reads, Named
<1> HIDE DEF E, n
<1>3. PICK w : /\ w \in [0 .. Len(s) -> Nat] /\ w[0] = 0
               /\ \A p \in 1 .. Len(s) :
                     w[p] = IF IsKnown(s[p]) THEN w[p - 1] + s[p].frames ELSE w[p - 1]
               /\ CountFrames(s) = w[Len(s)]
  <2>1. ASSUME NEW p \in 1 .. Len(s), IsKnown(s[p]) PROVE s[p].frames \in Nat
    BY <2>1 DEF Reads, IsKnown, IsFormat
  <2> QED BY <1>1, <2>1, CountWalks
<1> DEFINE G == {k \in 0 .. n : w[off[k]] = at[k]}
<1>4. 0 \in G
  BY <1>1, <1>3
<1>5. ASSUME NEW i \in 0 .. (n - 1), i \in G PROVE i + 1 \in G
  <2> DEFINE k == i + 1
             f == cam.formats[k]
             m == Len(f.frames)
             from == off[i]
  <2>1. k \in 1 .. n /\ k \in 0 .. n /\ k - 1 = i
    BY <1>1
  <2>2. ReadsBlock(s, off, total, f, k) /\ NamesOf(flat, cam, at, k)
    BY <1>2, <2>1
  <2>3. /\ m \in Nat \ {0}
        /\ from \in Nat /\ off[k] \in Nat /\ off[k] <= total
        /\ off[k] = from + m + 1 + (IF f.closed THEN 1 ELSE 0)
        /\ s[from + 1].kind = "format" /\ s[from + 1].format = f.format
        /\ s[from + 1].frames = m
        /\ \A j \in 1 .. m : s[from + 1 + j].kind = "frame"
        /\ f.closed => s[off[k]].kind = "class"
    BY <2>1, <2>2 DEF ReadsBlock
  <2>4. at[i] \in Nat /\ at[k] = IF f.format = "unknown" THEN at[i] ELSE at[i] + m
    BY <2>1, <2>2 DEF NamesOf
  <2>5. w[from] = at[i]
    BY <1>5
  <2> HIDE DEF k, f, m, from, G
  <2>6. w[from + 1] = at[k]
    <3>1. from + 1 \in 1 .. Len(s) /\ (from + 1) - 1 = from
      BY <1>1, <2>3
    <3>2. IsKnown(s[from + 1]) <=> f.format # "unknown"
      BY <2>3 DEF IsKnown, IsFormat, Parsed
    <3>3. w[from + 1] = IF f.format # "unknown" THEN w[from] + s[from + 1].frames ELSE w[from]
      BY <1>3, <3>1, <3>2
    <3> QED BY <2>3, <2>4, <2>5, <3>3
  <2>7. ASSUME NEW p \in (from + 2) .. off[k] PROVE w[p] = w[p - 1]
    <3>1. p \in 1 .. Len(s)
      BY <1>1, <2>3
    <3>2. s[p].kind # "format"
      <4>1. CASE p <= from + 1 + m
        <5>1. p - (from + 1) \in 1 .. m /\ from + 1 + (p - (from + 1)) = p
          BY <2>3, <4>1
        <5>2. s[p].kind = "frame"
          BY <2>3, <5>1
        <5> QED BY <5>2
      <4>2. CASE p > from + 1 + m
        <5>1. f.closed /\ p = off[k]
          BY <2>3, <4>2
        <5> QED BY <2>3, <5>1
      <4> QED BY <2>3, <4>1, <4>2
    <3>3. ~IsKnown(s[p])
      BY <3>2 DEF IsKnown, IsFormat
    <3> QED BY <1>3, <3>1, <3>3
  <2>8. w[off[k]] = at[k]
    <3>1. from + 1 \in Nat /\ off[k] \in (from + 1) .. off[k] /\ (from + 1) + 1 = from + 2
      BY <2>3
    <3>2. \A p \in ((from + 1) + 1) .. off[k] : w[p] = w[p - 1]
      BY <2>7, <3>1
    <3>3. \A p \in (from + 1) .. off[k] : w[p] = w[from + 1]
      <4> DEFINE a == from + 1
                 b == off[k]
      <4>1. a \in Nat /\ b \in Nat /\ \A p \in (a + 1) .. b : w[p] = w[p - 1]
        BY <2>3, <3>1, <3>2
      <4> HIDE DEF a, b
      <4>2. \A p \in a .. b : w[p] = w[a]
        BY <4>1, StandsStill
      <4> QED BY <4>2 DEF a, b
    <3> QED BY <2>6, <3>1, <3>3
  <2>9. k \in G
    BY <2>1, <2>8 DEF G
  <2> QED BY <2>9 DEF k
<1> HIDE DEF G
<1>6. 0 .. n \subseteq G
  BY <1>1, <1>4, <1>5, Upwards
<1>7. n \in G
  BY <1>1, <1>6
<1>8. w[total] = Len(flat)
  BY <1>1, <1>7 DEF G
<1>9. ASSUME NEW p \in (total + 1) .. Len(s) PROVE w[p] = w[p - 1]
  <2>1. p \in 1 .. Len(s) /\ ~IsKnown(s[p])
    BY <1>1 DEF IsKnown, IsFormat
  <2> QED BY <1>3, <2>1
<1>10. w[Len(s)] = w[total]
  <2>1. \A p \in total .. Len(s) : w[p] = w[total]
    <3> DEFINE b == Len(s)
    <3>1. total \in Nat /\ b \in Nat /\ \A p \in (total + 1) .. b : w[p] = w[p - 1]
      BY <1>1, <1>9
    <3> HIDE DEF b
    <3>2. \A p \in total .. b : w[p] = w[total]
      BY <3>1, StandsStill
    <3> QED BY <3>2 DEF b
  <2> QED BY <1>1, <2>1
<1> QED BY <1>3, <1>8, <1>10

(* What one descriptor does to the list. *)
IsListStep(st, d, size, next) ==
  /\ d.kind = "format" =>
        /\ next.list = st.list
        /\ next.format = IF st.format = "none" /\ d.format # "unknown" THEN d.format ELSE "none"
  /\ d.kind = "frame" =>
        IF st.format = "none" THEN next = st
        ELSE IF size # 0 /\ Len(st.list) > size - 1
             THEN next.list = st.list /\ next.format = "none"
             ELSE next.format = st.format
                  /\ next.list = Append(st.list, [format |-> st.format, res |-> d.res])
  /\ d.kind = "class" => next.list = st.list /\ next.format = "none"
  /\ d.kind = "interface" => next = st

LEMMA ListStepReads ==
  ASSUME NEW F, NEW L, NEW st \in [format : F, list : L], NEW d, NEW size
  PROVE  IsListStep(st, d, size, ListStep(st, d, size))
<1> DEFINE next == ListStep(st, d, size)
           x == Append(st.list, [format |-> st.format, res |-> d.res])
<1>1. next = IF d.kind \notin ClassKinds THEN st
             ELSE IF st.format = "none"
             THEN IF IsKnown(d) THEN [st EXCEPT !.format = d.format] ELSE st
             ELSE IF ~IsFrame(d) \/ (size # 0 /\ Len(st.list) > size - 1)
                  THEN [st EXCEPT !.format = "none"]
                  ELSE [st EXCEPT !.list = x]
  BY Zenon DEF ListStep, Parsed
<1>2. \A y : /\ [st EXCEPT !.format = y].format = y /\ [st EXCEPT !.format = y].list = st.list
             /\ [st EXCEPT !.list = y].list = y /\ [st EXCEPT !.list = y].format = st.format
  OBVIOUS
<1> HIDE DEF next, x
<1>3. d.kind = "interface" => next = st
  BY <1>1 DEF ClassKinds
<1>4. d.kind = "class" => next.list = st.list /\ next.format = "none"
  BY <1>1, <1>2 DEF ClassKinds, IsKnown, IsFormat, IsFrame
<1>5. d.kind = "format" =>
        /\ next.list = st.list
        /\ next.format = IF st.format = "none" /\ d.format # "unknown" THEN d.format ELSE "none"
  BY <1>1, <1>2 DEF ClassKinds, IsKnown, IsFormat, IsFrame, Parsed
<1>6. d.kind = "frame" =>
        IF st.format = "none" THEN next = st
        ELSE IF size # 0 /\ Len(st.list) > size - 1
             THEN next.list = st.list /\ next.format = "none"
             ELSE next.format = st.format /\ next.list = x
  BY <1>1, <1>2 DEF ClassKinds, IsKnown, IsFormat, IsFrame
<1>7. IsListStep(st, d, size, next)
  BY <1>3, <1>4, <1>5, <1>6 DEF IsListStep, x
<1> QED BY <1>7 DEF next

\* The walk of uvc_desc_get_frame_list over s.
IsListWalk(w, s, size) ==
  /\ w[0].format = "none" /\ w[0].list = <<>>
  /\ \A p \in 1 .. Len(s) : IsListStep(w[p - 1], s[p], size, w[p])
  /\ ListFrames(s, size) = w[Len(s)]

LEMMA ListWalkExists ==
  ASSUME NEW E, NEW s \in Seq(E), NEW size
  PROVE  \E w : IsListWalk(w, s, size)
<1>1. PICK w : /\ w \in [0 .. Len(s) -> ListStates(s)] /\ w[0] = Begun
               /\ \A k \in 1 .. Len(s) : w[k] = ListStep(w[k - 1], s[k], size)
               /\ ListFrames(s, size) = w[Len(s)]
  BY ListWalks
<1>2. ASSUME NEW p \in 1 .. Len(s) PROVE IsListStep(w[p - 1], s[p], size, w[p])
  <2>1. w[p - 1] \in ListStates(s)
    <3>1. p - 1 \in 0 .. Len(s)
      OBVIOUS
    <3> QED BY <1>1, <3>1
  <2>2. w[p] = ListStep(w[p - 1], s[p], size)
    BY <1>1
  <2> DEFINE v == w[p - 1]
  <2>3. v \in [format : FormatsOf(s), list : Seq(EntriesOf(s))]
    BY <2>1 DEF ListStates
  <2> HIDE DEF v
  <2>4. IsListStep(v, s[p], size, ListStep(v, s[p], size))
    BY <2>3, ListStepReads
  <2> QED BY <2>2, <2>4 DEF v
<1>3. w[0].format = "none" /\ w[0].list = <<>>
  BY <1>1 DEF Begun
<1>4. IsListWalk(w, s, size)
  BY <1>1, <1>2, <1>3 DEF IsListWalk
<1> QED BY <1>4

\* What the walk has behind the last format it was sent.
LEMMA TailUnlisted ==
  ASSUME NEW cam, NEW s, NEW off, NEW total, Reads(s, cam, off, total),
         NEW size, NEW w, IsListWalk(w, s, size)
  PROVE  ListFrames(s, size) = w[off[Len(cam.formats)]]
<1>1. /\ total \in Nat /\ Len(s) \in Nat /\ total <= Len(s) /\ off[Len(cam.formats)] = total
      /\ \A p \in (total + 1) .. Len(s) : s[p].kind = "interface"
  BY DEF Reads
<1>2. ListFrames(s, size) = w[Len(s)]
  BY DEF IsListWalk
<1> DEFINE b == Len(s)
<1>3. total \in Nat /\ b \in Nat /\ \A p \in (total + 1) .. b : w[p] = w[p - 1]
  <2>1. ASSUME NEW p \in (total + 1) .. b PROVE w[p] = w[p - 1]
    <3>1. IsListStep(w[p - 1], s[p], size, w[p]) /\ s[p].kind = "interface"
      BY <1>1 DEF IsListWalk
    <3> QED BY <3>1 DEF IsListStep
  <2> QED BY <1>1, <2>1
<1>4. b \in total .. b
  BY <1>1
<1> HIDE DEF b
<1>5. \A p \in total .. b : w[p] = w[total]
  BY <1>3, StandsStill
<1>6. w[b] = w[total]
  BY <1>4, <1>5
<1> QED BY <1>1, <1>2, <1>6 DEF b

\* One block, as the walk meets it.
BlockOf(s, w, from, next, f, size) ==
  /\ Len(f.frames) \in Nat /\ from \in Nat
  /\ next = from + 1 + Len(f.frames) + (IF f.closed THEN 1 ELSE 0)
  /\ f.format # "none"
  /\ w[from + 1].list = w[from].list
  /\ w[from + 1].format = IF w[from].format = "none" /\ f.format # "unknown"
                          THEN f.format ELSE "none"
  /\ \A j \in 1 .. Len(f.frames) :
        IF w[from + 1 + (j - 1)].format = "none"
        THEN w[from + 1 + j] = w[from + 1 + (j - 1)]
        ELSE IF size # 0 /\ Len(w[from + 1 + (j - 1)].list) > size - 1
        THEN /\ w[from + 1 + j].list = w[from + 1 + (j - 1)].list
             /\ w[from + 1 + j].format = "none"
        ELSE /\ w[from + 1 + j].format = w[from + 1 + (j - 1)].format
             /\ w[from + 1 + j].list =
                   Append(w[from + 1 + (j - 1)].list,
                          [format |-> w[from + 1 + (j - 1)].format, res |-> f.frames[j].res])
  /\ f.closed => /\ w[next].list = w[from + 1 + Len(f.frames)].list
                 /\ w[next].format = "none"

LEMMA BlockWalked ==
  ASSUME NEW cam, NEW s, NEW off, NEW total, Reads(s, cam, off, total),
         NEW size, NEW w, IsListWalk(w, s, size), NEW k \in 1 .. Len(cam.formats)
  PROVE  BlockOf(s, w, off[k - 1], off[k], cam.formats[k], size)
<1> DEFINE f == cam.formats[k]
           m == Len(f.frames)
           from == off[k - 1]
           next == off[k]
<1>1. /\ Len(s) \in Nat /\ total \in Nat /\ total <= Len(s)
      /\ ReadsBlock(s, off, total, cam.formats[k], k)
  BY DEF Reads
<1>2. \A p \in 1 .. Len(s) : IsListStep(w[p - 1], s[p], size, w[p])
  BY DEF IsListWalk
<1>3. /\ m \in Nat \ {0} /\ f.format # "none"
      /\ from \in Nat /\ next \in Nat /\ next <= total
      /\ next = from + m + 1 + (IF f.closed THEN 1 ELSE 0)
      /\ s[from + 1].kind = "format" /\ s[from + 1].format = f.format
      /\ \A j \in 1 .. m : s[from + 1 + j].kind = "frame" /\ s[from + 1 + j].res = f.frames[j].res
      /\ f.closed => s[next].kind = "class"
  BY <1>1 DEF ReadsBlock
<1> HIDE DEF f, m, from, next
<1>3a. from \in Nat /\ m \in Nat \ {0} /\ from + 1 + m <= Len(s) /\ Len(s) \in Nat
  <2> DEFINE c == IF f.closed THEN 1 ELSE 0
             l == Len(s)
  <2>1. c \in Nat /\ next = from + m + 1 + c /\ next <= total /\ total <= l /\ l \in Nat
    BY <1>1, <1>3
  <2>2. from \in Nat /\ m \in Nat \ {0} /\ next \in Nat /\ total \in Nat
    BY <1>1, <1>3
  <2> HIDE DEF c, l
  <2>3. from + 1 + m <= l
    BY <2>1, <2>2
  <2> QED BY <2>1, <2>2, <2>3 DEF l
<1>4. /\ w[from + 1].list = w[from].list
      /\ w[from + 1].format = IF w[from].format = "none" /\ f.format # "unknown"
                              THEN f.format ELSE "none"
  <2>1. from + 1 \in 1 .. Len(s) /\ (from + 1) - 1 = from
    BY <1>3a
  <2>2. IsListStep(w[from], s[from + 1], size, w[from + 1])
    BY <1>2, <2>1
  <2>3. s[from + 1].kind = "format" /\ s[from + 1].format = f.format
    BY <1>3
  <2> QED BY <2>2, <2>3 DEF IsListStep
<1>5. ASSUME NEW j \in 1 .. m
      PROVE  IF w[from + 1 + (j - 1)].format = "none"
             THEN w[from + 1 + j] = w[from + 1 + (j - 1)]
             ELSE IF size # 0 /\ Len(w[from + 1 + (j - 1)].list) > size - 1
             THEN /\ w[from + 1 + j].list = w[from + 1 + (j - 1)].list
                  /\ w[from + 1 + j].format = "none"
             ELSE /\ w[from + 1 + j].format = w[from + 1 + (j - 1)].format
                  /\ w[from + 1 + j].list =
                        Append(w[from + 1 + (j - 1)].list,
                               [format |-> w[from + 1 + (j - 1)].format, res |-> f.frames[j].res])
  <2> DEFINE p == from + 1 + j
             before == from + 1 + (j - 1)
  <2>1. p \in 1 .. Len(s) /\ p - 1 = before
    BY <1>3a
  <2>2. s[p].kind = "frame" /\ s[p].res = f.frames[j].res
    BY <1>3
  <2> HIDE DEF p, before
  <2>3. IsListStep(w[before], s[p], size, w[p])
    BY <1>2, <2>1
  <2>4. IF w[before].format = "none" THEN w[p] = w[before]
        ELSE IF size # 0 /\ Len(w[before].list) > size - 1
        THEN w[p].list = w[before].list /\ w[p].format = "none"
        ELSE /\ w[p].format = w[before].format
             /\ w[p].list = Append(w[before].list,
                                   [format |-> w[before].format, res |-> f.frames[j].res])
    BY <2>2, <2>3 DEF IsListStep
  <2> QED BY <2>4 DEF p, before
<1>6. ASSUME f.closed PROVE w[next].list = w[from + 1 + m].list /\ w[next].format = "none"
  <2>1. next \in 1 .. Len(s) /\ next - 1 = from + 1 + m /\ s[next].kind = "class"
    BY <1>1, <1>3, <1>6
  <2>2. IsListStep(w[next - 1], s[next], size, w[next])
    BY <1>2, <2>1
  <2> QED BY <2>1, <2>2 DEF IsListStep
<1>7. next = from + 1 + m + (IF f.closed THEN 1 ELSE 0) /\ f.format # "none" /\ m \in Nat /\ from \in Nat
  BY <1>3
<1>8. BlockOf(s, w, from, next, f, size)
  BY <1>4, <1>5, <1>6, <1>7, Zenon DEF BlockOf, m
<1> QED BY <1>8 DEF from, next, f

(* Only frames the camera has are listed, and no more than there is room for. *)
Fair(st, names, room) == st.list \in Seq(names) /\ Len(st.list) <= room

LEMMA ListIsFair ==
  ASSUME NEW cam, NEW s, NEW off, NEW total, Reads(s, cam, off, total),
         NEW flat, NEW at, Named(flat, cam, at)
  PROVE  Fair(ListFrames(s, Len(flat)), ToSet(flat), Len(flat))
<1> DEFINE n == Len(cam.formats)
           room == Len(flat)
           names == ToSet(flat)
           E == {s[p] : p \in DOMAIN s}
<1>1. n \in Nat \ {0} /\ off[0] = 0 /\ s \in Seq(E)
  BY DEF Reads
<1>2. room \in Nat /\ DOMAIN flat = 1 .. room
  BY DEF Named
<1>3. \A k \in 1 .. n : NamesOf(flat, cam, at, k) /\ ReadsBlock(s, off, total, cam.formats[k], k)
  BY DEF Named, Reads
<1>4. PICK w : IsListWalk(w, s, room)
  <2> HIDE DEF E, room
  <2> QED BY <1>1, ListWalkExists
<1>5. \A k \in 1 .. n : BlockOf(s, w, off[k - 1], off[k], cam.formats[k], room)
  <2> HIDE DEF room
  <2> QED BY <1>4, BlockWalked
<1>6. ListFrames(s, room) = w[off[n]]
  <2> HIDE DEF room
  <2> QED BY <1>4, TailUnlisted
<1> HIDE DEF room, names, E, n
<1> DEFINE G == {k \in 0 .. n : Fair(w[off[k]], names, room)}
<1>7. 0 \in G
  <2>1. w[0].list = <<>>
    BY <1>4 DEF IsListWalk
  <2>2. <<>> \in Seq(names) /\ Len(<<>>) = 0
    OBVIOUS
  <2>3. Fair(w[0], names, room)
    BY <1>2, <2>1, <2>2 DEF Fair
  <2> QED BY <1>1, <2>3
<1>8. ASSUME NEW i \in 0 .. (n - 1), i \in G PROVE i + 1 \in G
  <2> DEFINE k == i + 1
             f == cam.formats[k]
             m == Len(f.frames)
             from == off[i]
             next == off[k]
  <2>1. k \in 1 .. n /\ k \in 0 .. n /\ k - 1 = i
    BY <1>1
  <2>2. BlockOf(s, w, from, next, f, room) /\ NamesOf(flat, cam, at, k) /\ Fair(w[from], names, room)
    BY <1>3, <1>5, <1>8, <2>1
  <2>3. ASSUME f.format # "unknown"
        PROVE  \A j \in 1 .. m : [format |-> f.format, res |-> f.frames[j].res] \in names
    <3>1. /\ at[i] \in Nat /\ at[k] \in Nat /\ at[k] <= room /\ at[k] = at[i] + m /\ m \in Nat
          /\ \A j \in 1 .. m : flat[at[i] + j] = EntryOf(cam, k, j)
      BY <2>1, <2>2, <2>3 DEF NamesOf, BlockOf, room
    <3> SUFFICES ASSUME NEW j \in 1 .. m PROVE EntryOf(cam, k, j) \in names
      BY DEF EntryOf
    <3> HIDE DEF k, m
    <3>2. at[i] + j \in 1 .. room
      BY <1>2, <3>1
    <3>3. flat[at[i] + j] \in names
      BY <1>2, <3>2 DEF names, ToSet
    <3> QED BY <3>1, <3>3
  <2>4. /\ m \in Nat /\ from \in Nat /\ next = from + 1 + m + (IF f.closed THEN 1 ELSE 0)
        /\ f.format # "none"
        /\ w[from + 1].list = w[from].list
        /\ w[from + 1].format = IF w[from].format = "none" /\ f.format # "unknown"
                                THEN f.format ELSE "none"
        /\ f.closed => w[next].list = w[from + 1 + m].list
    BY <2>2 DEF BlockOf
  <2>5. \A j \in 1 .. m :
           IF w[from + 1 + (j - 1)].format = "none"
           THEN w[from + 1 + j] = w[from + 1 + (j - 1)]
           ELSE IF room # 0 /\ Len(w[from + 1 + (j - 1)].list) > room - 1
           THEN /\ w[from + 1 + j].list = w[from + 1 + (j - 1)].list
                /\ w[from + 1 + j].format = "none"
           ELSE /\ w[from + 1 + j].format = w[from + 1 + (j - 1)].format
                /\ w[from + 1 + j].list =
                      Append(w[from + 1 + (j - 1)].list,
                             [format |-> w[from + 1 + (j - 1)].format, res |-> f.frames[j].res])
    BY <2>2 DEF BlockOf
  <2>6. ASSUME f.format # "unknown" PROVE room # 0 \/ m = 0
    <3>1. /\ at[i] \in Nat /\ at[k] \in Nat /\ at[k] <= room /\ at[k] = at[i] + m
      BY <2>1, <2>2, <2>6 DEF NamesOf, room
    <3> HIDE DEF k, m
    <3> QED BY <1>2, <2>4, <3>1
  <2> HIDE DEF k, f, m, from, next, G
  <2> DEFINE open == IF f.format = "unknown" THEN "none" ELSE f.format
             H == {j \in 0 .. m : /\ Fair(w[from + 1 + j], names, room)
                                  /\ w[from + 1 + j].format \in {"none", open}}
  <2>7. 0 \in H
    <3>1. from + 1 + 0 = from + 1 /\ 0 \in 0 .. m
      BY <2>4
    <3>2. Fair(w[from + 1], names, room) /\ w[from + 1].format \in {"none", open}
      BY <2>2, <2>4 DEF Fair
    <3> QED BY <3>1, <3>2
  <2>8. ASSUME NEW j \in 0 .. (m - 1), j \in H PROVE j + 1 \in H
    <3> DEFINE a == w[from + 1 + j]
               b == w[from + 1 + (j + 1)]
               e == [format |-> a.format, res |-> f.frames[j + 1].res]
    <3>1. j + 1 \in 1 .. m /\ j + 1 \in 0 .. m /\ (j + 1) - 1 = j
      BY <2>4
    <3>2. IF a.format = "none" THEN b = a
          ELSE IF room # 0 /\ Len(a.list) > room - 1 THEN b.list = a.list /\ b.format = "none"
          ELSE b.format = a.format /\ b.list = Append(a.list, e)
      BY <2>5, <3>1
    <3>3. a.list \in Seq(names) /\ Len(a.list) <= room /\ a.format \in {"none", open}
      BY <2>8 DEF Fair
    <3>3a. a.format # "none" => f.format # "unknown" /\ a.format = f.format
      BY <3>3
    <3>4. a.format # "none" => e \in names
      BY <2>3, <3>1, <3>3a
    <3>5. a.format # "none" => room # 0
      BY <2>4, <2>6, <3>1, <3>3a
    <3> HIDE DEF a, b, e, open
    <3>6. CASE a.format = "none"
      <4>1. Fair(b, names, room) /\ b.format \in {"none", open}
        BY <3>2, <3>3, <3>6 DEF Fair
      <4> QED BY <3>1, <4>1 DEF b
    <3>7. CASE a.format # "none" /\ Len(a.list) > room - 1
      <4>1. Fair(b, names, room) /\ b.format \in {"none", open}
        BY <3>2, <3>3, <3>5, <3>7 DEF Fair
      <4> QED BY <3>1, <4>1 DEF b
    <3>8. CASE a.format # "none" /\ ~(Len(a.list) > room - 1)
      <4>1. b.format = a.format /\ b.list = Append(a.list, e) /\ e \in names
        BY <3>2, <3>4, <3>8
      <4>2. b.list \in Seq(names) /\ Len(b.list) = Len(a.list) + 1 /\ Len(a.list) \in Nat
        BY <3>3, <4>1
      <4>3. Len(b.list) <= room
        BY <1>2, <3>8, <4>2
      <4>4. Fair(b, names, room) /\ b.format \in {"none", open}
        BY <3>3, <4>1, <4>2, <4>3 DEF Fair
      <4> QED BY <3>1, <4>4 DEF b
    <3> QED BY <3>6, <3>7, <3>8
  <2> HIDE DEF H
  <2>9. 0 .. m \subseteq H
    BY <2>4, <2>7, <2>8, Upwards
  <2>10. m \in H
    BY <2>4, <2>9
  <2>11. Fair(w[from + 1 + m], names, room)
    BY <2>10 DEF H
  <2>12. Fair(w[next], names, room)
    <3>1. CASE f.closed
      BY <2>4, <2>11, <3>1 DEF Fair
    <3>2. CASE ~f.closed
      <4>1. next = from + 1 + m
        BY <2>4, <3>2
      <4> QED BY <2>11, <4>1
    <3> QED BY <3>1, <3>2
  <2>13. k \in G
    BY <2>1, <2>12 DEF G, next
  <2> QED BY <2>13 DEF k
<1> HIDE DEF G
<1>9. 0 .. n \subseteq G
  BY <1>1, <1>7, <1>8, Upwards
<1>10. n \in G
  BY <1>1, <1>9
<1>11. Fair(w[off[n]], names, room)
  BY <1>10 DEF G
<1> QED BY <1>6, <1>11 DEF names, room

(* All of them are listed when every block of frames is closed. *)
SameSoFar(st, flat, x) ==
  /\ st.list \in Seq(ToSet(flat)) /\ Len(st.list) = x
  /\ \A i \in 1 .. x : st.list[i] = flat[i]

\* A block of frames the driver does not know adds nothing.
LEMMA UnknownSkipped ==
  ASSUME NEW s, NEW w, NEW from, NEW next, NEW f, NEW size, f.closed \in BOOLEAN,
         BlockOf(s, w, from, next, f, size), f.format = "unknown"
  PROVE  w[next].list = w[from].list /\ w[next].format = "none"
<1> DEFINE m == Len(f.frames)
<1>1. /\ m \in Nat /\ from \in Nat /\ next = from + 1 + m + (IF f.closed THEN 1 ELSE 0)
      /\ w[from + 1].list = w[from].list /\ w[from + 1].format = "none"
      /\ \A j \in 1 .. m : w[from + 1 + (j - 1)].format = "none" =>
                           w[from + 1 + j] = w[from + 1 + (j - 1)]
      /\ f.closed => w[next].list = w[from + 1 + m].list /\ w[next].format = "none"
  BY DEF BlockOf
<1> HIDE DEF m
<1> DEFINE H == {j \in 0 .. m : w[from + 1 + j] = w[from + 1]}
<1>2. 0 \in H
  BY <1>1
<1>3. ASSUME NEW j \in 0 .. (m - 1), j \in H PROVE j + 1 \in H
  <2>1. j + 1 \in 1 .. m /\ j + 1 \in 0 .. m /\ (j + 1) - 1 = j
    BY <1>1
  <2>2. w[from + 1 + j] = w[from + 1]
    BY <1>3
  <2>3. w[from + 1 + (j + 1)] = w[from + 1]
    BY <1>1, <2>1, <2>2
  <2> QED BY <2>1, <2>3
<1> HIDE DEF H
<1>4. 0 .. m \subseteq H
  BY <1>1, <1>2, <1>3, Upwards
<1>5. m \in H
  BY <1>1, <1>4
<1>6. w[from + 1 + m] = w[from + 1]
  BY <1>5 DEF H
<1>7. CASE f.closed
  BY <1>1, <1>6, <1>7
<1>8. CASE ~f.closed
  <2>1. next = from + 1 + m
    BY <1>1, <1>8
  <2> QED BY <1>1, <1>6, <2>1
<1> QED BY <1>7, <1>8

LEMMA ListIsWhole ==
  ASSUME NEW cam, NEW s, NEW off, NEW total, Reads(s, cam, off, total),
         NEW flat, NEW at, Named(flat, cam, at),
         \A k \in DOMAIN cam.formats : cam.formats[k].format = "unknown" \/ cam.formats[k].closed
  PROVE  ListFrames(s, Len(flat)).list = flat
<1> DEFINE n == Len(cam.formats)
           room == Len(flat)
           E == {s[p] : p \in DOMAIN s}
<1>1. /\ n \in Nat \ {0} /\ off[0] = 0 /\ s \in Seq(E)
      /\ \A k \in 1 .. n : cam.formats[k].format = "unknown" \/ cam.formats[k].closed
      /\ \A k \in 1 .. n : cam.formats[k].closed \in BOOLEAN
  BY DEF Reads, ReadsBlock
<1>2. /\ room \in Nat /\ DOMAIN flat = 1 .. room /\ at[0] = 0 /\ at[n] = room
      /\ flat = [i \in 1 .. room |-> flat[i]]
  BY DEF Named
<1>3. \A k \in 1 .. n : NamesOf(flat, cam, at, k)
  BY DEF Named
<1>4. PICK w : IsListWalk(w, s, room)
  <2> HIDE DEF E, room
  <2> QED BY <1>1, ListWalkExists
<1>5. \A k \in 1 .. n : BlockOf(s, w, off[k - 1], off[k], cam.formats[k], room)
  <2> HIDE DEF room
  <2> QED BY <1>4, BlockWalked
<1>6. ListFrames(s, room) = w[off[n]]
  <2> HIDE DEF room
  <2> QED BY <1>4, TailUnlisted
<1> HIDE DEF room, E, n
<1> DEFINE G == {k \in 0 .. n : w[off[k]].format = "none" /\ SameSoFar(w[off[k]], flat, at[k])}
<1>7. 0 \in G
  <2>1. w[0].list = <<>> /\ w[0].format = "none"
    BY <1>4 DEF IsListWalk
  <2>2. <<>> \in Seq(ToSet(flat)) /\ Len(<<>>) = 0 /\ 1 .. 0 = {}
    OBVIOUS
  <2>3. SameSoFar(w[0], flat, 0)
    BY <2>1, <2>2 DEF SameSoFar
  <2> QED BY <1>1, <1>2, <2>1, <2>3
<1>8. ASSUME NEW i \in 0 .. (n - 1), i \in G PROVE i + 1 \in G
  <2> DEFINE k == i + 1
             f == cam.formats[k]
             m == Len(f.frames)
             from == off[i]
             next == off[k]
             base == at[i]
  <2>1. k \in 1 .. n /\ k \in 0 .. n /\ k - 1 = i
    BY <1>1
  <2>2. /\ BlockOf(s, w, from, next, f, room) /\ NamesOf(flat, cam, at, k)
        /\ w[from].format = "none" /\ SameSoFar(w[from], flat, base)
        /\ f.closed \in BOOLEAN /\ (f.format = "unknown" \/ f.closed)
    BY <1>1, <1>3, <1>5, <1>8, <2>1
  <2>u. ASSUME f.format = "unknown" PROVE k \in G
    <3>1. w[next].list = w[from].list /\ w[next].format = "none"
      <4> HIDE DEF f, from, next, room
      <4> QED BY <2>2, <2>u, UnknownSkipped
    <3>2. at[k] = base
      BY <2>1, <2>2, <2>u DEF NamesOf
    <3>3. SameSoFar(w[next], flat, base)
      BY <2>2, <3>1 DEF SameSoFar
    <3> HIDE DEF SameSoFar
    <3> QED BY <2>1, <3>1, <3>2, <3>3
  <2> SUFFICES ASSUME f.format # "unknown" PROVE k \in G
    BY <2>u DEF k
  <2>3. /\ base \in Nat /\ base + m <= room /\ at[k] = base + m
        /\ \A j \in 1 .. m : flat[base + j] = [format |-> f.format, res |-> f.frames[j].res]
    <3>1. /\ at[i] \in Nat /\ at[k] <= room /\ at[k] = at[i] + m
          /\ \A j \in 1 .. m : flat[at[i] + j] = EntryOf(cam, k, j)
      BY <2>1, <2>2 DEF NamesOf, room
    <3>2. \A j \in 1 .. m : EntryOf(cam, k, j) = [format |-> f.format, res |-> f.frames[j].res]
      BY DEF EntryOf
    <3> QED BY <3>1, <3>2
  <2>4. /\ m \in Nat /\ from \in Nat
        /\ f.format # "none"
        /\ w[from + 1].list = w[from].list
        /\ w[from + 1].format = f.format
        /\ w[next].list = w[from + 1 + m].list /\ w[next].format = "none"
    BY <2>2 DEF BlockOf
  <2>5. \A j \in 1 .. m :
           IF w[from + 1 + (j - 1)].format = "none"
           THEN w[from + 1 + j] = w[from + 1 + (j - 1)]
           ELSE IF room # 0 /\ Len(w[from + 1 + (j - 1)].list) > room - 1
           THEN /\ w[from + 1 + j].list = w[from + 1 + (j - 1)].list
                /\ w[from + 1 + j].format = "none"
           ELSE /\ w[from + 1 + j].format = w[from + 1 + (j - 1)].format
                /\ w[from + 1 + j].list =
                      Append(w[from + 1 + (j - 1)].list,
                             [format |-> w[from + 1 + (j - 1)].format, res |-> f.frames[j].res])
    BY <2>2 DEF BlockOf
  <2> HIDE DEF k, f, m, from, next, base, G
  <2> DEFINE H == {j \in 0 .. m : /\ w[from + 1 + j].format = f.format
                                  /\ SameSoFar(w[from + 1 + j], flat, base + j)}
  <2>6. 0 \in H
    <3>1. from + 1 + 0 = from + 1 /\ 0 \in 0 .. m /\ base + 0 = base
      BY <2>3, <2>4
    <3>2. SameSoFar(w[from + 1], flat, base) /\ w[from + 1].format = f.format
      BY <2>2, <2>4 DEF SameSoFar
    <3> QED BY <3>1, <3>2
  <2>7. ASSUME NEW j \in 0 .. (m - 1), j \in H PROVE j + 1 \in H
    <3> DEFINE a == w[from + 1 + j]
               b == w[from + 1 + (j + 1)]
               e == [format |-> a.format, res |-> f.frames[j + 1].res]
               x == base + j
               y == base + (j + 1)
    <3>1. j + 1 \in 1 .. m /\ j + 1 \in 0 .. m /\ (j + 1) - 1 = j
          /\ x \in Nat /\ y = x + 1 /\ y <= room
      <4>1. base \in Nat /\ base + m <= room /\ room \in Nat /\ m \in Nat
        BY <1>2, <2>3, <2>4
      <4> QED BY <4>1
    <3>2. IF a.format = "none" THEN b = a
          ELSE IF room # 0 /\ Len(a.list) > room - 1 THEN b.list = a.list /\ b.format = "none"
          ELSE b.format = a.format /\ b.list = Append(a.list, e)
      BY <2>5, <3>1
    <3>3. /\ a.list \in Seq(ToSet(flat)) /\ Len(a.list) = x /\ a.format = f.format
          /\ \A q \in 1 .. x : a.list[q] = flat[q]
      BY <2>7 DEF SameSoFar
    <3>4. e = flat[y]
      BY <2>3, <3>1, <3>3
    <3>5. flat[y] \in ToSet(flat)
      <4>1. y \in 1 .. room
        BY <1>2, <3>1
      <4> QED BY <1>2, <4>1 DEF ToSet
    <3> HIDE DEF a, b, e, x, y
    <3>6. b.format = f.format /\ b.list = Append(a.list, e)
      <4>1. ~(Len(a.list) > room - 1)
        BY <1>2, <3>1, <3>3
      <4> QED BY <2>4, <3>2, <3>3, <4>1
    <3>7. /\ b.list \in Seq(ToSet(flat)) /\ Len(b.list) = y
          /\ \A q \in 1 .. x : b.list[q] = a.list[q]
          /\ b.list[y] = e
      BY <3>1, <3>3, <3>4, <3>5, <3>6
    <3>8. \A q \in 1 .. y : b.list[q] = flat[q]
      <4> TAKE q \in 1 .. y
      <4>1. q \in 1 .. x \/ q = y
        BY <3>1
      <4> QED BY <3>3, <3>4, <3>7, <4>1
    <3>9. SameSoFar(b, flat, y)
      BY <3>7, <3>8 DEF SameSoFar
    <3> QED BY <3>1, <3>6, <3>9 DEF b, y
  <2> HIDE DEF H
  <2>8. 0 .. m \subseteq H
    BY <2>4, <2>6, <2>7, Upwards
  <2>9. m \in H
    BY <2>4, <2>8
  <2>10. SameSoFar(w[from + 1 + m], flat, base + m)
    BY <2>9 DEF H
  <2>11. SameSoFar(w[next], flat, at[k])
    BY <2>3, <2>4, <2>10 DEF SameSoFar
  <2>12. k \in G
    BY <2>1, <2>4, <2>11 DEF G, next
  <2> QED BY <2>12
<1> HIDE DEF G
<1>9. 0 .. n \subseteq G
  BY <1>1, <1>7, <1>8, Upwards
<1>10. n \in G
  BY <1>1, <1>9
<1>11. SameSoFar(w[off[n]], flat, room)
  BY <1>2, <1>10 DEF G
<1> DEFINE list == w[off[n]].list
<1>12. list \in Seq(ToSet(flat)) /\ Len(list) = room /\ \A i \in 1 .. room : list[i] = flat[i]
  BY <1>11 DEF SameSoFar
<1> HIDE DEF list
<1>13. list = [i \in 1 .. room |-> list[i]]
  BY <1>12
<1>14. list = flat
  BY <1>2, <1>12, <1>13
<1> QED BY <1>6, <1>14 DEF list, room

LEMMA ListsAlways ==
  ASSUME NEW cam, IsCamera(cam), NEW ds, NEW off, NEW total, NEW rest,
         Sent(ds, cam, off, total, rest)
  PROVE  ListsWhatIsThere(cam, ds)
<1> DEFINE s == Inside(ds, 7)
           flat == NamesIn(cam)
           size == Len(flat)
<1>1. /\ InputHeader(ds, 2) = 7 /\ ControlHeader(ds, 0) = 5 /\ ds[5].inside = <<2>>
  BY HeadersAt
<1>2. ds[5].inside # <<>> /\ ds[5].inside[1] = 2
  BY <1>1
<1>3. FrameCount(ds, 0) = CountFrames(s)
  <2> DEFINE vc == ControlHeader(ds, 0)
             head == InputHeader(ds, ds[vc].inside[1])
  <2>1. FrameCount(ds, 0) = IF vc = 0 \/ ds[vc].inside = <<>> \/ head = 0 THEN -1
                            ELSE CountFrames(Inside(ds, head))
    BY Zenon DEF FrameCount
  <2>2. vc = 5 /\ head = 7
    BY <1>1, <1>2
  <2> HIDE DEF vc, head
  <2> QED BY <1>2, <2>1, <2>2
<1>4. FrameList(ds, 0, size) = ListFrames(s, size).list
  <2> DEFINE vc == ControlHeader(ds, 0)
             head == InputHeader(ds, ds[vc].inside[1])
  <2>1. FrameList(ds, 0, size) = IF vc = 0 \/ ds[vc].inside = <<>> \/ head = 0 THEN <<>>
                                 ELSE ListFrames(Inside(ds, head), size).list
    BY Zenon DEF FrameList
  <2>2. vc = 5 /\ head = 7
    BY <1>1, <1>2
  <2> HIDE DEF vc, head, size
  <2> QED BY <1>2, <2>1, <2>2
<1> HIDE DEF s, flat
<1>5. Reads(s, cam, off, total)
  BY InsideReads DEF s
<1>6. PICK at : Named(flat, cam, at)
  BY NamesLaid DEF flat
<1>7. CountFrames(s) = size /\ size \in Nat
  BY <1>5, <1>6, CountIs DEF Named
<1>8. Fair(ListFrames(s, size), ToSet(flat), size)
  BY <1>5, <1>6, ListIsFair
<1>9. (\A k \in DOMAIN cam.formats : cam.formats[k].format = "unknown" \/ cam.formats[k].closed)
         => ListFrames(s, size).list = flat
  BY <1>5, <1>6, ListIsWhole
<1> DEFINE list == FrameList(ds, 0, FrameCount(ds, 0))
<1>10. list = ListFrames(s, size).list
  BY <1>3, <1>4, <1>7
<1>11. ToSet(list) \subseteq ToSet(flat) /\ Len(list) <= size
  <2>1. list \in Seq(ToSet(flat)) /\ Len(list) <= size
    BY <1>8, <1>10 DEF Fair
  <2> HIDE DEF list, size
  <2>2. ToSet(list) \subseteq ToSet(flat)
    <3>1. DOMAIN list = 1 .. Len(list) /\ \A i \in 1 .. Len(list) : list[i] \in ToSet(flat)
      BY <2>1
    <3>2. ToSet(list) = {list[i] : i \in 1 .. Len(list)}
      BY <3>1, Zenon DEF ToSet
    <3> QED BY <3>1, <3>2
  <2> QED BY <2>1, <2>2
<1>12. Connected(ds) = <<size>>
  <2> DEFINE functions == {i \in DOMAIN ds : ds[i].kind = "interface" /\ ds[i].video
                                             /\ ~ds[i].streaming}
  <2>1. functions = {4}
    <3>1. /\ total \in Nat /\ rest \in Nat /\ DOMAIN ds = 1 .. (7 + total + rest)
          /\ IsFront(ds, cam, total)
      BY DEF Sent
    <3>2. 4 \in functions
      BY <3>1 DEF IsFront
    <3>3. ASSUME NEW i \in functions PROVE i = 4
      <4>1. i \in DOMAIN ds /\ ds[i].kind = "interface" /\ ds[i].video /\ ~ds[i].streaming
        OBVIOUS
      <4>2. i \in {1, 2, 3, 4, 5, 6, 7}
        BY <4>1, Places DEF IsSetting
      <4> QED BY <3>1, <4>1, <4>2 DEF IsFront, IsSetting
    <3> QED BY <3>2, <3>3
  <2>2. Connected(ds) = [k \in 1 .. Cardinality(functions) |-> FrameCount(ds, k - 1)]
    BY Zenon DEF Connected
  <2> HIDE DEF functions, size
  <2>3. Cardinality(functions) = 1
    BY <2>1, FS_Singleton
  <2>4. FrameCount(ds, 0) = size
    BY <1>3, <1>7
  <2>5. [k \in 1 .. 1 |-> FrameCount(ds, k - 1)] = <<size>>
    <3>1. \A k \in 1 .. 1 : k = 1 /\ k - 1 = 0
      OBVIOUS
    <3>2. \A k \in 1 .. 1 : FrameCount(ds, k - 1) = size
      BY <2>4, <3>1
    <3> QED BY <3>2
  <2> QED BY <2>2, <2>3, <2>5
<1> HIDE DEF list
<1>13. ListsWhatIsThere(cam, ds) <=>
          /\ Connected(ds) = <<size>>
          /\ ToSet(list) \subseteq ToSet(flat) /\ Len(list) <= size
          /\ (\A k \in DOMAIN cam.formats : cam.formats[k].format = "unknown"
                                            \/ cam.formats[k].closed) => list = flat
  BY Zenon DEF ListsWhatIsThere, AllListed, list, flat
<1> QED BY <1>9, <1>10, <1>11, <1>12, <1>13

LEMMA CameraIs ==
  ASSUME NEW cam \in Cameras
  PROVE  IsCamera(cam)
BY InputAssumption, Zenon DEF IsCamera

(* DescriptorsAgree, whatever the camera: formats, frames, intervals and     *)
(* alternate settings of any number and order, and a header that claims any  *)
(* amount more than there is.                                                *)
THEOREM DescriptorsAlwaysAgree == Spec => []DescriptorsAgree
<1>1. InputOK => DescriptorsAgree
  <2> SUFFICES ASSUME InputOK, input.kind = "camera"
               PROVE  LET ds == Descriptors(input.camera)
                      IN  /\ IsUvcDevice(ds)
                          /\ OpensOffered(input.camera, ds)
                          /\ KnowsWhatItGets(input.camera, ds)
                          /\ ListsWhatIsThere(input.camera, ds)
                          /\ BestSetting(input.camera, ds)
    BY DEF DescriptorsAgree
  <2> DEFINE cam == input.camera
             ds == Descriptors(cam)
  <2>1. IsCamera(cam)
    <3>1. cam \in Cameras
      BY InputKinds
    <3> HIDE DEF cam
    <3> QED BY <3>1, CameraIs
  <2> HIDE DEF cam
  <2>2. PICK off, total, rest : Sent(ds, cam, off, total, rest)
    BY <2>1, DescriptorsSent
  <2> HIDE DEF ds
  <2>3. IsUvcDevice(ds)
    BY <2>1, <2>2, HeadersAt
  <2>4. OpensOffered(cam, ds)
    <3> SUFFICES ASSUME NEW want \in Wants, Offered(cam, want) # {}
                 PROVE  /\ \A limit \in Limits : BestAlternate(ds, 2, limit) # -1 =>
                              Claimed(ds, 0, want, limit) = <<2, BestAlternate(ds, 2, limit)>>
                        /\ \A reply \in Replies(cam, SetRequest(ds, 2, want)) :
                              GetAnswer(ds, 2, reply) \in Offered(cam, want)
      BY DEF OpensOffered
    <3>1. /\ ByFormat(ds, 2, want) # <<>>
          /\ \A reply \in Replies(cam, SetRequest(ds, 2, want)) :
                GetAnswer(ds, 2, reply) \in Offered(cam, want)
      <4>1. want.format # "unknown"
        BY InputAssumption
      <4> QED BY <2>1, <2>2, <4>1, NegotiatesOffered
    <3>2. ASSUME NEW limit \in Limits, BestAlternate(ds, 2, limit) # -1
          PROVE  Claimed(ds, 0, want, limit) = <<2, BestAlternate(ds, 2, limit)>>
      BY <2>1, <2>2, <3>1, <3>2, ClaimsOffered
    <3> QED BY <3>1, <3>2
  <2>5. KnowsWhatItGets(cam, ds)
    <3>1. ASSUME NEW f \in 0 .. Len(ds), NEW i \in 0 .. Len(ds)
          PROVE  GetAnswer(ds, 2, <<f, i, 1>>) = Meaning(cam, <<f, i, 1>>)
      <4>1. f \in Nat /\ i \in Nat
        BY <2>2 DEF Sent
      <4> QED BY <2>1, <2>2, <4>1, AnswerMeans
    <3> QED BY <3>1 DEF KnowsWhatItGets
  <2>6. ListsWhatIsThere(cam, ds)
    BY <2>1, <2>2, ListsAlways
  <2>7. BestSetting(cam, ds)
    BY <2>1, <2>2, InputAssumption, SettingAlwaysBest
  <2> QED BY <2>3, <2>4, <2>5, <2>6, <2>7 DEF ds, cam
<1> QED BY <1>1, InputAlways, PTL
=============================================================================
