----------------------------- MODULE ScreenPoint -----------------------------
(* From a box in the model's answer to the pointer on the screen, and back to *)
(* the cursor position the next status line tells the model.  Numbers of a    *)
(* box are in units of 1/Unit, so a box in pixels has bounds like 640 * Unit. *)
EXTENDS ViewGeometry, Sequences

AbsMax == 32767                      \* HID_ABS_MAX
NoPoint == [x |-> -1, y |-> -1]      \* box_to_pixel returned false

\* action_executor_set_view: what the executor keeps is always normalised.
SetView(v) == Normalized(v)

\* A box is in pixels when any bound is above 2: one axis decides for both.
InPixels(b) == \E k \in 1..4 : b[k] > 2 * Unit

Centre(b) == [y |-> (b[1] + b[3]) \div 2, x |-> (b[2] + b[4]) \div 2]

OnScreen(n, size) == Smaller(Larger(n, 0), size - 1)

(* Mutant: a box in pixels goes through the view as well. *)
BoxPointMapsTwice(v, b, w, h) ==
    LET c == Centre(b)
        n == ToFull(v, IF InPixels(b) THEN [x |-> c.x \div w, y |-> c.y \div h] ELSE c)
    IN IF b = <<>> THEN NoPoint
       ELSE [x |-> OnScreen((n.x * w) \div Unit, w),
             y |-> OnScreen((n.y * h) \div Unit, h)]

\* box_to_pixel; <<>> stands for a box that is missing or malformed.
BoxPoint(v, b, w, h) ==
    IF b = <<>> THEN NoPoint
    ELSE LET c == Centre(b)
             n == ToFull(v, c)
         IN IF InPixels(b)
            THEN [x |-> OnScreen(c.x \div Unit, w), y |-> OnScreen(c.y \div Unit, h)]
            ELSE [x |-> OnScreen((n.x * w) \div Unit, w),
                  y |-> OnScreen((n.y * h) \div Unit, h)]

\* pixel_to_abs, and build_status_text on the way back.
Absolute(pixel, size) == (Smaller(pixel, size) * AbsMax) \div size
Cursor(abs, size)     == (abs * size) \div AbsMax

\* C division rounds towards zero.
Quotient(a, b) == IF a < 0 THEN -((-a) \div b) ELSE a \div b

\* The drag's eight interpolated points on one axis.
DragPath(from, to) == [step \in 1..8 |-> from + Quotient((to - from) * step, 8)]
=============================================================================
