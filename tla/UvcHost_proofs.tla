--------------------------- MODULE UvcHost_proofs ---------------------------
(***************************************************************************)
(* Proofs about UvcHost, for any number of transfers, frames, calls and    *)
(* losses of the device, whichever endpoint the device offers: where the   *)
(* frames of a stream are, whose completion answers a control request,     *)
(* that a stream which counts as streaming is fed, and when                *)
(* uvc_capture_deinit can abort.                                           *)
(***************************************************************************)
EXTENDS UvcHost, SequenceTheorems, FiniteSetTheorems, TLAPS

Names == {"install", "driver", "find", "claim", "transfers", "frames", "list",
          "may", "note", "must", "equal", "unpause", "submit", "ready", "warm",
          "pause", "settle", "flush", "close", "settled", "release",
          "uninstall", "ended", "hostGone"}

(* The steps of a call are what is left of its plan; the step it is at is  *)
(* a place in that plan, 0 when the call is over.                          *)
Plan == IF call = "init" THEN CaptureInit ELSE CaptureDeinit

PlanInv ==
  /\ kind \in {"isoc", "bulk"} /\ call \in {"none", "init", "deinit"}
  /\ todo \in Seq(Names) /\ Len(todo) <= Len(Plan)
  /\ \A i \in 1 .. Len(todo) : todo[i] = Plan[Len(Plan) - Len(todo) + i]
  /\ call = "none" => todo = <<>>

Place == IF todo = <<>> THEN 0 ELSE Len(Plan) - Len(todo) + 1

(* The places of interest.                                                 *)
Isoc == kind = "isoc"
Extra == IF Isoc THEN 1 ELSE 0
Listing   == 10 + Extra
Unpausing == 27 + 2 * Extra
Closing   == 5 - Extra

Requests == {"may", "note", "must"}

InitStep(p) ==
  IF p = 1 THEN "install" ELSE IF p = 2 THEN "driver"
  ELSE IF p = 3 THEN "find" ELSE IF p = 4 THEN "claim"
  ELSE IF p < Listing - 3 THEN "may" ELSE IF p = Listing - 3 THEN "must"
  ELSE IF p = Listing - 2 THEN "transfers" ELSE IF p = Listing - 1 THEN "frames"
  ELSE IF p = Listing THEN "list"
  ELSE IF p <= Listing + 5 THEN "may" ELSE IF p = Listing + 6 THEN "note"
  ELSE IF p = Listing + 7 THEN "must" ELSE IF p = Listing + 8 THEN "equal"
  ELSE IF p <= Listing + 13 THEN "may" ELSE IF p = Listing + 14 THEN "note"
  ELSE IF p < Unpausing THEN "must"
  ELSE IF p = Unpausing THEN "unpause" ELSE IF p = Unpausing + 1 THEN "submit"
  ELSE IF p = Unpausing + 2 THEN "ready" ELSE "warm"

DeinitStep(p) ==
  IF p = 1 THEN "pause" ELSE IF p = 2 THEN "settle"
  ELSE IF p < Closing - 1 THEN "flush" ELSE IF p = Closing - 1 THEN "may"
  ELSE IF p = Closing THEN "close" ELSE IF p = Closing + 1 THEN "settled"
  ELSE IF p = Closing + 2 THEN "release"
  ELSE IF p = Closing + 3 THEN "uninstall" ELSE IF p = Closing + 4 THEN "ended"
  ELSE "hostGone"

(* A request in flight, and a completion that waits, are those of the      *)
(* request the owner waits for, as long as none has timed out.             *)
CtrlInv ==
  /\ ctrl \in BOOLEAN /\ status \in {"ok", "error"} /\ done \in BOOLEAN
  /\ asked \in BOOLEAN /\ noted \in BOOLEAN /\ answered \in BOOLEAN
  /\ borrowed \in BOOLEAN /\ timedOut \in BOOLEAN
  /\ asked => Place # 0 /\ Head(todo) \in Requests
  /\ ~timedOut => /\ done => asked /\ answered
                  /\ ctrl => asked /\ ~answered
                  /\ ~borrowed

(* What uvc_capture_init has got to, and what is left of it.               *)
OwnerInv ==
  /\ initialized \in BOOLEAN /\ host \in BOOLEAN /\ driver \in BOOLEAN
  /\ client \in {"none", "running", "leaving"} /\ listed \in BOOLEAN
  /\ inits \in Nat
  /\ call = "none" => ~listed /\ ~initialized
  /\ call # "none" => inits > 0
  /\ listed => host /\ driver /\ dev # "none"
  /\ initialized /\ Place = 0 => listed
  /\ call = "init" /\ Place # 0 =>
       /\ Place > 1 => host /\ (listed <=> Place > Listing)
       /\ Place > 2 => driver
       /\ Place > 3 => dev # "none"
       /\ Place = Listing => empty = NumFrames
       /\ initialized <=> Place > Unpausing + 2
  /\ call = "deinit" => (initialized <=> Place # 0)

(* The frames; a stream that an init left open loses the frame the         *)
(* application had, when init is called once more.                         *)
Sum == empty + Count(current) + Count(latest) + Count(InHand)

Stuck == /\ ~initialized /\ inits > 1 /\ call = "init" /\ Place \in {0, 1}

PoolInv ==
  /\ empty \in 0 .. NumFrames /\ latest \in BOOLEAN
  /\ streaming \in BOOLEAN /\ current \in BOOLEAN
  /\ cpc \in {"idle", "packets", "filling", "deliver", "ending"}
  /\ overtaken \in BOOLEAN
  /\ listed => Sum = NumFrames \/ (Sum < NumFrames /\ Stuck)
  /\ ~listed => ~streaming /\ ~current /\ ~latest /\ cpc = "idle"
  /\ cpc \in {"filling", "ending"} => ~current
  /\ ~streaming /\ cpc # "idle" => overtaken
  /\ StopGivesBack

(* The transfers; only a device that is there has any in flight.           *)
Submitting == call = "init" /\ Place = Unpausing + 1

FeedInv ==
  /\ plugged \in BOOLEAN /\ dev \in {"none", "live", "gone"} /\ lost \in BOOLEAN
  /\ unplugs \in Nat
  /\ urbs \in [Urbs -> {"none", "idle", "unsent", "flight", "failed"}]
  /\ cpc # "idle" => cur \in Urbs
  /\ dev # "live" => \A u \in Urbs : urbs[u] # "flight"
  /\ dev = "gone" => unplugs > 0
  /\ streaming /\ dev # "live" => lost \/ Submitting
  /\ streaming /\ crash = "none" =>
       \/ Submitting
       \/ \E u \in Urbs : urbs[u] \in {"flight", "failed"}
       \/ lost

(* uvc_capture_deinit quiets the stream before it closes it.               *)
Idle(S) == \A u \in Urbs : urbs[u] \in S

QuietInv ==
  /\ crash \in {"none", "abort", "heap", "assert"} /\ NoAbort
  /\ call = "deinit" /\ Place # 0 =>
       /\ Place <= Closing + 2 => listed
       /\ Place > 1 => ~streaming
       /\ Place > 2 => cpc = "idle"
       /\ Place = Closing + 2 => empty = NumFrames
       /\ Isoc /\ 2 < Place /\ Place <= Closing + 2 => Idle({"idle"})
       /\ ~Isoc /\ unplugs = 0 /\ ~timedOut =>
            /\ Place = 3 => Idle({"idle", "flight"})
            /\ Place = 4 => Idle({"idle", "failed"}) /\ (asked /\ answered => Idle({"idle"}))
            /\ Place \in 5 .. 7 => Idle({"idle"})

HostInv == PlanInv /\ CtrlInv /\ OwnerInv /\ PoolInv /\ FeedInv /\ QuietInv

-----------------------------------------------------------------------------
(* The plans, place by place.                                              *)

IsJoin(c, s, t) ==
  /\ c \in Seq(Names) /\ Len(c) = Len(s) + Len(t)
  /\ \A i \in 1 .. Len(c) : c[i] = IF i <= Len(s) THEN s[i] ELSE t[i - Len(s)]

(* A concatenation, place by place. *)
LEMMA Joined ==
  ASSUME NEW s \in Seq(Names), NEW t \in Seq(Names)
  PROVE  IsJoin(s \o t, s, t)
  BY ConcatProperties DEF IsJoin

(* One try of uvc_host_stream_control_commit. *)
LEMMA RoundTable ==
  /\ Round \in Seq(Names) /\ Len(Round) = 7
  /\ \A i \in 1 .. 7 : Round[i] = IF i = 6 THEN "note" ELSE IF i = 7 THEN "must" ELSE "may"
<1>1. Round \in Seq(Requests) /\ Len(Round) = 7
  BY DEF Round, Probe, Requests
<1>2. Requests \subseteq Names
  BY DEF Requests, Names
<1>3. Round \in Seq(Names)
  BY <1>1, <1>2
<1>4. \A i \in 1 .. 7 : Round[i] = IF i = 6 THEN "note" ELSE IF i = 7 THEN "must" ELSE "may"
  BY DEF Round, Probe
<1>5. QED
  BY <1>1, <1>3, <1>4

(* uvc_host_stream_control_commit. *)
LEMMA CommitTable ==
  /\ Commit \in Seq(Names) /\ Len(Commit) = 16
  /\ \A i \in 1 .. 16 : Commit[i] = IF i \in {6, 14} THEN "note"
                                    ELSE IF i \in {7, 15, 16} THEN "must"
                                    ELSE IF i = 8 THEN "equal" ELSE "may"
<1> DEFINE r == Round
           e == <<"equal">>
           x == <<"must">>
           a == r \o e
           b == a \o r
           c == b \o x
<1>1. Commit = c
  BY DEF Commit
<1>2. r \in Seq(Names) /\ Len(r) = 7
      /\ \A i \in 1 .. 7 : r[i] = IF i = 6 THEN "note" ELSE IF i = 7 THEN "must" ELSE "may"
  BY RoundTable
<1>3. e \in Seq(Names) /\ Len(e) = 1 /\ e[1] = "equal"
  BY DEF Names
<1>4. x \in Seq(Names) /\ Len(x) = 1 /\ x[1] = "must"
  BY DEF Names
<1> HIDE DEF r, e, x
<1>5. IsJoin(a, r, e)
  BY <1>2, <1>3, Joined
<1> HIDE DEF a
<1>6. a \in Seq(Names) /\ Len(a) = 8
      /\ \A i \in 1 .. 8 : a[i] = IF i <= 7 THEN r[i] ELSE "equal"
  BY <1>2, <1>3, <1>5 DEF IsJoin
<1>7. IsJoin(b, a, r)
  BY <1>2, <1>6, Joined
<1> HIDE DEF b
<1>8. b \in Seq(Names) /\ Len(b) = 15
      /\ \A i \in 1 .. 15 : b[i] = IF i <= 8 THEN a[i] ELSE r[i - 8]
  BY <1>2, <1>6, <1>7 DEF IsJoin
<1>9. IsJoin(c, b, x)
  BY <1>4, <1>8, Joined
<1> HIDE DEF c
<1>10. c \in Seq(Names) /\ Len(c) = 16
       /\ \A i \in 1 .. 16 : c[i] = IF i <= 15 THEN b[i] ELSE "must"
  BY <1>4, <1>8, <1>9 DEF IsJoin
<1>11. \A i \in 1 .. 16 : c[i] = IF i <= 7 THEN r[i] ELSE IF i = 8 THEN "equal"
                                 ELSE IF i <= 15 THEN r[i - 8] ELSE "must"
  BY <1>6, <1>8, <1>10, SMTT(40)
<1>12. QED
  BY <1>1, <1>2, <1>10, <1>11

(* uvc_set_interface, which only an isochronous stream needs. *)
LEMMA InterfaceTable ==
  ASSUME NEW policy \in Names
  PROVE  /\ SetInterface(policy) \in Seq(Names) /\ Len(SetInterface(policy)) = Extra
         /\ Extra \in 0 .. 1
         /\ \A i \in 1 .. Extra : SetInterface(policy)[i] = policy
<1>1. CASE Isoc
  BY <1>1 DEF SetInterface, Extra, Isoc
<1>2. CASE ~Isoc
  BY <1>2 DEF SetInterface, Extra, Isoc
<1>3. QED
  BY <1>1, <1>2

(* uvc_host_stream_open. *)
LEMMA OpenTable ==
  /\ Open \in Seq(Names) /\ Len(Open) = 8 + Extra
  /\ \A i \in 1 .. 8 + Extra :
       Open[i] = IF i = 1 THEN "find" ELSE IF i = 2 THEN "claim"
                 ELSE IF i <= 4 + Extra THEN "may" ELSE IF i = 5 + Extra THEN "must"
                 ELSE IF i = 6 + Extra THEN "transfers" ELSE IF i = 7 + Extra THEN "frames"
                 ELSE "list"
<1> DEFINE r == <<"find", "claim">>
           e == SetInterface("may")
           q == Probe("must")
           x == <<"transfers", "frames", "list">>
           a == r \o e
           b == a \o q
           c == b \o x
<1>1. Open = c
  BY DEF Open
<1>2. r \in Seq(Names) /\ Len(r) = 2 /\ r[1] = "find" /\ r[2] = "claim"
  BY DEF Names
<1>3. e \in Seq(Names) /\ Len(e) = Extra /\ Extra \in 0 .. 1
      /\ \A i \in 1 .. Extra : e[i] = "may"
  <2>1. "may" \in Names
    BY DEF Names
  <2>2. QED
    BY <2>1, InterfaceTable
<1>4. q \in Seq(Names) /\ Len(q) = 3 /\ q[1] = "may" /\ q[2] = "may" /\ q[3] = "must"
  BY DEF Names, Probe
<1>5. x \in Seq(Names) /\ Len(x) = 3 /\ x[1] = "transfers" /\ x[2] = "frames" /\ x[3] = "list"
  BY DEF Names
<1> HIDE DEF r, e, q, x
<1>6. IsJoin(a, r, e)
  BY <1>2, <1>3, Joined
<1> HIDE DEF a
<1>7. a \in Seq(Names) /\ Len(a) = 2 + Extra
      /\ \A i \in 1 .. 2 + Extra : a[i] = IF i = 1 THEN "find" ELSE IF i = 2 THEN "claim" ELSE "may"
  BY <1>2, <1>3, <1>6 DEF IsJoin
<1>8. IsJoin(b, a, q)
  BY <1>4, <1>7, Joined
<1> HIDE DEF b
<1>9. b \in Seq(Names) /\ Len(b) = 5 + Extra
      /\ \A i \in 1 .. 5 + Extra : b[i] = IF i <= 2 + Extra THEN a[i] ELSE q[i - (2 + Extra)]
  BY <1>3, <1>4, <1>7, <1>8 DEF IsJoin
<1>10. IsJoin(c, b, x)
  BY <1>5, <1>9, Joined
<1> HIDE DEF c
<1>11. c \in Seq(Names) /\ Len(c) = 8 + Extra
       /\ \A i \in 1 .. 8 + Extra : c[i] = IF i <= 5 + Extra THEN b[i] ELSE x[i - (5 + Extra)]
  BY <1>3, <1>5, <1>9, <1>10 DEF IsJoin
<1>12. Extra = 0 \/ Extra = 1
  BY <1>3
<1>13. ASSUME NEW i \in 1 .. 8 + Extra
       PROVE  c[i] = IF i = 1 THEN "find" ELSE IF i = 2 THEN "claim"
                     ELSE IF i <= 4 + Extra THEN "may" ELSE IF i = 5 + Extra THEN "must"
                     ELSE IF i = 6 + Extra THEN "transfers"
                     ELSE IF i = 7 + Extra THEN "frames" ELSE "list"
  <2>1. CASE i <= 2 + Extra
    BY <1>7, <1>9, <1>11, <1>12, <2>1
  <2>2. CASE 2 + Extra < i /\ i <= 5 + Extra
    <3>1. c[i] = q[i - (2 + Extra)]
      BY <1>9, <1>11, <1>12, <2>2
    <3>2. QED
      BY <1>4, <1>12, <2>2, <3>1
  <2>3. CASE 5 + Extra < i
    <3>1. c[i] = x[i - (5 + Extra)]
      BY <1>11, <1>12, <2>3
    <3>2. QED
      BY <1>5, <1>12, <2>3, <3>1
  <2>4. QED
    BY <1>12, <2>1, <2>2, <2>3
<1>14. QED
  BY <1>1, <1>11, <1>13

(* uvc_host_stream_start. *)
LEMMA StartTable ==
  /\ Start \in Seq(Names) /\ Len(Start) = 18 + Extra
  /\ \A i \in 1 .. 18 + Extra :
       Start[i] = IF i <= 16 THEN Commit[i] ELSE IF i <= 16 + Extra THEN "must"
                  ELSE IF i = 17 + Extra THEN "unpause" ELSE "submit"
<1> DEFINE r == Commit
           e == SetInterface("must")
           x == <<"unpause", "submit">>
           a == r \o e
           c == a \o x
<1>1. Start = c
  BY DEF Start
<1>2. r \in Seq(Names) /\ Len(r) = 16
  BY CommitTable
<1>3. e \in Seq(Names) /\ Len(e) = Extra /\ Extra \in 0 .. 1
      /\ \A i \in 1 .. Extra : e[i] = "must"
  <2>1. "must" \in Names
    BY DEF Names
  <2>2. QED
    BY <2>1, InterfaceTable
<1>4. x \in Seq(Names) /\ Len(x) = 2 /\ x[1] = "unpause" /\ x[2] = "submit"
  BY DEF Names
<1> HIDE DEF r, e, x
<1>5. IsJoin(a, r, e)
  BY <1>2, <1>3, Joined
<1> HIDE DEF a
<1>6. a \in Seq(Names) /\ Len(a) = 16 + Extra
      /\ \A i \in 1 .. 16 + Extra : a[i] = IF i <= 16 THEN r[i] ELSE "must"
  BY <1>2, <1>3, <1>5 DEF IsJoin
<1>7. IsJoin(c, a, x)
  BY <1>4, <1>6, Joined
<1> HIDE DEF c
<1>8. c \in Seq(Names) /\ Len(c) = 18 + Extra
      /\ \A i \in 1 .. 18 + Extra : c[i] = IF i <= 16 + Extra THEN a[i] ELSE x[i - (16 + Extra)]
  BY <1>3, <1>4, <1>6, <1>7 DEF IsJoin
<1>9. Extra = 0 \/ Extra = 1
  BY <1>3
<1>10. \A i \in 1 .. 18 + Extra :
        c[i] = IF i <= 16 THEN r[i] ELSE IF i <= 16 + Extra THEN "must"
               ELSE IF i = 17 + Extra THEN "unpause" ELSE "submit"
  BY <1>4, <1>6, <1>8, <1>9
<1>11. QED
  BY <1>1, <1>8, <1>10 DEF r

(* uvc_capture_init, as InitStep tells it. *)
LEMMA InitTable ==
  /\ CaptureInit \in Seq(Names) /\ Len(CaptureInit) = Unpausing + 5
  /\ Extra \in {0, 1}
  /\ \A i \in 1 .. Unpausing + 5 : CaptureInit[i] = InitStep(i)
<1> DEFINE r == <<"install", "driver">>
           o == Open
           t == Start
           x == <<"ready", "warm", "warm", "warm">>
           a == r \o o
           b == a \o t
           c == b \o x
<1>1. CaptureInit = c
  BY DEF CaptureInit
<1>2. r \in Seq(Names) /\ Len(r) = 2 /\ r[1] = "install" /\ r[2] = "driver"
  BY DEF Names
<1>3. o \in Seq(Names) /\ Len(o) = 8 + Extra /\ t \in Seq(Names) /\ Len(t) = 18 + Extra
  BY OpenTable, StartTable
<1>4. x \in Seq(Names) /\ Len(x) = 4
      /\ x[1] = "ready" /\ x[2] = "warm" /\ x[3] = "warm" /\ x[4] = "warm"
  BY DEF Names
<1>5. Extra = 0 \/ Extra = 1
  BY DEF Extra
<1> HIDE DEF r, o, t, x
<1>6. IsJoin(a, r, o)
  BY <1>2, <1>3, Joined
<1> HIDE DEF a
<1>7. a \in Seq(Names) /\ Len(a) = 10 + Extra
      /\ \A i \in 1 .. 10 + Extra : a[i] = IF i <= 2 THEN r[i] ELSE o[i - 2]
  BY <1>2, <1>3, <1>5, <1>6 DEF IsJoin
<1>8. IsJoin(b, a, t)
  BY <1>3, <1>7, Joined
<1> HIDE DEF b
<1>9. b \in Seq(Names) /\ Len(b) = 28 + 2 * Extra
      /\ \A i \in 1 .. 28 + 2 * Extra :
           b[i] = IF i <= 10 + Extra THEN a[i] ELSE t[i - (10 + Extra)]
  BY <1>3, <1>5, <1>7, <1>8 DEF IsJoin
<1>10. IsJoin(c, b, x)
  BY <1>4, <1>9, Joined
<1> HIDE DEF c
<1>11. c \in Seq(Names) /\ Len(c) = 32 + 2 * Extra
       /\ \A i \in 1 .. 32 + 2 * Extra :
            c[i] = IF i <= 28 + 2 * Extra THEN b[i] ELSE x[i - (28 + 2 * Extra)]
  BY <1>4, <1>5, <1>9, <1>10 DEF IsJoin
<1>12. \A i \in 1 .. 32 + 2 * Extra : c[i] = InitStep(i)
  <2>1. ASSUME NEW i \in 1 .. 32 + 2 * Extra PROVE c[i] = InitStep(i)
    <3>1. CASE i <= 2
      <4>1. c[i] = r[i]
        BY <1>5, <1>7, <1>9, <1>11, <3>1, SMTT(40)
      <4>2. QED
        BY <1>2, <1>5, <3>1, <4>1 DEF InitStep, Listing, Unpausing
    <3>2. CASE 2 < i /\ i <= 10 + Extra
      <4>1. c[i] = Open[i - 2] /\ i - 2 \in 1 .. 8 + Extra
        BY <1>5, <1>7, <1>9, <1>11, <3>2 DEF o
      <4>2. QED
        BY <1>5, <3>2, <4>1, OpenTable, SMTT(40) DEF InitStep, Listing, Unpausing
    <3>3. CASE 10 + Extra < i /\ i <= 28 + 2 * Extra
      <4>1. c[i] = Start[i - (10 + Extra)] /\ i - (10 + Extra) \in 1 .. 18 + Extra
        BY <1>5, <1>9, <1>11, <3>3 DEF t
      <4>2. CASE i <= 26 + Extra
        <5>1. c[i] = Commit[i - (10 + Extra)] /\ i - (10 + Extra) \in 1 .. 16
          BY <1>5, <3>3, <4>1, <4>2, StartTable, SMTT(40)
        <5>2. CASE Extra = 0
          BY <3>3, <4>2, <5>1, <5>2, CommitTable DEF InitStep, Listing, Unpausing
        <5>3. CASE Extra = 1
          BY <3>3, <4>2, <5>1, <5>3, CommitTable DEF InitStep, Listing, Unpausing
        <5>4. QED
          BY <1>5, <5>2, <5>3
      <4>3. CASE i > 26 + Extra
        <5>1. c[i] = IF i <= 26 + 2 * Extra THEN "must"
                     ELSE IF i = 27 + 2 * Extra THEN "unpause" ELSE "submit"
          BY <1>5, <3>3, <4>1, <4>3, StartTable
        <5>2. CASE Extra = 0
          BY <3>3, <4>3, <5>1, <5>2 DEF InitStep, Listing, Unpausing
        <5>3. CASE Extra = 1
          BY <3>3, <4>3, <5>1, <5>3 DEF InitStep, Listing, Unpausing
        <5>4. QED
          BY <1>5, <5>2, <5>3
      <4>4. QED
        BY <1>5, <4>2, <4>3
    <3>4. CASE i > 28 + 2 * Extra
      <4>1. c[i] = x[i - (28 + 2 * Extra)] /\ i - (28 + 2 * Extra) \in 1 .. 4
        BY <1>5, <1>11, <3>4
      <4>2. c[i] = IF i = 29 + 2 * Extra THEN "ready" ELSE "warm"
        BY <1>4, <1>5, <3>4, <4>1
      <4>3. QED
        BY <1>5, <3>4, <4>2 DEF InitStep, Listing, Unpausing
    <3>5. QED
      BY <1>5, <3>1, <3>2, <3>3, <3>4
  <2>2. QED
    BY <2>1
<1>13. Unpausing + 5 = 32 + 2 * Extra
  BY <1>5 DEF Unpausing
<1>14. QED
  BY <1>1, <1>5, <1>11, <1>12, <1>13

(* uvc_capture_deinit, as DeinitStep tells it. *)
LEMMA DeinitTable ==
  /\ CaptureDeinit \in Seq(Names) /\ Len(CaptureDeinit) = Closing + 5
  /\ \A i \in 1 .. Closing + 5 : CaptureDeinit[i] = DeinitStep(i)
<1> DEFINE r == <<"pause", "settle">>
           e == IF kind = "isoc" THEN <<"may">> ELSE <<"flush", "may">>
           a == r \o e
           k == Close
           u == Uninstall
           x == <<"hostGone">>
           b == a \o k
           d == b \o u
           c == d \o x
<1>1. CaptureDeinit = c
  BY DEF CaptureDeinit, Stop
<1>2. r \in Seq(Names) /\ Len(r) = 2 /\ r[1] = "pause" /\ r[2] = "settle"
  BY DEF Names
<1>3. /\ e \in Seq(Names) /\ Len(e) = 2 - Extra
      /\ Isoc => e[1] = "may"
      /\ ~Isoc => e[1] = "flush" /\ e[2] = "may"
  <2>1. CASE kind = "isoc"
    BY <2>1 DEF Names, Isoc, Extra
  <2>2. CASE kind # "isoc"
    BY <2>2 DEF Names, Isoc, Extra
  <2>3. QED
    BY <2>1, <2>2
<1>4. k \in Seq(Names) /\ Len(k) = 3 /\ k[1] = "close" /\ k[2] = "settled" /\ k[3] = "release"
  BY DEF Names, Close
<1>5. u \in Seq(Names) /\ Len(u) = 2 /\ u[1] = "uninstall" /\ u[2] = "ended"
  BY DEF Names, Uninstall
<1>6. x \in Seq(Names) /\ Len(x) = 1 /\ x[1] = "hostGone"
  BY DEF Names
<1>7. (Isoc /\ Extra = 1) \/ (~Isoc /\ Extra = 0)
  BY DEF Extra
<1> HIDE DEF r, e, k, u, x
<1>8. IsJoin(a, r, e)
  BY <1>2, <1>3, Joined
<1> HIDE DEF a
<1>9. a \in Seq(Names) /\ Len(a) = 4 - Extra
      /\ \A i \in 1 .. 4 - Extra : a[i] = IF i <= 2 THEN r[i] ELSE e[i - 2]
  BY <1>2, <1>3, <1>7, <1>8 DEF IsJoin
<1>10. IsJoin(b, a, k)
  BY <1>4, <1>9, Joined
<1> HIDE DEF b
<1>11. b \in Seq(Names) /\ Len(b) = 7 - Extra
       /\ \A i \in 1 .. 7 - Extra : b[i] = IF i <= 4 - Extra THEN a[i] ELSE k[i - (4 - Extra)]
  BY <1>4, <1>7, <1>9, <1>10 DEF IsJoin
<1>12. IsJoin(d, b, u)
  BY <1>5, <1>11, Joined
<1> HIDE DEF d
<1>13. d \in Seq(Names) /\ Len(d) = 9 - Extra
       /\ \A i \in 1 .. 9 - Extra : d[i] = IF i <= 7 - Extra THEN b[i] ELSE u[i - (7 - Extra)]
  BY <1>5, <1>7, <1>11, <1>12 DEF IsJoin
<1>14. IsJoin(c, d, x)
  BY <1>6, <1>13, Joined
<1> HIDE DEF c
<1>15. c \in Seq(Names) /\ Len(c) = 10 - Extra
       /\ \A i \in 1 .. 10 - Extra : c[i] = IF i <= 9 - Extra THEN d[i] ELSE "hostGone"
  BY <1>6, <1>7, <1>13, <1>14 DEF IsJoin
<1>16. \A i \in 1 .. 10 - Extra : c[i] = DeinitStep(i)
  <2>1. ASSUME NEW i \in 1 .. 10 - Extra PROVE c[i] = DeinitStep(i)
    <3>1. CASE i <= 2
      <4>1. c[i] = r[i]
        BY <1>7, <1>9, <1>11, <1>13, <1>15, <3>1
      <4>2. QED
        BY <1>2, <1>7, <3>1, <4>1 DEF DeinitStep, Closing
    <3>2. CASE 2 < i /\ i <= 4 - Extra
      <4>1. c[i] = e[i - 2]
        BY <1>7, <1>9, <1>11, <1>13, <1>15, <3>2, SMTT(40)
      <4>2. QED
        BY <1>3, <1>7, <3>2, <4>1 DEF DeinitStep, Closing
    <3>3. CASE 4 - Extra < i /\ i <= 7 - Extra
      <4>1. c[i] = k[i - (4 - Extra)]
        BY <1>7, <1>11, <1>13, <1>15, <3>3
      <4>2. QED
        BY <1>4, <1>7, <3>3, <4>1 DEF DeinitStep, Closing
    <3>4. CASE 7 - Extra < i /\ i <= 9 - Extra
      <4>1. c[i] = u[i - (7 - Extra)]
        BY <1>7, <1>13, <1>15, <3>4
      <4>2. QED
        BY <1>5, <1>7, <3>4, <4>1 DEF DeinitStep, Closing
    <3>5. CASE i > 9 - Extra
      BY <1>7, <1>15, <3>5 DEF DeinitStep, Closing
    <3>6. QED
      BY <1>7, <3>1, <3>2, <3>3, <3>4, <3>5
  <2>2. QED
    BY <2>1
<1>17. Closing + 5 = 10 - Extra
  BY <1>7 DEF Closing
<1>18. QED
  BY <1>1, <1>15, <1>16, <1>17

-----------------------------------------------------------------------------
(* Where a call is, and how it moves.                                      *)

(* The plans depend on the kind of endpoint only. *)
LEMMA SameKind ==
  kind' = kind =>
    /\ Isoc' = Isoc /\ Extra' = Extra /\ Listing' = Listing
    /\ Unpausing' = Unpausing /\ Closing' = Closing
    /\ CaptureInit' = CaptureInit /\ CaptureDeinit' = CaptureDeinit
<1>1. kind' = kind => Isoc' = Isoc
  BY DEF Isoc
<1>2. kind' = kind => Extra' = Extra
  BY <1>1 DEF Extra
<1>3. kind' = kind =>
        Listing' = Listing /\ Unpausing' = Unpausing /\ Closing' = Closing
  BY <1>2 DEF Listing, Unpausing, Closing
<1>4. kind' = kind => CaptureInit' = CaptureInit
  BY DEF CaptureInit, Open, Start, SetInterface, Commit, Round, Probe
<1>5. kind' = kind => CaptureDeinit' = CaptureDeinit
  BY DEF CaptureDeinit, Stop, Close, Uninstall
<1>6. QED
  BY <1>1, <1>2, <1>3, <1>4, <1>5

(* The numbers of places. *)
LEMMA Numbers ==
  \/ Isoc /\ Listing = 11 /\ Unpausing = 29 /\ Closing = 4
  \/ ~Isoc /\ Listing = 10 /\ Unpausing = 27 /\ Closing = 5
<1>1. CASE Isoc
  BY <1>1 DEF Extra, Listing, Unpausing, Closing
<1>2. CASE ~Isoc
  BY <1>2 DEF Extra, Listing, Unpausing, Closing
<1>3. QED
  BY <1>1, <1>2

LastPlace == IF call = "init" THEN Unpausing + 5 ELSE Closing + 5

(* The step a call is at is the one its plan has at that place. *)
LEMMA Where ==
  ASSUME PlanInv
  PROVE  /\ todo = <<>> <=> Place = 0
         /\ Place \in 0 .. LastPlace /\ Len(Plan) = LastPlace
         /\ todo # <<>> => call \in {"init", "deinit"}
                           /\ Len(todo) = LastPlace - Place + 1 /\ Len(todo) > 0
         /\ todo # <<>> /\ call = "init" => Head(todo) = InitStep(Place)
         /\ todo # <<>> /\ call = "deinit" => Head(todo) = DeinitStep(Place)
<1>1. Len(Plan) = LastPlace /\ LastPlace \in Nat
  <2>1. CASE call = "init"
    BY <2>1, InitTable, Numbers DEF Plan, LastPlace
  <2>2. CASE call # "init"
    BY <2>2, DeinitTable, Numbers DEF Plan, LastPlace
  <2>3. QED
    BY <2>1, <2>2
<1>2. Len(todo) \in Nat /\ (todo = <<>> <=> Len(todo) = 0)
  BY EmptySeq DEF PlanInv
<1>3. todo = <<>> <=> Place = 0
  BY <1>1, <1>2 DEF Place, PlanInv
<1>4. Place \in 0 .. LastPlace
  BY <1>1, <1>2 DEF Place, PlanInv
<1>5. ASSUME todo # <<>>
      PROVE  /\ call \in {"init", "deinit"}
             /\ Len(todo) = LastPlace - Place + 1 /\ Len(todo) > 0
             /\ Head(todo) = Plan[Place] /\ Place \in 1 .. LastPlace
  <2>1. call \in {"init", "deinit"}
    BY <1>5 DEF PlanInv
  <2>2. Len(todo) > 0 /\ Len(todo) = LastPlace - Place + 1 /\ Place \in 1 .. LastPlace
    BY <1>1, <1>2, <1>5 DEF Place, PlanInv
  <2>3. Head(todo) = todo[1] /\ 1 \in 1 .. Len(todo)
    BY <1>2, <1>5, <2>2 DEF PlanInv
  <2>4. todo[1] = Plan[Len(Plan) - Len(todo) + 1]
    BY <2>3 DEF PlanInv
  <2>5. Len(Plan) - Len(todo) + 1 = Place
    BY <1>5 DEF Place
  <2>6. QED
    BY <2>1, <2>2, <2>3, <2>4, <2>5
<1>6. ASSUME todo # <<>>, call = "init" PROVE Head(todo) = InitStep(Place)
  BY <1>5, <1>6, InitTable DEF Plan, LastPlace
<1>7. ASSUME todo # <<>>, call = "deinit" PROVE Head(todo) = DeinitStep(Place)
  BY <1>5, <1>7, DeinitTable DEF Plan, LastPlace
<1>8. QED
  BY <1>1, <1>3, <1>4, <1>5, <1>6, <1>7

(* Where in which call each step is. *)
LEMMA Spots ==
  ASSUME PlanInv, todo # <<>>
  PROVE  LET h == Head(todo) IN
         /\ h = "install" <=> call = "init" /\ Place = 1
         /\ h = "driver" => call = "init" /\ Place = 2
         /\ h = "find" => call = "init" /\ Place = 3
         /\ h = "claim" => call = "init" /\ Place = 4
         /\ h = "transfers" => call = "init" /\ Place = Listing - 2
         /\ h = "frames" => call = "init" /\ Place = Listing - 1
         /\ h = "list" => call = "init" /\ Place = Listing
         /\ h = "equal" => call = "init" /\ Place = Listing + 8
         /\ h = "unpause" => call = "init" /\ Place = Unpausing
         /\ h = "submit" <=> call = "init" /\ Place = Unpausing + 1
         /\ h = "ready" => call = "init" /\ Place = Unpausing + 2
         /\ h = "warm" => call = "init" /\ Place > Unpausing + 2
         /\ h = "pause" => call = "deinit" /\ Place = 1
         /\ h = "settle" => call = "deinit" /\ Place = 2
         /\ h = "flush" => call = "deinit" /\ Place = 3 /\ ~Isoc
         /\ h = "close" => call = "deinit" /\ Place = Closing
         /\ h = "settled" => call = "deinit" /\ Place = Closing + 1
         /\ h = "release" => call = "deinit" /\ Place = Closing + 2
         /\ h = "uninstall" => call = "deinit" /\ Place = Closing + 3
         /\ h = "ended" => call = "deinit" /\ Place = Closing + 4
         /\ h = "hostGone" => call = "deinit" /\ Place = Closing + 5
         /\ h \in Requests =>
              \/ call = "init" /\ 4 < Place /\ Place <= Listing - 3
              \/ call = "init" /\ Listing < Place /\ Place < Unpausing
              \/ call = "deinit" /\ Place = Closing - 1 /\ h = "may"
<1>1. CASE call = "init"
  <2>1. Head(todo) = InitStep(Place) /\ Place \in 1 .. Unpausing + 5
    BY <1>1, Where DEF LastPlace
  <2>2. CASE Isoc /\ Listing = 11 /\ Unpausing = 29
    BY <1>1, <2>1, <2>2, SMTT(60) DEF InitStep, Requests
  <2>3. CASE ~Isoc /\ Listing = 10 /\ Unpausing = 27
    BY <1>1, <2>1, <2>3, SMTT(60) DEF InitStep, Requests
  <2>4. QED
    BY <2>2, <2>3, Numbers
<1>2. CASE call = "deinit"
  <2>1. Head(todo) = DeinitStep(Place) /\ Place \in 1 .. Closing + 5
    BY <1>2, Where DEF LastPlace
  <2>2. QED
    BY <1>2, <2>1, Numbers DEF DeinitStep, Requests
<1>3. QED
  BY <1>1, <1>2, Where

(* A call that has taken k more steps. *)
LEMMA Moved ==
  ASSUME PlanInv, kind' = kind, call' = call, NEW k \in Nat, k <= Len(todo),
         todo' \in Seq(Names), Len(todo') = Len(todo) - k,
         \A i \in 1 .. Len(todo) - k : todo'[i] = todo[i + k], todo # <<>>
  PROVE  PlanInv' /\ Place' = IF k = Len(todo) THEN 0 ELSE Place + k
<1>1. Plan' = Plan
  BY SameKind DEF Plan
<1>2. Len(todo) \in Nat /\ Len(todo') \in Nat /\ Len(Plan) \in Nat
  BY Where, Numbers DEF PlanInv, LastPlace
<1>3. \A i \in 1 .. Len(todo') : todo'[i] = Plan[Len(Plan) - Len(todo') + i]
  <2>1. ASSUME NEW i \in 1 .. Len(todo')
        PROVE  todo'[i] = Plan[Len(Plan) - Len(todo') + i]
    <3>1. i + k \in 1 .. Len(todo) /\ i \in 1 .. Len(todo) - k
          /\ Len(Plan) - Len(todo) + (i + k) = Len(Plan) - Len(todo') + i
      BY <1>2, <2>1
    <3>2. todo[i + k] = Plan[Len(Plan) - Len(todo) + (i + k)]
      BY <3>1 DEF PlanInv
    <3>3. QED
      BY <3>1, <3>2
  <2>2. QED
    BY <2>1
<1>4. PlanInv'
  <2>1. Len(todo') <= Len(Plan)
    BY <1>2 DEF PlanInv
  <2>2. call # "none"
    BY Where
  <2>3. QED
    BY <1>1, <1>3, <2>1, <2>2 DEF PlanInv
<1>5. todo' = <<>> <=> Len(todo') = 0
  BY EmptySeq
<1>6. Place' = IF k = Len(todo) THEN 0 ELSE Place + k
  BY <1>1, <1>2, <1>5 DEF Place
<1>7. QED
  BY <1>4, <1>6

(* Continue is one step on, or the end of the call. *)
LEMMA Continues ==
  ASSUME PlanInv, kind' = kind, call' = call, todo # <<>>, Continue
  PROVE  PlanInv' /\ Place' = IF Place = LastPlace THEN 0 ELSE Place + 1
<1>1. /\ todo' \in Seq(Names) /\ Len(todo') = Len(todo) - 1 /\ Len(todo) \in Nat
      /\ \A i \in 1 .. Len(todo) - 1 : todo'[i] = todo[i + 1]
  BY DEF PlanInv, Continue
<1>2. 1 <= Len(todo)
  BY <1>1, Where
<1>3. PlanInv' /\ Place' = IF 1 = Len(todo) THEN 0 ELSE Place + 1
  BY <1>1, <1>2, Moved
<1>4. 1 = Len(todo) <=> Place = LastPlace
  BY <1>1, Where, Numbers, SMTT(40) DEF LastPlace
<1>5. QED
  BY <1>3, <1>4

(* Leave is the end of the call. *)
LEMMA Leaves ==
  ASSUME PlanInv, kind' = kind, call' = call, Leave
  PROVE  PlanInv' /\ Place' = 0
<1>1. todo' = <<>> /\ <<>> \in Seq(Names) /\ Len(<<>>) = 0
  BY DEF Leave
<1>2. Plan' = Plan
  BY SameKind DEF Plan
<1>3. Len(Plan) \in Nat
  BY Where, Numbers DEF LastPlace
<1>4. QED
  BY <1>1, <1>2, <1>3 DEF PlanInv, Place

(* Whoever leaves todo alone leaves the call where it is. *)
LEMMA Stays ==
  ASSUME PlanInv, UNCHANGED <<kind, call, todo>>
  PROVE  PlanInv' /\ Place' = Place
<1>1. Plan' = Plan
  BY SameKind DEF Plan
<1>2. QED
  BY <1>1 DEF PlanInv, Place

-----------------------------------------------------------------------------
(* The client task, the bus and the application: the call stays where it   *)
(* is.                                                                     *)

SameCall == UNCHANGED <<kind, call, todo, initialized, inits>>

(* Everything that is read off the call stays with it. *)
LEMMA Standing ==
  ASSUME PlanInv, SameCall
  PROVE  /\ PlanInv' /\ Place' = Place /\ Head(todo)' = Head(todo)
         /\ Stuck' = Stuck /\ Submitting' = Submitting
         /\ Isoc' = Isoc /\ Listing' = Listing /\ Unpausing' = Unpausing
         /\ Closing' = Closing
  BY Stays, SameKind DEF SameCall, Stuck, Submitting

(* Who leaves the request alone keeps CtrlInv. *)
LEMMA ControlKept ==
  ASSUME PlanInv, CtrlInv, SameCall, UNCHANGED ctrlVars
  PROVE  CtrlInv'
  BY Standing DEF CtrlInv, ctrlVars

(* What a step of theirs may do to the rest. *)
LEMMA ClientKeeps ==
  ASSUME HostInv, SameCall, UNCHANGED <<host, driver, listed, timedOut>>,
         crash' \in {crash, "assert"},
         client' \in {"none", "running", "leaving"},
         CtrlInv', PoolInv', FeedInv',
         dev' = dev \/ (dev = "live" /\ dev' = "gone"),
         empty' = empty \/ (listed /\ (empty < NumFrames \/ cpc # "idle")),
         streaming' => streaming,
         cpc = "idle" => cpc' = "idle" \/ streaming,
         unplugs' = 0 => unplugs = 0, unplugs' >= unplugs,
         ~streaming => \A u \in Urbs : \/ urbs'[u] \in {urbs[u], "idle"}
                                       \/ unplugs' > 0 /\ urbs[u] = "flight",
         asked' /\ answered' =>
           \/ asked /\ answered
           \/ \A u \in Urbs : urbs'[u] = urbs[u] /\ urbs[u] # "failed",
         asked' = asked
  PROVE  HostInv'
<1>0. /\ PlanInv' /\ Place' = Place /\ Isoc' = Isoc /\ Listing' = Listing
      /\ Unpausing' = Unpausing /\ Closing' = Closing /\ Head(todo)' = Head(todo)
  BY Standing DEF HostInv
<1>1. OwnerInv'
  <2>1. call = "init" /\ Place = Listing => empty' = empty
    BY Numbers DEF HostInv, OwnerInv
  <2>2. QED
    BY <1>0, <2>1 DEF HostInv, OwnerInv, SameCall
<1>2. QuietInv'
  <2>1. crash' \in {"none", "abort", "heap", "assert"} /\ NoAbort'
    BY DEF HostInv, QuietInv, NoAbort, SameCall, FeedInv
  <2>2. ASSUME call = "deinit", Place # 0
        PROVE  /\ Place <= Closing + 2 => listed
               /\ Place > 1 => ~streaming
               /\ Place > 2 => cpc = "idle"
               /\ Place = Closing + 2 => empty = NumFrames
    BY <2>2 DEF HostInv, QuietInv
  <2>3. Place \in Nat
    BY Where, Numbers DEF HostInv, LastPlace
  <2>4. ASSUME call = "deinit", Place # 0
        PROVE  /\ Place <= Closing + 2 => listed'
               /\ Place > 1 => ~streaming'
               /\ Place > 2 => cpc' = "idle"
               /\ Place = Closing + 2 => empty' = NumFrames
    <3>1. Place > 2 => Place > 1
      BY <2>3
    <3>2. ASSUME Place = Closing + 2 PROVE Place > 2 /\ empty' = empty
      <4>1. Place > 2
        BY <3>2, Numbers
      <4>2. NumFrames \in Nat
        BY HostAssumption
      <4>3. QED
        BY <2>2, <2>4, <3>2, <4>1, <4>2
    <3>3. QED
      BY <2>2, <2>4, <3>1, <3>2
  <2>5. ASSUME call = "deinit", Place > 1, NEW S, "idle" \in S, Idle(S), "flight" \notin S
        PROVE  Idle(S)'
    BY <2>2, <2>5 DEF Idle
  <2>6. ASSUME call = "deinit", Place > 1, Idle({"idle", "flight"}), unplugs' = 0
        PROVE  Idle({"idle", "flight"})'
    BY <2>2, <2>6 DEF Idle
  <2>7. Idle({"idle", "failed"}) /\ asked' /\ answered' /\ (asked /\ answered => Idle({"idle"}))
        /\ call = "deinit" /\ Place > 1 => Idle({"idle"})'
    <3>1. CASE asked /\ answered
      BY <2>5, <3>1
    <3>2. CASE ~(asked /\ answered)
      BY <3>2 DEF Idle
    <3>3. QED
      BY <3>1, <3>2
  <2>8. call' = call /\ timedOut' = timedOut
    BY DEF SameCall
  <2>9. ASSUME call = "deinit", Place # 0
        PROVE  Isoc /\ 2 < Place /\ Place <= Closing + 2 => Idle({"idle"})'
    BY <2>3, <2>5, <2>9 DEF HostInv, QuietInv
  <2>10. ASSUME call = "deinit", Place # 0, ~Isoc, unplugs' = 0, ~timedOut
        PROVE  /\ Place = 3 => Idle({"idle", "flight"})'
               /\ Place = 4 => Idle({"idle", "failed"})' /\ (asked' /\ answered' => Idle({"idle"})')
               /\ Place \in 5 .. 7 => Idle({"idle"})'
    <3>1. /\ Place = 3 => Idle({"idle", "flight"})
          /\ Place = 4 => Idle({"idle", "failed"}) /\ (asked /\ answered => Idle({"idle"}))
          /\ Place \in 5 .. 7 => Idle({"idle"})
      BY <2>10 DEF HostInv, QuietInv
    <3>2. "idle" \in {"idle"} /\ "flight" \notin {"idle"}
          /\ "idle" \in {"idle", "failed"} /\ "flight" \notin {"idle", "failed"}
      OBVIOUS
    <3>3. CASE Place = 3
      BY <2>6, <2>10, <3>1, <3>3
    <3>4. CASE Place = 4
      BY <2>5, <2>7, <2>10, <3>1, <3>2, <3>4
    <3>5. CASE Place \in 5 .. 7
      BY <2>5, <2>10, <3>1, <3>2, <3>5
    <3>6. QED
      BY <2>3, <3>3, <3>4, <3>5
  <2>11. QED
    BY <1>0, <2>1, <2>4, <2>8, <2>9, <2>10 DEF QuietInv
<1>3. QED
  BY <1>0, <1>1, <1>2 DEF HostInv

(* ctrl_xfer_cb. *)
LEMMA CtrlDoneKeeps == HostInv /\ CtrlDone => HostInv'
<1> SUFFICES ASSUME HostInv, CtrlDone PROVE HostInv'
  OBVIOUS
<1> USE DEF CtrlDone, busVars, ownerVars, driverVars, streamVars, poolVars, clientVars
<1>1. SameCall /\ PlanInv
  BY DEF SameCall, HostInv
<1>2. CtrlInv'
  <2>1. status' \in {"ok", "error"}
    OBVIOUS
  <2>2. QED
    BY <1>1, <2>1, Standing DEF HostInv, CtrlInv
<1>3. PoolInv'
  BY <1>1, Standing DEF HostInv, PoolInv, Sum, InHand, StopGivesBack
<1>4. FeedInv'
  BY <1>1, Standing DEF HostInv, FeedInv
<1>5. QED
  <2>1. client \in {"none", "running", "leaving"} /\ unplugs \in Nat
    BY DEF HostInv, OwnerInv, FeedInv
  <2>2. QED
    BY <1>1, <1>2, <1>3, <1>4, <2>1, ClientKeeps

(* The frames of an open stream, added up. *)
LEMMA Counted ==
  ASSUME PoolInv, listed
  PROVE  /\ Sum <= NumFrames /\ NumFrames \in Nat /\ empty \in Nat
         /\ current => empty < NumFrames
         /\ latest => empty < NumFrames
         /\ InHand => empty < NumFrames
  BY HostAssumption DEF PoolInv, Sum, InHand, Count

(* uvc_host_stream_pause, from either task. *)
LEMMA Paused ==
  ASSUME HostInv, Pause, UNCHANGED <<latest, cpc, listed>>, overtaken' \in BOOLEAN,
         overtaken \/ cpc # "idle" => overtaken', listed /\ Stuck => Stuck'
  PROVE  /\ PoolInv' /\ streaming' = FALSE
         /\ empty' = empty \/ (listed /\ empty < NumFrames)
<1> USE DEF Pause
<1>1. CASE streaming /\ current
  <2>1. listed /\ empty < NumFrames /\ empty \in Nat /\ NumFrames \in Nat
    BY <1>1, Counted DEF HostInv, PoolInv
  <2>2. empty' = empty + 1 /\ ~current' /\ streaming' = FALSE
    BY <1>1
  <2>3. Sum' = Sum
    BY <1>1, <2>1, <2>2 DEF HostInv, PoolInv, Sum, InHand, Count
  <2>4. PoolInv'
    <3>1. empty' \in 0 .. NumFrames
      BY <2>1, <2>2
    <3>2. QED
      BY <2>1, <2>2, <2>3, <3>1 DEF HostInv, PoolInv, StopGivesBack
  <2>5. QED
    BY <2>1, <2>2, <2>4
<1>2. CASE ~(streaming /\ current)
  <2>1. empty' = empty /\ streaming' = FALSE
    BY <1>2
  <2>2. current \in BOOLEAN /\ streaming \in BOOLEAN
    BY DEF HostInv, PoolInv
  <2>3. current' = current
    BY <1>2, <2>2
  <2>4. Sum' = Sum
    BY <2>1, <2>3 DEF Sum, InHand, Count
  <2>5. PoolInv'
    BY <1>2, <2>1, <2>3, <2>4 DEF HostInv, PoolInv, StopGivesBack
  <2>6. QED
    BY <2>1, <2>5
<1>3. QED
  BY <1>1, <1>2

(* A transfer that goes round keeps the stream fed. *)
LEMMA Refed ==
  ASSUME HostInv, NEW u \in Urbs, Resubmitted(u), cpc' # "idle" => cur' \in Urbs,
         UNCHANGED <<plugged, dev, lost, unplugs, streaming, crash>>, Submitting' = Submitting
  PROVE  /\ FeedInv'
         /\ ~streaming => \A v \in Urbs : urbs'[v] \in {urbs[v], "idle"}
<1>1. \A v \in Urbs : urbs'[v] = IF v = u THEN IF streaming /\ dev = "live" THEN "flight" ELSE "idle"
                                 ELSE urbs[v]
  BY DEF HostInv, FeedInv, Resubmitted
<1>2. urbs' \in [Urbs -> {"none", "idle", "unsent", "flight", "failed"}]
  BY DEF HostInv, FeedInv, Resubmitted
<1>3. dev # "live" => \A v \in Urbs : urbs'[v] # "flight"
  BY <1>1 DEF HostInv, FeedInv
<1>4. streaming /\ dev = "live" => \E v \in Urbs : urbs'[v] \in {"flight", "failed"}
  BY <1>1
<1>5. QED
  BY <1>1, <1>2, <1>3, <1>4 DEF HostInv, FeedInv

(* A transfer that returns: uvc_isoc.c, uvc_bulk.c. *)
LEMMA TakeKeeps ==
  ASSUME HostInv, NEW u \in Urbs, Take(u)
  PROVE  HostInv'
<1> USE DEF callbackKeeps, callbackStays, busVars, ownerVars, driverVars, streamVars, poolVars
<1>0. /\ UNCHANGED callbackKeeps /\ UNCHANGED <<streamVars, poolVars, overtaken>> /\ Serving
      /\ IF streaming THEN cpc' = "packets" /\ cur' = u /\ UNCHANGED urbs
                      ELSE urbs' = [urbs EXCEPT ![u] = "idle"] /\ UNCHANGED <<cpc, cur>>
  BY DEF Take
<1>1. SameCall /\ PlanInv /\ Stuck' = Stuck /\ Submitting' = Submitting
  BY <1>0, Standing DEF SameCall, HostInv
<1>2. CtrlInv'
  BY <1>0, <1>1, ControlKept DEF HostInv
<1>3. cpc = "idle" /\ cpc' \in {"idle", "packets"} /\ (cpc' = "idle" \/ streaming)
  BY <1>0 DEF Serving
<1>4. PoolInv'
  <2>1. Sum' = Sum
    BY <1>0, <1>3 DEF Sum, InHand, Count
  <2>2. QED
    BY <1>0, <1>1, <1>3, <2>1 DEF HostInv, PoolInv, StopGivesBack
<1>5. FeedInv' /\ \A v \in Urbs : urbs'[v] \in {urbs[v], "idle"}
  <2>1. CASE streaming
    BY <1>0, <1>1, <2>1 DEF HostInv, FeedInv
  <2>2. CASE ~streaming
    <3>1. \A v \in Urbs : urbs'[v] = IF v = u THEN "idle" ELSE urbs[v]
      BY <1>0, <2>2 DEF HostInv, FeedInv
    <3>2. urbs' \in [Urbs -> {"none", "idle", "unsent", "flight", "failed"}]
      BY <1>0, <2>2 DEF HostInv, FeedInv
    <3>3. QED
      BY <1>0, <1>1, <2>2, <3>1, <3>2 DEF HostInv, FeedInv
  <2>3. QED
    BY <2>1, <2>2
<1>6. client \in {"none", "running", "leaving"} /\ unplugs \in Nat
      /\ UNCHANGED <<host, driver, client, listed, crash, dev, unplugs>>
  BY <1>0 DEF HostInv, OwnerInv, FeedInv
<1>7. UNCHANGED <<timedOut, asked, answered, empty, streaming>>
  BY <1>0 DEF ctrlVars
<1>8. QED
  BY <1>0, <1>1, <1>2, <1>3, <1>4, <1>5, <1>6, <1>7, ClientKeeps

(* What a callback does with the frames, whatever it finds in the transfer. *)
LEMMA ContentKeeps ==
  ASSUME HostInv, callbackStays' = callbackStays, crash' \in {crash, "assert"},
         UNCHANGED <<streaming, urbs, cur, overtaken>>, cpc # "idle", cpc' # "idle",
         cpc' \in {"packets", "filling", "deliver", "ending"},
         current' \in BOOLEAN, latest' \in BOOLEAN, empty' \in 0 .. NumFrames, Sum' = Sum,
         cpc' \in {"filling", "ending"} => ~current',
         listed => empty' = empty \/ empty < NumFrames \/ cpc # "idle"
  PROVE  HostInv'
<1> USE DEF callbackStays, busVars, ownerVars, driverVars
<1>0. listed
  BY DEF HostInv, PoolInv
<1>1. SameCall /\ PlanInv /\ Stuck' = Stuck /\ Submitting' = Submitting
  BY Standing DEF SameCall, HostInv
<1>2. CtrlInv'
  BY <1>1, ControlKept DEF HostInv
<1>3. PoolInv'
  BY <1>0, <1>1 DEF HostInv, PoolInv, StopGivesBack
<1>4. FeedInv'
  BY <1>1 DEF HostInv, FeedInv
<1>5. client \in {"none", "running", "leaving"} /\ unplugs \in Nat
  BY DEF HostInv, OwnerInv, FeedInv
<1>6. UNCHANGED <<timedOut, asked, answered, host, driver, client, listed, dev, unplugs>>
  BY DEF ctrlVars
<1>7. QED
  BY <1>0, <1>1, <1>2, <1>3, <1>4, <1>5, <1>6, ClientKeeps

(* A picture begins. *)
LEMMA BeginKeeps ==
  ASSUME HostInv, Begin
  PROVE  HostInv'
<1>1. /\ UNCHANGED <<callbackStays, crash, streaming, latest, urbs, cur, overtaken>>
      /\ cpc = "packets" /\ cpc' \in {"filling", "ending"} /\ current' = FALSE
      /\ \/ current = FALSE /\ empty' = empty /\ cpc' = "filling"
         \/ current = TRUE /\ empty' = empty /\ cpc' = "ending"
         \/ current = TRUE /\ empty' = empty + 1 /\ cpc' = "filling"
  <2>1. current \in BOOLEAN /\ empty \in Nat
    BY HostAssumption DEF HostInv, PoolInv
  <2>2. empty + Count(FALSE) = empty /\ empty + Count(TRUE) = empty + 1
    BY <2>1 DEF Count
  <2>3. QED
    BY <2>1, <2>2 DEF Begin, InPackets, NeedsFrame, callbackKeeps
<1>2. listed /\ empty \in Nat /\ NumFrames \in Nat /\ (current => empty < NumFrames)
      /\ empty \in 0 .. NumFrames /\ latest \in BOOLEAN
  BY <1>1, Counted DEF HostInv, PoolInv
<1>3. empty' \in 0 .. NumFrames
  BY <1>1, <1>2
<1>4. Sum' = Sum
  BY <1>1, <1>2 DEF Sum, InHand, Count
<1>5. QED
  BY <1>1, <1>2, <1>3, <1>4, ContentKeeps

(* A bulk callback resets its frame, or asserts. *)
LEMMA RestartKeeps ==
  ASSUME HostInv, Restart
  PROVE  HostInv'
<1> USE DEF streamVars, poolVars, clientVars
<1>1. /\ UNCHANGED <<callbackStays, streaming, current, latest, empty, urbs, cpc, cur, overtaken>>
      /\ cpc = "packets" /\ crash' \in {crash, "assert"}
  BY DEF Restart, InPackets
<1>2. empty \in 0 .. NumFrames /\ current \in BOOLEAN /\ latest \in BOOLEAN
  BY DEF HostInv, PoolInv
<1>3. Sum' = Sum
  BY <1>1 DEF Sum, InHand
<1>4. QED
  BY <1>1, <1>2, <1>3, ContentKeeps

(* The frame for it is stored. *)
LEMMA FillKeeps ==
  ASSUME HostInv, Fill
  PROVE  HostInv'
<1>1. /\ UNCHANGED <<callbackStays, crash, streaming, latest, urbs, cur, overtaken>>
      /\ cpc = "filling" /\ cpc' = "packets"
      /\ IF empty > 0 THEN current' = TRUE /\ empty' = empty - 1
                      ELSE UNCHANGED <<current, empty>>
  BY DEF Fill, callbackKeeps
<1>2. empty \in 0 .. NumFrames /\ empty \in Nat /\ NumFrames \in Nat /\ current = FALSE
      /\ latest \in BOOLEAN
  BY <1>1, HostAssumption DEF HostInv, PoolInv
<1>3. empty' \in 0 .. NumFrames /\ current' \in BOOLEAN
  <2>1. CASE empty > 0
    BY <1>1, <1>2, <2>1
  <2>2. CASE ~(empty > 0)
    <3>1. empty' = empty /\ current' = current
      BY <1>1, <2>2
    <3>2. QED
      BY <1>2, <3>1
  <2>3. QED
    BY <2>1, <2>2
<1>4. Sum' = Sum
  BY <1>1, <1>2 DEF Sum, InHand, Count
<1>5. QED
  BY <1>1, <1>2, <1>3, <1>4, ContentKeeps

(* A picture ends. *)
LEMMA EndKeeps ==
  ASSUME HostInv, End
  PROVE  HostInv'
<1>1. /\ UNCHANGED <<callbackStays, crash, streaming, latest, urbs, cur, overtaken>>
      /\ cpc = "packets" /\ current = TRUE /\ current' = FALSE
      /\ \/ cpc' = "deliver" /\ empty' = empty
         \/ cpc' = "packets" /\ empty' = empty + 1
  <2>1. current \in BOOLEAN
    BY DEF HostInv, PoolInv
  <2>2. QED
    BY <2>1 DEF End, InPackets, callbackKeeps
<1>2. listed /\ empty \in Nat /\ NumFrames \in Nat /\ empty < NumFrames /\ latest \in BOOLEAN
  BY <1>1, Counted DEF HostInv, PoolInv
<1>3. empty' \in 0 .. NumFrames
  BY <1>1, <1>2
<1>4. Sum' = Sum
  BY <1>1, <1>2 DEF Sum, InHand, Count
<1>5. QED
  BY <1>1, <1>2, <1>3, <1>4, ContentKeeps

(* frame_callback. *)
LEMMA DeliverKeeps ==
  ASSUME HostInv, Deliver
  PROVE  HostInv'
<1> USE DEF streamVars
<1>1. /\ UNCHANGED <<callbackStays, crash, streaming, current, urbs, cur, overtaken>>
      /\ \/ cpc = "deliver" /\ cpc' = "packets"
         \/ cpc = "ending" /\ cpc' = "filling"
      /\ latest' = TRUE /\ empty' = empty + Count(latest)
  BY DEF Deliver, InHand, callbackKeeps
<1>2. listed /\ empty \in Nat /\ NumFrames \in Nat /\ empty < NumFrames /\ latest \in BOOLEAN
      /\ current \in BOOLEAN /\ (cpc = "ending" => ~current)
  BY <1>1, Counted DEF HostInv, PoolInv, InHand
<1>3. empty' \in 0 .. NumFrames
  BY <1>1, <1>2 DEF Count
<1>4. Sum' = Sum
  BY <1>1, <1>2 DEF Sum, InHand, Count
<1>5. QED
  BY <1>1, <1>2, <1>3, <1>4, ContentKeeps

(* The end of a callback. *)
LEMMA OverKeeps ==
  ASSUME HostInv, Over
  PROVE  HostInv'
<1> USE DEF callbackKeeps, callbackStays, busVars, ownerVars, driverVars, streamVars, poolVars
<1>0. /\ UNCHANGED callbackKeeps /\ UNCHANGED <<streamVars, poolVars, overtaken>>
      /\ cpc = "packets" /\ cpc' = "idle" /\ Resubmitted(cur) /\ cur \in Urbs
  BY DEF Over, InPackets, HostInv, FeedInv
<1>1. SameCall /\ PlanInv /\ Stuck' = Stuck /\ Submitting' = Submitting
  BY <1>0, Standing DEF SameCall, HostInv
<1>2. CtrlInv'
  BY <1>0, <1>1, ControlKept DEF HostInv
<1>3. PoolInv'
  <2>1. Sum' = Sum
    BY <1>0 DEF Sum, InHand, Count
  <2>2. QED
    BY <1>0, <1>1, <2>1 DEF HostInv, PoolInv, StopGivesBack
<1>4. UNCHANGED <<plugged, dev, lost, unplugs, streaming, crash>>
  BY <1>0
<1>5. FeedInv' /\ (~streaming => \A v \in Urbs : urbs'[v] \in {urbs[v], "idle"})
  BY <1>0, <1>1, <1>4, Refed
<1>6. client \in {"none", "running", "leaving"} /\ unplugs \in Nat
      /\ UNCHANGED <<host, driver, client, listed, crash, dev, unplugs>>
  BY <1>0 DEF HostInv, OwnerInv, FeedInv
<1>7. UNCHANGED <<timedOut, asked, answered, empty>>
  BY <1>0 DEF ctrlVars
<1>8. QED
  BY <1>0, <1>1, <1>2, <1>3, <1>5, <1>6, <1>7, ClientKeeps

(* A transfer that was retired, or failed. *)
LEMMA FailedKeeps ==
  ASSUME HostInv, NEW u \in Urbs, Failed(u) \/ Errored(u)
  PROVE  HostInv'
<1> USE DEF callbackKeeps, callbackStays, busVars, ownerVars, driverVars, clientVars
<1>0. /\ Pause /\ urbs' = [urbs EXCEPT ![u] = "idle"] /\ cpc = "idle"
      /\ UNCHANGED <<callbackKeeps, latest, clientVars>>
  BY DEF Failed, Errored, Serving
<1>1. SameCall /\ PlanInv /\ Stuck' = Stuck /\ Submitting' = Submitting
  BY <1>0, Standing DEF SameCall, HostInv
<1>2. CtrlInv'
  BY <1>0, <1>1, ControlKept DEF HostInv
<1>3. PoolInv' /\ streaming' = FALSE
      /\ (empty' = empty \/ (listed /\ empty < NumFrames))
  <2>1. overtaken' \in BOOLEAN /\ (overtaken \/ cpc # "idle" => overtaken')
    BY <1>0 DEF HostInv, PoolInv
  <2>2. QED
    BY <1>0, <1>1, <2>1, Paused
<1>4. /\ FeedInv'
      /\ \A v \in Urbs : urbs'[v] \in {urbs[v], "idle"}
  BY <1>0, <1>1, <1>3 DEF HostInv, FeedInv
<1>5. client \in {"none", "running", "leaving"} /\ unplugs \in Nat
  BY DEF HostInv, OwnerInv, FeedInv
<1>6. UNCHANGED <<timedOut, asked, answered>>
  BY <1>0 DEF ctrlVars
<1>7. QED
  BY <1>0, <1>1, <1>2, <1>3, <1>4, <1>5, <1>6, ClientKeeps

(* The event that the device has gone. *)
LEMMA GoneKeeps ==
  ASSUME HostInv, Gone
  PROVE  HostInv'
<1> USE DEF Gone, ownerVars, driverVars, clientVars, streamVars
<1>1. SameCall /\ PlanInv /\ Stuck' = Stuck /\ Submitting' = Submitting
  BY Standing DEF SameCall, HostInv
<1>2. CtrlInv'
  BY <1>1, ControlKept DEF HostInv
<1>3. PoolInv' /\ streaming' = FALSE
      /\ (empty' = empty \/ (listed /\ empty < NumFrames))
  <2>1. CASE listed
    <3>1. overtaken' \in BOOLEAN /\ (overtaken \/ cpc # "idle" => overtaken')
      BY DEF HostInv, PoolInv, Serving
    <3>2. QED
      BY <1>1, <2>1, <3>1, Paused
  <2>2. CASE ~listed
    BY <1>1, <2>2 DEF HostInv, PoolInv, Sum, InHand, StopGivesBack
  <2>3. QED
    BY <2>1, <2>2
<1>4. FeedInv'
  BY <1>1, <1>3 DEF HostInv, FeedInv
<1>5. client \in {"none", "running", "leaving"} /\ unplugs \in Nat
  BY DEF HostInv, OwnerInv, FeedInv
<1>6. UNCHANGED <<timedOut, asked, answered>>
  BY DEF ctrlVars
<1>7. QED
  BY <1>1, <1>2, <1>3, <1>4, <1>5, <1>6, ClientKeeps

(* The end of the client task. *)
LEMMA TeardownKeeps ==
  ASSUME HostInv, Teardown
  PROVE  HostInv'
<1> USE DEF Teardown, busVars, ownerVars, driverVars, clientVars, streamVars, poolVars
<1>1. SameCall /\ PlanInv /\ Stuck' = Stuck /\ Submitting' = Submitting
  BY Standing DEF SameCall, HostInv
<1>2. CtrlInv'
  BY <1>1, ControlKept DEF HostInv
<1>3. PoolInv'
  BY <1>1 DEF HostInv, PoolInv, Sum, InHand, StopGivesBack
<1>4. FeedInv'
  BY <1>1 DEF HostInv, FeedInv
<1>5. unplugs \in Nat
  BY DEF HostInv, FeedInv
<1>6. UNCHANGED <<timedOut, asked, answered>>
  BY DEF ctrlVars
<1>7. QED
  BY <1>1, <1>2, <1>3, <1>4, <1>5, <1>6, ClientKeeps

(* The device is pulled out. *)
LEMMA UnplugKeeps ==
  ASSUME HostInv, Unplug
  PROVE  HostInv'
<1> USE DEF Unplug, ownerVars, driverVars, clientVars, streamVars, poolVars
<1>1. SameCall /\ PlanInv /\ Stuck' = Stuck /\ Submitting' = Submitting
  BY Standing DEF SameCall, HostInv
<1>2. CtrlInv'
  BY <1>1, ControlKept DEF HostInv
<1>3. PoolInv'
  BY <1>1 DEF HostInv, PoolInv, Sum, InHand, StopGivesBack
<1>4. unplugs \in Nat /\ unplugs' \in Nat /\ unplugs' > 0 /\ unplugs' = unplugs + 1
  BY DEF HostInv, FeedInv
<1>5. FeedInv' /\ (dev' = dev \/ (dev = "live" /\ dev' = "gone"))
      /\ \A v \in Urbs : urbs'[v] = urbs[v] \/ urbs[v] = "flight"
  <2>1. CASE dev = "live"
    <3>1. \A v \in Urbs : urbs'[v] = IF urbs[v] = "flight" THEN "failed" ELSE urbs[v]
      BY <2>1
    <3>2. urbs' \in [Urbs -> {"none", "idle", "unsent", "flight", "failed"}]
      BY <2>1 DEF HostInv, FeedInv
    <3>3. lost' = TRUE /\ dev' = "gone"
      BY <2>1
    <3>4. plugged' \in BOOLEAN /\ lost' \in BOOLEAN
      BY <3>3
    <3>5. dev' # "live" => \A v \in Urbs : urbs'[v] # "flight"
      BY <3>1
    <3>6. cpc' # "idle" => cur' \in Urbs
      BY DEF HostInv, FeedInv
    <3>7. QED
      BY <1>4, <2>1, <3>1, <3>2, <3>3, <3>4, <3>5, <3>6 DEF FeedInv
  <2>2. CASE dev # "live"
    <3>1. UNCHANGED <<dev, lost, urbs>>
      BY <2>2
    <3>2. plugged' \in BOOLEAN
      OBVIOUS
    <3>3. QED
      BY <1>1, <1>4, <3>1, <3>2 DEF HostInv, FeedInv
  <2>3. QED
    BY <2>1, <2>2
<1>6. client \in {"none", "running", "leaving"} /\ unplugs' > 0 /\ unplugs' >= unplugs /\ unplugs' # 0
  BY <1>4 DEF HostInv, OwnerInv, FeedInv
<1>7. UNCHANGED <<timedOut, asked, answered>>
  BY DEF ctrlVars
<1>8. QED
  BY <1>1, <1>2, <1>3, <1>4, <1>5, <1>6, <1>7, ClientKeeps

(* A device is put in. *)
LEMMA ReplugKeeps ==
  ASSUME HostInv, Replug
  PROVE  HostInv'
<1> USE DEF Replug, ownerVars, driverVars, clientVars, streamVars, poolVars
<1>1. SameCall /\ PlanInv /\ Stuck' = Stuck /\ Submitting' = Submitting
  BY Standing DEF SameCall, HostInv
<1>2. CtrlInv'
  BY <1>1, ControlKept DEF HostInv
<1>3. PoolInv'
  BY <1>1 DEF HostInv, PoolInv, Sum, InHand, StopGivesBack
<1>4. FeedInv'
  BY <1>1 DEF HostInv, FeedInv
<1>5. unplugs \in Nat /\ client \in {"none", "running", "leaving"}
  BY DEF HostInv, OwnerInv, FeedInv
<1>6. UNCHANGED <<timedOut, asked, answered>>
  BY DEF ctrlVars
<1>7. QED
  BY <1>1, <1>2, <1>3, <1>4, <1>5, <1>6, ClientKeeps

(* uvc_capture_one_frame. *)
LEMMA CaptureKeeps ==
  ASSUME HostInv, Capture
  PROVE  HostInv'
<1> USE DEF Capture, TakeLatest, busVars, ownerVars, driverVars, clientVars, streamVars
<1>1. SameCall /\ PlanInv /\ Stuck' = Stuck /\ Submitting' = Submitting
  BY Standing DEF SameCall, HostInv
<1>2. CtrlInv'
  BY <1>1, ControlKept DEF HostInv
<1>3. listed /\ empty < NumFrames /\ empty \in Nat /\ NumFrames \in Nat /\ empty' = empty + 1
  BY Counted DEF HostInv, PoolInv
<1>4. PoolInv'
  <2>1. Sum' = Sum
    BY <1>3 DEF Sum, InHand, Count
  <2>2. empty' \in 0 .. NumFrames
    BY <1>3
  <2>3. QED
    BY <1>1, <1>3, <2>1, <2>2 DEF HostInv, PoolInv, StopGivesBack
<1>5. FeedInv'
  BY <1>1 DEF HostInv, FeedInv
<1>6. unplugs \in Nat /\ client \in {"none", "running", "leaving"}
  BY DEF HostInv, OwnerInv, FeedInv
<1>7. UNCHANGED <<timedOut, asked, answered>>
  BY DEF ctrlVars
<1>8. QED
  BY <1>1, <1>2, <1>3, <1>4, <1>5, <1>6, <1>7, ClientKeeps

-----------------------------------------------------------------------------
(* The owner's task.                                                       *)

(* Steps that do not touch the frames, the transfers, the request. *)
LEMMA PoolSame ==
  ASSUME PoolInv, UNCHANGED <<listed, poolVars, streamVars, cpc, overtaken>>,
         listed /\ Stuck => Stuck'
  PROVE  PoolInv'
  BY DEF PoolInv, Sum, InHand, StopGivesBack, poolVars, streamVars

LEMMA FeedSame ==
  ASSUME FeedInv, UNCHANGED <<plugged, dev, lost, unplugs, streaming, urbs, cpc, cur, crash>>,
         streaming /\ Submitting => Submitting'
  PROVE  FeedInv'
  BY DEF FeedInv

LEMMA ControlIdle ==
  ASSUME CtrlInv, UNCHANGED ctrlVars, ~asked
  PROVE  CtrlInv'
  BY DEF CtrlInv, ctrlVars

(* Outside a deinit QuietInv is about the crash alone. *)
LEMMA QuietElse ==
  ASSUME QuietInv, call' # "deinit" \/ Place' = 0, UNCHANGED <<kind, crash, unplugs, timedOut>>
  PROVE  QuietInv'
  BY DEF QuietInv, NoAbort

(* Where the call is when its next step is one of the steps given. *)
LEMMA Poised ==
  ASSUME HostInv, todo # <<>>
  PROVE  /\ PlanInv /\ Place \in 1 .. LastPlace /\ call \in {"init", "deinit"}
         /\ Head(todo) \notin Requests => ~asked
         /\ Stuck => Place = 1
         /\ Submitting => Head(todo) = "submit"
<1>1. PlanInv /\ Place \in 1 .. LastPlace /\ call \in {"init", "deinit"}
  BY Where, Numbers DEF HostInv, LastPlace
<1>2. Head(todo) \notin Requests => ~asked
  BY DEF HostInv, CtrlInv
<1>3. Stuck => Place = 1
  BY <1>1, Numbers DEF Stuck, LastPlace
<1>4. Submitting => Head(todo) = "submit"
  BY <1>1, Spots DEF Submitting
<1>5. QED
  BY <1>1, <1>2, <1>3, <1>4

(* Continue and Leave, with the numbers of the places. *)
LEMMA Advance ==
  ASSUME HostInv, UNCHANGED <<kind, call>>, todo # <<>>, Continue
  PROVE  /\ PlanInv' /\ Place' = IF Place = LastPlace THEN 0 ELSE Place + 1
         /\ Isoc' = Isoc /\ Listing' = Listing /\ Unpausing' = Unpausing /\ Closing' = Closing
  BY Continues, SameKind DEF HostInv

LEMMA Depart ==
  ASSUME HostInv, UNCHANGED <<kind, call>>, Leave
  PROVE  /\ PlanInv' /\ Place' = 0
         /\ Isoc' = Isoc /\ Listing' = Listing /\ Unpausing' = Unpausing /\ Closing' = Closing
  BY Leaves, SameKind DEF HostInv

(* An init that fails before the stream is fed. *)
LEMMA GivenUp ==
  ASSUME HostInv, todo # <<>>, call = "init", Place > 2, Place < Unpausing, GiveUp,
         UNCHANGED <<kind, plugged, unplugs, call, initialized, host, inits, driverVars,
                     streamVars, latest, clientVars>>,
         crash = "none", crash' \in {"none", "heap"}
  PROVE  /\ PlanInv' /\ Place' = 0 /\ OwnerInv' /\ PoolInv' /\ FeedInv' /\ QuietInv'
<1> USE DEF driverVars, clientVars, streamVars
<1>1. /\ PlanInv' /\ Place' = 0
      /\ Isoc' = Isoc /\ Listing' = Listing /\ Unpausing' = Unpausing /\ Closing' = Closing
  BY Depart DEF GiveUp
<1>2. Place \in Nat /\ ~Stuck /\ ~Submitting /\ ~Submitting' /\ ~initialized
  BY <1>1, Poised, Numbers DEF HostInv, OwnerInv, LastPlace, Submitting
<1>3. CASE listed
  <2>1. UNCHANGED <<urbs, empty, dev, lost>>
    BY <1>3 DEF GiveUp
  <2>2. OwnerInv'
    BY <1>1, <1>2, <2>1 DEF HostInv, OwnerInv
  <2>3. PoolInv'
    BY <1>2, <2>1 DEF HostInv, PoolInv, Sum, InHand, StopGivesBack
  <2>4. FeedInv'
    BY <1>2, <2>1 DEF HostInv, FeedInv
  <2>5. QuietInv'
    BY <1>1 DEF QuietInv, NoAbort
  <2>6. QED
    BY <1>1, <2>2, <2>3, <2>4, <2>5
<1>4. CASE ~listed
  <2>1. /\ urbs' = [u \in Urbs |-> "none"] /\ empty' = 0
        /\ dev' = "none" /\ lost' = FALSE
    BY <1>4 DEF GiveUp, Remove
  <2>2. OwnerInv'
    BY <1>1, <1>2, <1>4, <2>1 DEF HostInv, OwnerInv
  <2>3. PoolInv'
    BY <1>4, <2>1, HostAssumption DEF HostInv, PoolInv, StopGivesBack
  <2>4. ~streaming'
    BY <1>4 DEF HostInv, PoolInv
  <2>5. lost' \in BOOLEAN
    BY <2>1
  <2>6. FeedInv'
    BY <2>1, <2>4, <2>5 DEF HostInv, FeedInv
  <2>7. QuietInv'
    BY <1>1 DEF QuietInv, NoAbort
  <2>8. QED
    BY <1>1, <2>2, <2>3, <2>6, <2>7
<1>5. QED
  BY <1>3, <1>4

(* The end of a request. *)
LEMMA RequestKeeps ==
  ASSUME HostInv, AtRequest, NEW ok \in BOOLEAN, RequestOver(ok),
         UNCHANGED <<kind, plugged, unplugs, call, initialized, host, inits, driverVars,
                     streamVars, latest, clientVars, crash>>,
         call = "deinit" /\ unplugs = 0 /\ ~timedOut' =>
           ~timedOut /\ ((asked /\ answered) \/ dev = "gone")
  PROVE  /\ PlanInv' /\ OwnerInv' /\ PoolInv' /\ FeedInv' /\ QuietInv'
<1> USE DEF driverVars, clientVars, streamVars
<1>1. /\ todo # <<>> /\ Head(todo) \in Requests /\ crash = "none"
      /\ Place \in 1 .. LastPlace /\ Place \in Nat /\ PlanInv /\ ~Submitting
      /\ call \in {"init", "deinit"}
  BY Poised, Numbers DEF AtRequest, Requests, LastPlace
<1>2. \/ call = "init" /\ 4 < Place /\ Place <= Listing - 3
      \/ call = "init" /\ Listing < Place /\ Place < Unpausing
      \/ call = "deinit" /\ Place = Closing - 1 /\ Head(todo) = "may"
  BY <1>1, Spots
<1>3. CASE call = "init" /\ GiveUp
  <2>1. Place > 2 /\ Place < Unpausing
    BY <1>1, <1>2, <1>3, Numbers
  <2>2. crash' \in {"none", "heap"}
    BY <1>1
  <2>3. QED
    BY <1>1, <1>3, <2>1, <2>2, GivenUp
<1>4. CASE Continue /\ UNCHANGED <<urbs, empty, dev, lost>>
  <2>1. /\ PlanInv' /\ Place' = IF Place = LastPlace THEN 0 ELSE Place + 1
        /\ Isoc' = Isoc /\ Listing' = Listing /\ Unpausing' = Unpausing /\ Closing' = Closing
    BY <1>1, <1>4, Advance
  <2>2. Place # LastPlace /\ Place > 1
    BY <1>1, <1>2, Numbers DEF LastPlace
  <2>3. Place' = Place + 1 /\ ~Stuck
    BY <2>1, <2>2 DEF Stuck
  <2>4. PoolInv'
    BY <1>4, <2>3, PoolSame DEF HostInv, poolVars
  <2>5. FeedInv'
    BY <1>1, <1>4, FeedSame DEF HostInv
  <2>6. CASE call = "init"
    <3>1. OwnerInv'
      <4>1. /\ Place > 3 /\ Place + 1 # Listing /\ (Place > Listing <=> Place + 1 > Listing)
            /\ Place <= Unpausing /\ Place + 1 <= Unpausing + 2
        BY <1>1, <1>2, <2>6, Numbers
      <4>2. host /\ (listed <=> Place > Listing) /\ driver /\ dev # "none" /\ ~initialized
        BY <1>1, <2>6, <4>1, Numbers DEF HostInv, OwnerInv
      <4>3. QED
        BY <1>1, <1>4, <2>1, <2>3, <2>6, <4>1, <4>2, Numbers DEF HostInv, OwnerInv
    <3>2. QuietInv'
      BY <1>1, <2>6 DEF HostInv, QuietInv, NoAbort
    <3>3. QED
      BY <2>1, <2>4, <2>5, <3>1, <3>2
  <2>7. CASE call = "deinit"
    <3>1. Place = Closing - 1 /\ Place' = Closing
      BY <1>1, <1>2, <2>3, <2>7, Numbers
    <3>2. OwnerInv'
      BY <1>1, <1>4, <2>3, <2>7 DEF HostInv, OwnerInv
    <3>3. QuietInv'
      <4>1. /\ Place <= Closing + 2 /\ Place > 1 /\ Place > 2
            /\ Place' <= Closing + 2 /\ Place' > 1 /\ Place' > 2 /\ Place' # Closing + 2
        BY <3>1, Numbers
      <4>2. listed' /\ ~streaming' /\ cpc' = "idle"
        BY <1>1, <2>7, <4>1 DEF HostInv, QuietInv
      <4>3. Isoc => Idle({"idle"})'
        BY <1>1, <1>4, <2>7, <4>1 DEF HostInv, QuietInv, Idle
      <4>4. ASSUME ~Isoc, unplugs = 0, ~timedOut'
            PROVE  Place' = 5 /\ Idle({"idle"})'
        <5>1. Place = 4 /\ Place' = 5
          BY <3>1, <4>4, Numbers
        <5>2. dev # "gone"
          BY <4>4 DEF HostInv, FeedInv
        <5>3. ~timedOut /\ asked /\ answered
          BY <2>7, <4>4, <5>2
        <5>4. Idle({"idle"})
          BY <1>1, <2>7, <4>4, <5>1, <5>3 DEF HostInv, QuietInv
        <5>5. QED
          BY <1>4, <5>1, <5>4 DEF Idle
      <4>5. crash' = "none" /\ call' = "deinit" /\ unplugs' = unplugs
        BY <1>1, <2>7
      <4>6. QED
        BY <2>1, <4>1, <4>2, <4>3, <4>4, <4>5 DEF QuietInv, NoAbort
    <3>4. QED
      BY <2>1, <2>4, <2>5, <3>2, <3>3
  <2>8. QED
    BY <1>1, <2>6, <2>7
<1>5. call = "deinit" => Head(todo) # "must"
  BY <1>2
<1>6. QED
  BY <1>1, <1>3, <1>4, <1>5 DEF RequestOver

(* A request, from its submission to its end. *)
LEMMA RequestInv ==
  ASSUME HostInv, Request
  PROVE  HostInv'
<1> USE DEF driverVars, clientVars, streamVars
<1>1. /\ todo # <<>> /\ Head(todo) \in Requests /\ crash = "none" /\ AtRequest
      /\ PlanInv /\ Place # 0 /\ call \in {"init", "deinit"}
  <2>1. AtRequest
    BY DEF Request, Submit, Answer, Timeout
  <2>2. todo # <<>> /\ Head(todo) \in Requests /\ crash = "none"
    BY <2>1 DEF AtRequest, Requests
  <2>3. Place # 0
    BY <2>2, Poised, Numbers DEF LastPlace
  <2>4. QED
    BY <2>1, <2>2, <2>3, Poised
<1>2. UNCHANGED <<kind, plugged, unplugs, call, initialized, host, inits, driverVars,
                  streamVars, latest, clientVars, crash>>
  BY DEF Request, Submit, Answer, Timeout
<1>3. ASSUME Submit, dev = "live", ~ctrl,
             ctrl' = TRUE, asked' = TRUE, answered' = FALSE,
             UNCHANGED <<todo, noted, urbs, empty, dev, lost>>
      PROVE  HostInv'
  <2>1. SameCall /\ UNCHANGED <<status, done, borrowed, timedOut>> /\ ~asked
    BY <1>2, <1>3 DEF SameCall, Submit
  <2>2. /\ PlanInv' /\ Place' = Place /\ Head(todo)' = Head(todo)
        /\ Stuck' = Stuck /\ Submitting' = Submitting
        /\ Isoc' = Isoc /\ Listing' = Listing /\ Unpausing' = Unpausing /\ Closing' = Closing
    BY <1>1, <2>1, Standing
  <2>3. CtrlInv'
    BY <1>1, <1>3, <2>1, <2>2 DEF HostInv, CtrlInv
  <2>4. OwnerInv'
    BY <1>2, <1>3, <2>1, <2>2 DEF HostInv, OwnerInv
  <2>5. PoolInv'
    BY <1>2, <1>3, <2>2, PoolSame DEF HostInv, poolVars
  <2>6. FeedInv'
    BY <1>2, <1>3, <2>2, FeedSame DEF HostInv
  <2>7. QuietInv'
    <3>1. \A S : Idle(S)' = Idle(S)
      BY <1>3 DEF Idle
    <3>2. QED
      BY <1>2, <1>3, <2>1, <2>2, <3>1 DEF HostInv, QuietInv, NoAbort
  <2>8. QED
    BY <2>2, <2>3, <2>4, <2>5, <2>6, <2>7 DEF HostInv
<1>4. ASSUME Submit, dev # "live" \/ ctrl, RequestOver(FALSE), UNCHANGED <<ctrl, answered>>
      PROVE  HostInv'
  <2>1. UNCHANGED <<status, done, borrowed, timedOut>> /\ ~asked /\ asked' = FALSE
        /\ noted' \in BOOLEAN
    BY <1>4 DEF Submit, RequestOver
  <2>2. CtrlInv'
    BY <1>4, <2>1 DEF HostInv, CtrlInv
  <2>3. Place \in Nat /\ (Place <= Closing + 2 \/ call = "init")
    BY <1>1, Spots, Where, Numbers DEF LastPlace
  <2>4. listed /\ ~timedOut => dev = "gone"
    BY <1>4, <2>1 DEF HostInv, CtrlInv, OwnerInv, FeedInv
  <2>5. call = "deinit" => listed
    BY <1>1, <2>3 DEF HostInv, QuietInv
  <2>6. QED
    BY <1>1, <1>2, <1>4, <2>1, <2>2, <2>4, <2>5, RequestKeeps DEF HostInv
<1>5. ASSUME Answer PROVE HostInv'
  <2>1. /\ asked /\ done /\ RequestOver(status = "ok") /\ done' = FALSE /\ asked' = FALSE
        /\ borrowed' = (borrowed \/ ~answered) /\ noted' \in BOOLEAN
        /\ UNCHANGED <<ctrl, status, answered, timedOut>>
    BY <1>5 DEF Answer, RequestOver
  <2>2. CtrlInv'
    BY <2>1 DEF HostInv, CtrlInv
  <2>3. ~timedOut => asked /\ answered
    BY <2>1 DEF HostInv, CtrlInv
  <2>4. QED
    BY <1>1, <1>2, <2>1, <2>2, <2>3, RequestKeeps DEF HostInv
<1>6. ASSUME Timeout PROVE HostInv'
  <2>1. /\ RequestOver(FALSE) /\ asked' = FALSE /\ timedOut' = TRUE /\ noted' \in BOOLEAN
        /\ UNCHANGED <<ctrl, status, done, answered, borrowed>>
    BY <1>6 DEF Timeout, RequestOver
  <2>2. CtrlInv'
    BY <2>1 DEF HostInv, CtrlInv
  <2>3. QED
    BY <1>1, <1>2, <2>1, <2>2, RequestKeeps DEF HostInv
<1>7. QED
  BY <1>3, <1>4, <1>5, <1>6 DEF Request, Submit

(* uvc_capture_init, step by step: the two formats agree or not. *)
LEMMA CompareKeeps ==
  ASSUME HostInv, Compare
  PROVE  HostInv'
<1> USE DEF Compare, busVars, driverVars, streamVars, clientVars
<1>1. /\ At("equal") /\ todo # <<>> /\ Head(todo) = "equal" /\ PlanInv
      /\ call = "init" /\ Place = Listing + 8 /\ ~asked /\ Place \in Nat
      /\ Len(todo) \in Nat /\ Len(todo) > 8
  <2>1. todo # <<>> /\ Head(todo) = "equal" /\ PlanInv
    BY DEF At, HostInv
  <2>2. call = "init" /\ Place = Listing + 8 /\ ~asked
    BY <2>1, Spots, Poised DEF Requests
  <2>3. Len(todo) = LastPlace - Place + 1
    BY <2>1, Where
  <2>4. QED
    BY <2>1, <2>2, <2>3, Numbers DEF LastPlace
<1>2. UNCHANGED <<kind, call>>
  OBVIOUS
<1>3. PlanInv' /\ Place' \in {Listing + 9, Listing + 16}
  <2>1. CASE Continue
    <3>1. PlanInv' /\ Place' = IF Place = LastPlace THEN 0 ELSE Place + 1
      BY <1>1, <1>2, <2>1, Advance
    <3>2. QED
      BY <1>1, <3>1, Numbers DEF LastPlace
  <2>2. CASE todo' = SubSeq(todo, Len(Round) + 2, Len(todo))
    <3>1. todo' = SubSeq(todo, 9, Len(todo))
      BY <2>2, RoundTable
    <3>2. todo \in Seq(Names) /\ 9 \in 1 .. Len(todo) + 1
      BY <1>1 DEF PlanInv
    <3>3. /\ todo' \in Seq(Names) /\ Len(todo') = Len(todo) - 8
          /\ \A i \in 1 .. Len(todo) - 8 : todo'[i] = todo[i + 8]
      <4>1. todo' \in Seq(Names)
        BY <3>1, <3>2
      <4>2. Len(todo') = Len(todo) - 9 + 1
        BY <1>1, <3>1, <3>2
      <4>3. \A i \in 1 .. Len(todo) - 8 : todo'[i] = todo[9 + i - 1]
        BY <1>1, <3>1, <3>2
      <4>4. \A i \in 1 .. Len(todo) - 8 : 9 + i - 1 = i + 8
        BY <1>1
      <4>5. QED
        BY <1>1, <4>1, <4>2, <4>3, <4>4
    <3>4. 8 \in Nat /\ 8 <= Len(todo) /\ 8 # Len(todo)
      <4>1. \A n \in Nat : n > 8 => 8 \in Nat /\ 8 <= n /\ 8 # n
        OBVIOUS
      <4>2. QED
        BY <1>1, <4>1
    <3>5. PlanInv' /\ Place' = IF 8 = Len(todo) THEN 0 ELSE Place + 8
      BY <1>1, <1>2, <3>3, <3>4, Moved
    <3>6. Place + 8 = Listing + 16
      BY <1>1, Numbers
    <3>7. QED
      BY <3>4, <3>5, <3>6
  <2>3. QED
    BY <2>1, <2>2
<1>4. Isoc' = Isoc /\ Listing' = Listing /\ Unpausing' = Unpausing /\ Closing' = Closing
  BY <1>2, SameKind
<1>5. /\ Place > Listing /\ Place <= Unpausing /\ Place > 3 /\ Place' # 0
      /\ Place' > Listing /\ Place' <= Unpausing /\ Place' > 3 /\ ~Submitting
  BY <1>1, <1>3, Numbers DEF Submitting
<1>6. ~Stuck
  BY <1>5 DEF Stuck
<1>7. CtrlInv' /\ PoolInv' /\ FeedInv' /\ QuietInv'
  <2>1. QuietInv'
    BY <1>1, QuietElse DEF HostInv, ctrlVars
  <2>2. QED
    BY <1>1, <1>5, <1>6, <2>1, ControlIdle, PoolSame, FeedSame DEF HostInv
<1>8. OwnerInv'
  <2>1. host /\ listed /\ driver /\ dev # "none" /\ ~initialized
    BY <1>1, <1>5, Numbers DEF HostInv, OwnerInv
  <2>2. Place' > 1 /\ Place' > 2 /\ Place' # Listing /\ ~(Place' > Unpausing + 2)
    BY <1>3, Numbers
  <2>3. QED
    BY <1>1, <1>4, <1>5, <2>1, <2>2 DEF HostInv, OwnerInv
<1>9. QED
  BY <1>3, <1>7, <1>8 DEF HostInv

(* The call itself. *)
LEMMA CallInitKeeps ==
  ASSUME HostInv, CallInit
  PROVE  HostInv'
<1> USE DEF CallInit, busVars, driverVars, streamVars, clientVars
<1>1. Place = 0 /\ todo = <<>> /\ ~initialized /\ ~asked
  BY Where DEF HostInv, CtrlInv
<1>2. /\ Isoc' = Isoc /\ Listing' = Listing /\ Unpausing' = Unpausing /\ Closing' = Closing
      /\ CaptureInit' = CaptureInit
  BY SameKind
<1>3. PlanInv' /\ Place' = 1
  <2>1. Plan' = CaptureInit
    BY <1>2 DEF Plan
  <2>2. todo' = CaptureInit /\ Len(CaptureInit) \in Nat /\ Len(CaptureInit) > 0
    BY InitTable, Numbers
  <2>3. todo' # <<>>
    BY <2>2
  <2>4. Place' = 1
    BY <2>1, <2>2, <2>3 DEF Place
  <2>5. \A i \in 1 .. Len(todo') : Len(CaptureInit) - Len(todo') + i = i
    BY <2>2
  <2>6. PlanInv'
    BY <2>1, <2>2, <2>5, InitTable DEF HostInv, PlanInv
  <2>7. QED
    BY <2>4, <2>6
<1>4. CtrlInv'
  BY <1>1, ControlIdle DEF HostInv
<1>5. inits' \in Nat /\ inits' > 0 /\ inits \in Nat /\ (listed => inits' > 1)
      /\ (Stuck => Stuck')
  BY <1>1, <1>3 DEF HostInv, OwnerInv, Stuck
<1>6. OwnerInv'
  BY <1>1, <1>2, <1>3, <1>5, Numbers DEF HostInv, OwnerInv
<1>7. PoolInv'
  <2>1. ASSUME listed PROVE Sum' = NumFrames \/ (Sum' < NumFrames /\ Stuck')
    <3>1. empty \in Nat /\ NumFrames \in Nat /\ Sum <= NumFrames
      BY <2>1, Counted DEF HostInv
    <3>2. Stuck'
      BY <1>1, <1>3, <1>5, <2>1 DEF Stuck
    <3>3. Sum' <= Sum /\ Sum' \in Nat /\ Sum \in Nat
      BY <3>1 DEF Sum, InHand, Count
    <3>4. \A a, b, c \in Nat : a <= b /\ b <= c => a = c \/ a < c
      OBVIOUS
    <3>5. QED
      BY <3>1, <3>2, <3>3, <3>4
  <2>2. latest' = FALSE /\ latest' \in BOOLEAN
    OBVIOUS
  <2>3. QED
    BY <2>1, <2>2 DEF HostInv, PoolInv, StopGivesBack
<1>8. FeedInv'
  <2>1. ~Submitting
    BY <1>1, Numbers DEF Submitting
  <2>2. QED
    BY <2>1, FeedSame DEF HostInv
<1>9. QuietInv'
  BY QuietElse DEF HostInv, ctrlVars
<1>10. QED
  BY <1>3, <1>4, <1>6, <1>7, <1>8, <1>9 DEF HostInv

(* usb_init. *)
LEMMA InstallHostKeeps ==
  ASSUME HostInv, InstallHost
  PROVE  HostInv'
<1> USE DEF InstallHost, busVars, driverVars, streamVars, clientVars
<1>1. todo # <<>> /\ call = "init" /\ Place = 1 /\ ~asked /\ ~initialized
  <2>1. todo # <<>> /\ Head(todo) = "install"
    BY DEF At
  <2>2. call = "init" /\ Place = 1 /\ ~asked
    BY <2>1, Spots, Poised DEF HostInv, Requests
  <2>3. QED
    BY <2>1, <2>2, Numbers DEF HostInv, OwnerInv
<1>2. /\ PlanInv' /\ Place' = (IF host THEN 0 ELSE 2)
      /\ Isoc' = Isoc /\ Listing' = Listing /\ Unpausing' = Unpausing /\ Closing' = Closing
  <2>1. CASE host
    BY <2>1, Depart
  <2>2. CASE ~host
    BY <1>1, <2>2, Advance, Numbers DEF LastPlace
  <2>3. QED
    BY <2>1, <2>2
<1>3. listed => host
  BY DEF HostInv, OwnerInv
<1>4. ~Submitting
  BY <1>1, Numbers DEF Submitting
<1>5. listed /\ Stuck => Stuck'
  BY <1>2, <1>3 DEF Stuck
<1>6. CtrlInv' /\ PoolInv' /\ FeedInv'
  BY <1>1, <1>4, <1>5, ControlIdle, PoolSame, FeedSame DEF HostInv
<1>7. QuietInv'
  BY <1>1, QuietElse DEF HostInv, ctrlVars
<1>8. OwnerInv'
  <2>1. host' = TRUE /\ host' \in BOOLEAN
    OBVIOUS
  <2>2. CASE host
    BY <1>1, <1>2, <2>1, <2>2 DEF HostInv, OwnerInv
  <2>3. CASE ~host
    BY <1>1, <1>2, <1>3, <2>1, <2>3, Numbers DEF HostInv, OwnerInv
  <2>4. QED
    BY <2>2, <2>3
<1>9. QED
  BY <1>2, <1>6, <1>7, <1>8 DEF HostInv

(* uvc_host_install. *)
LEMMA InstallDriverKeeps ==
  ASSUME HostInv, InstallDriver
  PROVE  HostInv'
<1> USE DEF InstallDriver, busVars, streamVars, clientVars
<1>1. /\ todo # <<>> /\ call = "init" /\ Place = 2 /\ ~asked
      /\ ~initialized /\ ~listed /\ host
  <2>1. todo # <<>> /\ Head(todo) = "driver"
    BY DEF At
  <2>2. call = "init" /\ Place = 2 /\ ~asked
    BY <2>1, Spots, Poised DEF HostInv, Requests
  <2>3. QED
    BY <2>1, <2>2, Numbers DEF HostInv, OwnerInv
<1>2. ~Submitting /\ ~Stuck
  BY <1>1, Numbers DEF Submitting, Stuck
<1>3. /\ PlanInv'
      /\ Isoc' = Isoc /\ Listing' = Listing /\ Unpausing' = Unpausing /\ Closing' = Closing
      /\ \/ Place' = 0 /\ UNCHANGED <<driver, client, ctrl, done>>
         \/ Place' = 3 /\ driver' = TRUE /\ client' = "running" /\ ctrl' = FALSE /\ done' = FALSE
  <2>1. CASE Leave /\ UNCHANGED <<driver, client, ctrl, done>>
    BY <2>1, Depart
  <2>2. CASE driver' = TRUE /\ client' = "running" /\ Continue /\ ctrl' = FALSE /\ done' = FALSE
    <3>1. UNCHANGED <<kind, call>>
      OBVIOUS
    <3>2. /\ PlanInv' /\ Place' = IF Place = LastPlace THEN 0 ELSE Place + 1
          /\ Isoc' = Isoc /\ Listing' = Listing /\ Unpausing' = Unpausing /\ Closing' = Closing
      BY <1>1, <2>2, <3>1, Advance
    <3>3. Place' = 3
      BY <1>1, <3>2, Numbers DEF LastPlace
    <3>4. QED
      BY <2>2, <3>2, <3>3
  <2>3. QED
    BY <2>1, <2>2
<1>4. CtrlInv'
  <2>1. ctrl' \in BOOLEAN /\ done' \in BOOLEAN
    BY <1>3 DEF HostInv, CtrlInv
  <2>2. QED
    BY <1>1, <1>3, <2>1 DEF HostInv, CtrlInv
<1>5. PoolInv' /\ FeedInv'
  BY <1>1, <1>2, PoolSame, FeedSame DEF HostInv
<1>6. QuietInv'
  BY <1>1, QuietElse DEF HostInv
<1>7. OwnerInv'
  <2>1. driver' \in BOOLEAN /\ client' \in {"none", "running", "leaving"}
    BY <1>3 DEF HostInv, OwnerInv
  <2>2. CASE Place' = 0
    BY <1>1, <1>3, <2>1, <2>2 DEF HostInv, OwnerInv
  <2>3. CASE Place' = 3 /\ driver' = TRUE
    BY <1>1, <1>3, <2>1, <2>3, Numbers DEF HostInv, OwnerInv
  <2>4. QED
    BY <1>3, <2>2, <2>3
<1>8. QED
  BY <1>3, <1>4, <1>5, <1>6, <1>7 DEF HostInv

(* uvc_find_and_open_usb_device. *)
LEMMA FindKeeps ==
  ASSUME HostInv, Find
  PROVE  HostInv'
<1> USE DEF Find, driverVars, streamVars, clientVars, poolVars
<1>1. /\ todo # <<>> /\ call = "init" /\ Place = 3 /\ ~asked
      /\ ~initialized /\ ~listed /\ host /\ driver /\ ~streaming
  <2>1. todo # <<>> /\ Head(todo) = "find"
    BY DEF At
  <2>2. call = "init" /\ Place = 3 /\ ~asked
    BY <2>1, Spots, Poised DEF HostInv, Requests
  <2>3. QED
    BY <2>1, <2>2, Numbers DEF HostInv, OwnerInv, PoolInv
<1>2. /\ PlanInv'
      /\ Isoc' = Isoc /\ Listing' = Listing /\ Unpausing' = Unpausing /\ Closing' = Closing
      /\ \/ Place' = 0 /\ UNCHANGED dev
         \/ Place' = 4 /\ dev' = "live"
  <2>1. CASE Leave /\ UNCHANGED dev
    BY <2>1, Depart
  <2>2. CASE dev' = "live" /\ Continue
    BY <1>1, <2>2, Advance, Numbers DEF LastPlace
  <2>3. QED
    BY <2>1, <2>2
<1>3. CtrlInv' /\ PoolInv'
  BY <1>1, ControlIdle, PoolSame DEF HostInv
<1>4. FeedInv'
  <2>1. dev' = dev \/ dev' = "live"
    BY <1>2
  <2>2. QED
    BY <1>1, <2>1 DEF HostInv, FeedInv
<1>5. QuietInv'
  BY <1>1, QuietElse DEF HostInv, ctrlVars
<1>6. OwnerInv'
  <2>1. CASE Place' = 0 /\ UNCHANGED dev
    BY <1>1, <1>2, <2>1 DEF HostInv, OwnerInv
  <2>2. CASE Place' = 4 /\ dev' = "live"
    BY <1>1, <1>2, <2>2, Numbers DEF HostInv, OwnerInv
  <2>3. QED
    BY <1>2, <2>1, <2>2
<1>7. QED
  BY <1>2, <1>3, <1>4, <1>5, <1>6 DEF HostInv

(* The interface, the transfers, the frames. *)
LEMMA AcquireKeeps ==
  ASSUME HostInv, Acquire
  PROVE  HostInv'
<1> USE DEF driverVars, streamVars, clientVars
<1>1. /\ todo # <<>> /\ Head(todo) \in {"claim", "transfers", "frames"} /\ crash = "none"
      /\ UNCHANGED <<kind, plugged, unplugs, call, initialized, host, inits, driverVars,
                     streamVars, latest, clientVars, ctrlVars>>
  BY DEF Acquire, At
<1>2. /\ call = "init" /\ ~asked /\ Place \in Nat /\ PlanInv
      /\ Place > 3 /\ Place < Listing /\ Place < Unpausing /\ Place > 2
      /\ (Head(todo) = "frames" <=> Place = Listing - 1)
  <2>1. call = "init" /\ ~asked /\ PlanInv
        /\ \/ Head(todo) = "claim" /\ Place = 4
           \/ Head(todo) = "transfers" /\ Place = Listing - 2
           \/ Head(todo) = "frames" /\ Place = Listing - 1
    BY <1>1, Spots, Poised DEF Requests, HostInv
  <2>2. QED
    BY <2>1, Numbers
<1>3. ~Submitting /\ ~Stuck /\ ~initialized /\ ~listed /\ ~streaming /\ host /\ driver /\ dev # "none"
  BY <1>2, Numbers DEF Submitting, Stuck, HostInv, OwnerInv, PoolInv
<1>4. CtrlInv'
  BY <1>1, <1>2, ControlIdle DEF HostInv
<1>5. ASSUME GiveUp, crash' \in {"none", "heap"} PROVE HostInv'
  BY <1>1, <1>2, <1>4, <1>5, GivenUp DEF HostInv
<1>6. ASSUME Continue,
             urbs' = urbs \/ urbs' = [u \in Urbs |-> "idle"],
             empty' = IF Head(todo) = "frames" THEN NumFrames ELSE empty,
             UNCHANGED <<dev, lost, crash>>
      PROVE  HostInv'
  <2>1. /\ PlanInv' /\ Place' = IF Place = LastPlace THEN 0 ELSE Place + 1
        /\ Isoc' = Isoc /\ Listing' = Listing /\ Unpausing' = Unpausing /\ Closing' = Closing
    BY <1>1, <1>6, Advance
  <2>2. Place' = Place + 1
    BY <1>2, <2>1, Numbers DEF LastPlace
  <2>3. PoolInv'
    BY <1>1, <1>3, <1>6, HostAssumption DEF HostInv, PoolInv, StopGivesBack
  <2>4. FeedInv'
    <3>1. urbs' \in [Urbs -> {"none", "idle", "unsent", "flight", "failed"}]
          /\ (dev # "live" => \A u \in Urbs : urbs'[u] # "flight")
      BY <1>6 DEF HostInv, FeedInv
    <3>2. QED
      BY <1>1, <1>3, <1>6, <3>1 DEF HostInv, FeedInv
  <2>5. OwnerInv'
    <3>1. Place' > 1 /\ Place' > 2 /\ Place' > 3 /\ ~(Place' > Listing) /\ Place' # 0
          /\ ~(Place' > Unpausing + 2) /\ (Place' = Listing <=> Place = Listing - 1)
      BY <1>2, <2>2, Numbers
    <3>2. Place' = Listing => empty' = NumFrames
      BY <1>2, <1>6, <3>1
    <3>3. QED
      BY <1>1, <1>2, <1>3, <1>6, <2>1, <3>1, <3>2 DEF HostInv, OwnerInv
  <2>6. QuietInv'
    BY <1>1, <1>2, <1>6, QuietElse DEF HostInv, ctrlVars
  <2>7. QED
    BY <1>4, <2>1, <2>3, <2>4, <2>5, <2>6 DEF HostInv
<1>7. QED
  BY <1>1, <1>5, <1>6 DEF Acquire, At

(* The stream is entered in the list. *)
LEMMA ListKeeps ==
  ASSUME HostInv, List
  PROVE  HostInv'
<1> USE DEF List, busVars, streamVars, clientVars, poolVars
<1>1. /\ todo # <<>> /\ call = "init" /\ Place = Listing /\ ~asked /\ PlanInv /\ UNCHANGED <<kind, call>>
  <2>1. todo # <<>> /\ Head(todo) = "list"
    BY DEF At
  <2>2. QED
    BY <2>1, Spots, Poised DEF HostInv, Requests
<1>2. /\ PlanInv' /\ Place' = Listing + 1
      /\ Isoc' = Isoc /\ Listing' = Listing /\ Unpausing' = Unpausing /\ Closing' = Closing
  <2>1. /\ PlanInv' /\ Place' = IF Place = LastPlace THEN 0 ELSE Place + 1
        /\ Isoc' = Isoc /\ Listing' = Listing /\ Unpausing' = Unpausing /\ Closing' = Closing
    BY <1>1, Advance
  <2>2. Place # LastPlace
    BY <1>1, Numbers DEF LastPlace
  <2>3. QED
    BY <1>1, <2>1, <2>2
<1>3. /\ ~Submitting /\ ~initialized /\ ~listed /\ host /\ driver /\ dev # "none"
      /\ empty = NumFrames /\ ~streaming /\ ~current /\ ~latest /\ cpc = "idle" /\ NumFrames \in Nat
  BY <1>1, Numbers, HostAssumption DEF Submitting, HostInv, OwnerInv, PoolInv
<1>4. CtrlInv' /\ FeedInv'
  BY <1>1, <1>3, ControlIdle, FeedSame DEF HostInv
<1>5. PoolInv'
  <2>1. Sum' = NumFrames
    BY <1>3 DEF Sum, InHand, Count
  <2>2. QED
    BY <1>3, <2>1 DEF HostInv, PoolInv, StopGivesBack
<1>6. QuietInv'
  BY <1>1, QuietElse DEF HostInv, ctrlVars
<1>7. OwnerInv'
  <2>1. listed' = TRUE /\ listed' \in BOOLEAN
    OBVIOUS
  <2>2. Place' > 1 /\ Place' > 2 /\ Place' > 3 /\ Place' > Listing /\ Place' # 0
        /\ ~(Place' > Unpausing + 2) /\ Place' # Listing
    BY <1>2, Numbers
  <2>3. QED
    BY <1>1, <1>2, <1>3, <2>1, <2>2 DEF HostInv, OwnerInv
<1>8. QED
  BY <1>2, <1>4, <1>5, <1>6, <1>7 DEF HostInv

(* uvc_host_stream_unpause, before the transfers are submitted ... *)
LEMMA UnpauseKeeps ==
  ASSUME HostInv, Unpause
  PROVE  HostInv'
<1> USE DEF Unpause, busVars, driverVars, clientVars, poolVars
<1>1. /\ todo # <<>> /\ call = "init" /\ Place = Unpausing /\ ~asked /\ PlanInv /\ UNCHANGED <<kind, call>>
  <2>1. todo # <<>> /\ Head(todo) = "unpause"
    BY DEF At
  <2>2. QED
    BY <2>1, Spots, Poised DEF HostInv, Requests
<1>2. /\ PlanInv' /\ Place' = Unpausing + 1
      /\ Isoc' = Isoc /\ Listing' = Listing /\ Unpausing' = Unpausing /\ Closing' = Closing
  <2>1. /\ PlanInv' /\ Place' = IF Place = LastPlace THEN 0 ELSE Place + 1
        /\ Isoc' = Isoc /\ Listing' = Listing /\ Unpausing' = Unpausing /\ Closing' = Closing
    BY <1>1, Advance
  <2>2. Place # LastPlace
    BY <1>1, Numbers DEF LastPlace
  <2>3. QED
    BY <1>1, <2>1, <2>2
<1>3. Submitting' /\ ~initialized /\ listed /\ host /\ driver /\ dev # "none" /\ ~Stuck
  BY <1>1, <1>2, Numbers DEF Submitting, HostInv, OwnerInv, Stuck
<1>4. CtrlInv'
  BY <1>1, ControlIdle DEF HostInv
<1>5. streaming' = TRUE /\ streaming' \in BOOLEAN
  OBVIOUS
<1>6. PoolInv'
  <2>1. Sum' = Sum
    BY DEF Sum, InHand
  <2>2. QED
    BY <1>3, <1>5, <2>1 DEF HostInv, PoolInv, StopGivesBack
<1>7. FeedInv'
  <2>1. urbs' \in [Urbs -> {"none", "idle", "unsent", "flight", "failed"}]
        /\ \A u \in Urbs : urbs'[u] = "unsent"
    OBVIOUS
  <2>2. QED
    BY <1>3, <2>1 DEF HostInv, FeedInv
<1>8. QuietInv'
  BY <1>1, QuietElse DEF HostInv, ctrlVars
<1>9. OwnerInv'
  <2>1. Place' > 1 /\ Place' > 2 /\ Place' > 3 /\ Place' > Listing /\ Place' # 0
        /\ ~(Place' > Unpausing + 2) /\ Place' # Listing
    BY <1>2, Numbers
  <2>2. QED
    BY <1>1, <1>2, <1>3, <2>1 DEF HostInv, OwnerInv
<1>10. QED
  BY <1>2, <1>4, <1>6, <1>7, <1>8, <1>9 DEF HostInv

(* ... and while they are. *)
LEMMA SubmitUrbsKeeps ==
  ASSUME HostInv, SubmitUrbs
  PROVE  HostInv'
<1> USE DEF busVars, driverVars, clientVars
<1>1. /\ todo # <<>> /\ call = "init" /\ Place = Unpausing + 1 /\ ~asked /\ PlanInv
      /\ UNCHANGED <<kind, call, initialized, host, inits, driverVars, latest, cpc, cur,
                     ctrlVars, crash, busVars>>
  <2>1. todo # <<>> /\ Head(todo) = "submit"
    BY DEF At, SubmitUrbs
  <2>2. QED
    BY <2>1, Spots, Poised DEF HostInv, Requests, SubmitUrbs
<1>2. Submitting /\ ~initialized /\ listed /\ host /\ driver /\ dev # "none" /\ ~Stuck
  BY <1>1, Numbers DEF Submitting, HostInv, OwnerInv, Stuck
<1>3. CtrlInv'
  BY <1>1, ControlIdle DEF HostInv
<1>4. QuietInv'
  BY <1>1, QuietElse DEF HostInv, ctrlVars
<1>5. /\ Isoc' = Isoc /\ Listing' = Listing /\ Unpausing' = Unpausing /\ Closing' = Closing
  BY <1>1, SameKind
<1>6. ASSUME PlanInv', Place' \in {0, Unpausing + 1, Unpausing + 2}
      PROVE  OwnerInv'
  <2>1. Place' # 0 => Place' > 1 /\ Place' > 2 /\ Place' > 3 /\ Place' > Listing
                      /\ ~(Place' > Unpausing + 2) /\ Place' # Listing
    BY <1>6, Numbers
  <2>2. QED
    BY <1>1, <1>2, <1>5, <2>1 DEF HostInv, OwnerInv
<1>7. CASE /\ dev = "live"
           /\ \E u \in Unsent : urbs' = [urbs EXCEPT ![u] = "flight"]
           /\ todo' = IF \E u \in Urbs : urbs'[u] = "unsent" THEN todo ELSE Tail(todo)
           /\ UNCHANGED <<streamVars, empty, overtaken>>
  <2>1. PlanInv' /\ Place' \in {Unpausing + 1, Unpausing + 2}
    <3>1. CASE Continue
      <4>1. PlanInv' /\ Place' = IF Place = LastPlace THEN 0 ELSE Place + 1
        BY <1>1, <3>1, Advance
      <4>2. Place # LastPlace /\ Place + 1 = Unpausing + 2
        BY <1>1, Numbers DEF LastPlace
      <4>3. QED
        BY <4>1, <4>2
    <3>2. CASE todo' = todo
      BY <1>1, <3>2, Stays
    <3>3. QED
      BY <1>7, <3>1, <3>2 DEF Continue
  <2>2. PoolInv'
    BY <1>1, <1>2, <1>7, PoolSame DEF HostInv, poolVars
  <2>3. FeedInv'
    <3>1. PICK u \in Urbs : urbs' = [urbs EXCEPT ![u] = "flight"]
      BY <1>7 DEF Unsent
    <3>2. urbs' \in [Urbs -> {"none", "idle", "unsent", "flight", "failed"}] /\ urbs'[u] = "flight"
      BY <3>1 DEF HostInv, FeedInv
    <3>3. QED
      BY <1>1, <1>7, <3>2 DEF HostInv, FeedInv, streamVars
  <2>4. QED
    BY <1>3, <1>4, <1>6, <2>1, <2>2, <2>3 DEF HostInv
<1>8. CASE /\ dev # "live" /\ Pause /\ Overtake /\ Leave
           /\ urbs' = [u \in Urbs |-> IF u \in Unsent THEN "idle" ELSE urbs[u]]
  <2>1. PlanInv' /\ Place' = 0
    BY <1>1, <1>8, Depart
  <2>2. PoolInv' /\ streaming' = FALSE
    <3>1. overtaken' \in BOOLEAN /\ (overtaken \/ cpc # "idle" => overtaken')
      BY <1>8 DEF Overtake, HostInv, PoolInv
    <3>2. QED
      BY <1>1, <1>2, <1>8, <3>1, Paused
  <2>3. FeedInv'
    <3>1. \A u \in Urbs : urbs'[u] \in {"idle", urbs[u]}
      BY <1>8
    <3>2. urbs' \in [Urbs -> {"none", "idle", "unsent", "flight", "failed"}]
      BY <1>8 DEF HostInv, FeedInv
    <3>3. QED
      BY <1>1, <1>8, <2>2, <3>1, <3>2 DEF HostInv, FeedInv
  <2>4. QED
    BY <1>3, <1>4, <1>6, <2>1, <2>2, <2>3 DEF HostInv
<1>9. QED
  BY <1>7, <1>8 DEF SubmitUrbs

(* s_initialized, and the frames that are thrown away. *)
LEMMA ReadyKeeps ==
  ASSUME HostInv, Ready \/ Warm
  PROVE  HostInv'
<1> USE DEF busVars, driverVars, clientVars, streamVars
<1>1. /\ todo # <<>> /\ call = "init" /\ ~asked /\ PlanInv /\ Continue /\ Place \in Nat
      /\ UNCHANGED <<kind, call, host, inits, driverVars, streamVars, urbs, clientVars,
                     ctrlVars, crash, busVars>>
      /\ \/ Ready /\ Place = Unpausing + 2 /\ UNCHANGED poolVars /\ initialized' = TRUE
         \/ Warm /\ Place > Unpausing + 2 /\ initialized' = initialized
  <2>1. todo # <<>> /\ Head(todo) \in {"ready", "warm"}
        /\ (Ready => Head(todo) = "ready") /\ (Warm => Head(todo) = "warm")
    BY DEF At, Ready, Warm
  <2>2. Place \in Nat
    BY <2>1, Poised, Numbers DEF LastPlace
  <2>3. QED
    BY <2>1, <2>2, Spots, Poised DEF HostInv, Requests, Ready, Warm
<1>2. /\ PlanInv' /\ Place' = (IF Place = LastPlace THEN 0 ELSE Place + 1)
      /\ Isoc' = Isoc /\ Listing' = Listing /\ Unpausing' = Unpausing /\ Closing' = Closing
  BY <1>1, Advance
<1>3. Place # 0 /\ Place > 1 /\ Place > 2 /\ Place > 3 /\ Place > Listing /\ Place # Unpausing + 1
  BY <1>1, Numbers
<1>4. ~Submitting /\ ~Stuck /\ listed /\ host /\ driver /\ dev # "none" /\ initialized' = TRUE
  BY <1>1, <1>3 DEF Submitting, HostInv, OwnerInv, Stuck
<1>5. CtrlInv' /\ FeedInv' /\ QuietInv'
  <2>1. QuietInv'
    BY <1>1, QuietElse DEF HostInv, ctrlVars
  <2>2. QED
    BY <1>1, <1>4, <2>1, ControlIdle, FeedSame DEF HostInv
<1>6. PoolInv'
  <2>1. CASE UNCHANGED poolVars
    BY <1>1, <1>4, <2>1, PoolSame DEF HostInv
  <2>2. CASE TakeLatest
    <3>1. empty < NumFrames /\ empty \in Nat /\ NumFrames \in Nat /\ empty' = empty + 1
          /\ latest /\ ~latest'
      BY <1>4, <2>2, Counted DEF HostInv, TakeLatest
    <3>2. Sum' = Sum /\ empty' \in 0 .. NumFrames
      BY <1>1, <3>1 DEF Sum, InHand, Count
    <3>3. latest' \in BOOLEAN
      BY <2>2 DEF TakeLatest
    <3>4. QED
      BY <1>1, <1>4, <3>2, <3>3 DEF HostInv, PoolInv, StopGivesBack
  <2>3. QED
    BY <1>1, <2>1, <2>2 DEF Warm
<1>7. OwnerInv'
  <2>1. Place' # 0 => Place' > 1 /\ Place' > 2 /\ Place' > 3 /\ Place' > Listing
                      /\ Place' > Unpausing + 2 /\ Place' # Listing
    BY <1>1, <1>2, Numbers
  <2>2. initialized' \in BOOLEAN
    BY <1>4
  <2>3. QED
    BY <1>1, <1>2, <1>4, <2>1, <2>2 DEF HostInv, OwnerInv
<1>8. QED
  BY <1>2, <1>5, <1>6, <1>7 DEF HostInv

(* uvc_capture_deinit, step by step. *)
LEMMA CallDeinitKeeps ==
  ASSUME HostInv, CallDeinit
  PROVE  HostInv'
<1> USE DEF CallDeinit, busVars, driverVars, streamVars, clientVars, poolVars
<1>1. Place = 0 /\ todo = <<>> /\ initialized /\ ~asked /\ listed
  BY Where DEF HostInv, CtrlInv, OwnerInv
<1>2. /\ Isoc' = Isoc /\ Listing' = Listing /\ Unpausing' = Unpausing /\ Closing' = Closing
      /\ CaptureDeinit' = CaptureDeinit
  BY SameKind
<1>3. PlanInv' /\ Place' = 1
  <2>1. Plan' = CaptureDeinit
    BY <1>2 DEF Plan
  <2>2. todo' = CaptureDeinit /\ Len(CaptureDeinit) \in Nat /\ Len(CaptureDeinit) > 0
    BY DeinitTable, Numbers
  <2>3. todo' # <<>>
    BY <2>2
  <2>4. Place' = 1
    BY <2>1, <2>2, <2>3 DEF Place
  <2>5. \A i \in 1 .. Len(todo') : Len(CaptureDeinit) - Len(todo') + i = i
    BY <2>2
  <2>6. PlanInv'
    BY <2>1, <2>2, <2>5, DeinitTable DEF HostInv, PlanInv
  <2>7. QED
    BY <2>4, <2>6
<1>4. ~Submitting /\ ~Stuck
  BY <1>1, Numbers DEF Submitting, Stuck
<1>5. CtrlInv' /\ PoolInv' /\ FeedInv'
  BY <1>1, <1>4, ControlIdle, PoolSame, FeedSame DEF HostInv
<1>6. OwnerInv'
  BY <1>1, <1>2, <1>3 DEF HostInv, OwnerInv
<1>7. QuietInv'
  BY <1>1, <1>2, <1>3, Numbers DEF HostInv, QuietInv, NoAbort, ctrlVars
<1>8. QED
  BY <1>3, <1>5, <1>6, <1>7 DEF HostInv

(* What a step of the deinit leaves to be shown: the transfers are quiet. *)
DeinitPart ==
  /\ Place <= Closing + 2 => listed
  /\ Place > 1 => ~streaming
  /\ Place > 2 => cpc = "idle"
  /\ Place = Closing + 2 => empty = NumFrames
  /\ Isoc /\ 2 < Place /\ Place <= Closing + 2 => Idle({"idle"})
  /\ ~Isoc /\ unplugs = 0 /\ ~timedOut =>
       /\ Place = 3 => Idle({"idle", "flight"})
       /\ Place = 4 => Idle({"idle", "failed"})
       /\ Place \in 5 .. 7 => Idle({"idle"})

(* A step of the deinit that leaves the request alone. *)
LEMMA DeinitKeeps ==
  ASSUME HostInv, call' = "deinit", ~asked, UNCHANGED <<kind, unplugs, ctrlVars, crash>>,
         PlanInv', OwnerInv', PoolInv', FeedInv', Place' # 0 => DeinitPart'
  PROVE  HostInv'
<1>1. CtrlInv'
  BY ControlIdle DEF HostInv
<1>2. QuietInv'
  BY DEF HostInv, QuietInv, NoAbort, DeinitPart, ctrlVars
<1>3. QED
  BY <1>1, <1>2 DEF HostInv

(* At a step of the deinit that is not a request. *)
LEMMA DeinitAt ==
  ASSUME HostInv, NEW step \in {"pause", "settle", "flush", "close", "settled", "release",
                                "uninstall", "ended", "hostGone"},
         At(step)
  PROVE  /\ todo # <<>> /\ Head(todo) = step /\ crash = "none"
         /\ call = "deinit" /\ ~asked /\ PlanInv /\ initialized /\ ~Stuck /\ ~Submitting
         /\ DeinitPart
         /\ Place = CASE step = "pause" -> 1 [] step = "settle" -> 2 [] step = "flush" -> 3
                      [] step = "close" -> Closing [] step = "settled" -> Closing + 1
                      [] step = "release" -> Closing + 2 [] step = "uninstall" -> Closing + 3
                      [] step = "ended" -> Closing + 4 [] step = "hostGone" -> Closing + 5
         /\ step = "flush" => ~Isoc
<1>1. todo # <<>> /\ Head(todo) = step /\ crash = "none" /\ PlanInv
  BY DEF At, HostInv
<1>2. /\ call = "deinit" /\ (step = "flush" => ~Isoc)
      /\ step = "pause" => Place = 1
      /\ step = "settle" => Place = 2
      /\ step = "flush" => Place = 3
      /\ step = "close" => Place = Closing
      /\ step = "settled" => Place = Closing + 1
      /\ step = "release" => Place = Closing + 2
      /\ step = "uninstall" => Place = Closing + 3
      /\ step = "ended" => Place = Closing + 4
      /\ step = "hostGone" => Place = Closing + 5
  BY <1>1, Spots
<1>3. ~asked /\ Place # 0
  BY <1>1, Poised, Where DEF Requests
<1>4. initialized /\ ~Stuck /\ ~Submitting
  BY <1>2, <1>3 DEF HostInv, OwnerInv, Stuck, Submitting
<1>5. DeinitPart
  BY <1>2, <1>3 DEF HostInv, QuietInv, DeinitPart
<1>6. QED
  BY <1>1, <1>2, <1>3, <1>4, <1>5

(* The stream is paused. *)
LEMMA StopPauseKeeps ==
  ASSUME HostInv, StopPause
  PROVE  HostInv'
<1> USE DEF StopPause, busVars, driverVars, clientVars
<1>1. /\ todo # <<>> /\ call = "deinit" /\ ~asked /\ Place = 1 /\ listed /\ ~Stuck /\ ~Submitting
      /\ UNCHANGED <<kind, call>>
  BY DeinitAt, Numbers DEF DeinitPart
<1>2. PlanInv' /\ Place' = 2
      /\ Isoc' = Isoc /\ Listing' = Listing /\ Unpausing' = Unpausing /\ Closing' = Closing
  BY <1>1, Advance, Numbers DEF LastPlace
<1>3. PoolInv' /\ streaming' = FALSE
  <2>1. overtaken' \in BOOLEAN /\ (overtaken \/ cpc # "idle" => overtaken')
    BY DEF Overtake, HostInv, PoolInv
  <2>2. QED
    BY <1>1, <2>1, Paused
<1>4. FeedInv'
  BY <1>1, <1>3, FeedSame DEF HostInv, FeedInv
<1>5. OwnerInv'
  BY <1>1, <1>2 DEF HostInv, OwnerInv
<1>6. DeinitPart'
  BY <1>1, <1>2, <1>3, Numbers DEF DeinitPart
<1>7. QED
  BY <1>1, <1>2, <1>3, <1>4, <1>5, <1>6, DeinitKeeps

(* The 100 ms have passed: no callback runs. *)
LEMMA SettleKeeps ==
  ASSUME HostInv, Settle
  PROVE  HostInv'
<1> USE DEF Settle, busVars, driverVars, clientVars, streamVars
<1>1. /\ todo # <<>> /\ call = "deinit" /\ ~asked /\ Place = 2 /\ listed /\ ~streaming
      /\ ~Stuck /\ ~Submitting /\ UNCHANGED <<kind, call>>
  BY DeinitAt, Numbers DEF DeinitPart
<1>2. PlanInv' /\ Place' = 3
      /\ Isoc' = Isoc /\ Listing' = Listing /\ Unpausing' = Unpausing /\ Closing' = Closing
  BY <1>1, Advance, Numbers DEF LastPlace
<1>3. PoolInv' /\ FeedInv'
  BY <1>1, PoolSame, FeedSame DEF HostInv
<1>4. OwnerInv'
  BY <1>1, <1>2 DEF HostInv, OwnerInv
<1>5. (Isoc => Idle({"idle"})') /\ (~Isoc => Idle({"idle", "flight"})')
  BY DEF Idle, Isoc
<1>6. DeinitPart'
  BY <1>1, <1>2, <1>5, Numbers DEF DeinitPart
<1>7. QED
  BY <1>1, <1>2, <1>3, <1>4, <1>6, DeinitKeeps

(* The endpoint is flushed. *)
LEMMA FlushKeeps ==
  ASSUME HostInv, Flush
  PROVE  HostInv'
<1> USE DEF Flush, busVars, driverVars, clientVars, streamVars, poolVars
<1>1. /\ todo # <<>> /\ call = "deinit" /\ ~asked /\ Place = 3 /\ listed /\ ~streaming /\ ~Isoc
      /\ cpc = "idle" /\ (unplugs = 0 /\ ~timedOut => Idle({"idle", "flight"}))
      /\ ~Stuck /\ ~Submitting /\ UNCHANGED <<kind, call>>
  BY DeinitAt, Numbers DEF DeinitPart
<1>2. PlanInv' /\ Place' = 4
      /\ Isoc' = Isoc /\ Listing' = Listing /\ Unpausing' = Unpausing /\ Closing' = Closing
  BY <1>1, Advance, Numbers DEF LastPlace
<1>3. PoolInv'
  BY <1>1, PoolSame DEF HostInv
<1>4. \A u \in Urbs : urbs'[u] = IF urbs[u] = "flight" /\ dev = "live" THEN "failed" ELSE urbs[u]
  OBVIOUS
<1>5. FeedInv'
  <2>1. urbs' \in [Urbs -> {"none", "idle", "unsent", "flight", "failed"}]
    BY DEF HostInv, FeedInv
  <2>2. dev # "live" => \A u \in Urbs : urbs'[u] # "flight"
    BY <1>4 DEF HostInv, FeedInv
  <2>3. QED
    BY <1>1, <2>1, <2>2 DEF HostInv, FeedInv
<1>6. OwnerInv'
  BY <1>1, <1>2 DEF HostInv, OwnerInv
<1>7. unplugs = 0 /\ ~timedOut => Idle({"idle", "failed"})'
  <2>1. unplugs = 0 => dev = "live"
    BY <1>1 DEF HostInv, OwnerInv, FeedInv
  <2>2. QED
    BY <1>1, <1>4, <2>1 DEF Idle
<1>8. DeinitPart'
  BY <1>1, <1>2, <1>7, Numbers DEF DeinitPart, ctrlVars
<1>9. QED
  BY <1>1, <1>2, <1>3, <1>5, <1>6, <1>8, DeinitKeeps

(* Two steps at once. *)
LEMMA TailTail ==
  ASSUME NEW s \in Seq(Names), Len(s) > 2
  PROVE  /\ Tail(Tail(s)) \in Seq(Names) /\ Len(Tail(Tail(s))) = Len(s) - 2
         /\ \A i \in 1 .. Len(s) - 2 : Tail(Tail(s))[i] = s[i + 2]
<1> DEFINE t == Tail(s)
           v == Tail(t)
<1>1. /\ t \in Seq(Names) /\ Len(t) = Len(s) - 1 /\ Len(s) \in Nat
      /\ \A i \in 1 .. Len(s) - 1 : t[i] = s[i + 1]
  OBVIOUS
<1> HIDE DEF t
<1>2. /\ v \in Seq(Names) /\ Len(v) = Len(t) - 1
      /\ \A i \in 1 .. Len(t) - 1 : v[i] = t[i + 1]
  BY <1>1
<1> HIDE DEF v
<1>3. \A i \in 1 .. Len(s) - 2 : v[i] = s[i + 2]
  <2>1. ASSUME NEW i \in 1 .. Len(s) - 2 PROVE v[i] = s[i + 2]
    <3>1. i + 1 \in 1 .. Len(s) - 1 /\ i \in 1 .. Len(t) - 1 /\ (i + 1) + 1 = i + 2
      BY <1>1
    <3>2. QED
      BY <1>1, <1>2, <3>1
  <2>2. QED
    BY <2>1
<1>4. QED
  BY <1>1, <1>2, <1>3, SMTT(40) DEF t, v

(* uvc_host_stream_close looks for the frames, twice. *)
LEMMA CloseKeeps ==
  ASSUME HostInv, CloseCheck \/ CloseRecheck
  PROVE  HostInv'
<1> USE DEF busVars, driverVars, clientVars, streamVars, poolVars
<1>1. /\ todo # <<>> /\ call = "deinit" /\ ~asked /\ DeinitPart /\ ~Stuck /\ ~Submitting
      /\ PlanInv
      /\ UNCHANGED <<busVars, call, initialized, host, inits, driverVars,
                     streamVars, urbs, poolVars, clientVars, ctrlVars, crash>>
      /\ (CloseCheck => Place = Closing) /\ (CloseRecheck => Place = Closing + 1)
  BY DeinitAt DEF CloseCheck, CloseRecheck
<1>2. /\ Isoc' = Isoc /\ Listing' = Listing /\ Unpausing' = Unpausing /\ Closing' = Closing
  BY <1>1, SameKind
<1>3. /\ PlanInv'
      /\ \/ Place = Closing /\ Place' = Closing + 1
         \/ Place = Closing + 1 /\ Place' = Closing + 2 /\ empty = NumFrames
         \/ Place = Closing + 1 /\ Place' = Closing + 3
  <2>1. CASE Continue /\ (CloseCheck \/ (CloseRecheck /\ AllReturned))
    <3>1. PlanInv' /\ Place' = IF Place = LastPlace THEN 0 ELSE Place + 1
      BY <1>1, <2>1, Advance
    <3>2. Place \in {Closing, Closing + 1} /\ Place # LastPlace
      BY <1>1, Numbers DEF LastPlace
    <3>3. Place' = Place + 1
      BY <3>1, <3>2
    <3>4. CASE CloseCheck
      BY <1>1, <3>1, <3>3, <3>4
    <3>5. CASE CloseRecheck /\ AllReturned
      BY <1>1, <3>1, <3>3, <3>5, Numbers DEF AllReturned
    <3>6. QED
      BY <2>1, <3>4, <3>5
  <2>2. CASE CloseRecheck /\ ~AllReturned
    <3>1. todo' = Tail(Tail(todo)) /\ Place = Closing + 1
      BY <1>1, <2>2 DEF CloseRecheck
    <3>2. todo \in Seq(Names) /\ Len(todo) \in Nat /\ Len(todo) > 2
      BY <1>1, <3>1, Where, Numbers, SMTT(40) DEF PlanInv, LastPlace
    <3>3. /\ todo' \in Seq(Names) /\ Len(todo') = Len(todo) - 2
          /\ \A i \in 1 .. Len(todo) - 2 : todo'[i] = todo[i + 2]
      BY <3>1, <3>2, TailTail
    <3>4. 2 \in Nat /\ 2 <= Len(todo) /\ 2 # Len(todo)
      <4>1. \A n \in Nat : n > 2 => 2 \in Nat /\ 2 <= n /\ 2 # n
        OBVIOUS
      <4>2. QED
        BY <3>2, <4>1
    <3>5. PlanInv' /\ Place' = IF 2 = Len(todo) THEN 0 ELSE Place + 2
      BY <1>1, <3>3, <3>4, Moved
    <3>6. QED
      BY <3>1, <3>4, <3>5, Numbers
  <2>3. QED
    BY <2>1, <2>2 DEF CloseCheck, CloseRecheck, Continue
<1>4. PoolInv' /\ FeedInv'
  BY <1>1, PoolSame, FeedSame DEF HostInv
<1>5. Place' # 0
  BY <1>3, Numbers
<1>6. OwnerInv'
  BY <1>1, <1>2, <1>3, <1>5, Numbers DEF HostInv, OwnerInv
<1>7. DeinitPart'
  <2>1. /\ Place > 2 /\ Place > 1 /\ Place <= Closing + 2 /\ (Place' <= Closing + 2 \/ Place' = Closing + 3)
        /\ (~Isoc => Place \in 5 .. 7) /\ Place' > 4
        /\ (Place' = Closing + 2 => empty = NumFrames)
    BY <1>3, Numbers
  <2>2. listed /\ ~streaming /\ cpc = "idle" /\ (Isoc => Idle({"idle"}))
        /\ (~Isoc /\ unplugs = 0 /\ ~timedOut => Idle({"idle"}))
    BY <1>1, <2>1, Numbers DEF DeinitPart
  <2>3. Idle({"idle"})' = Idle({"idle"})
    BY <1>1 DEF Idle
  <2>4. QED
    BY <1>1, <1>2, <2>1, <2>2, <2>3, <1>3, Numbers DEF DeinitPart, ctrlVars
<1>8. QED
  BY <1>1, <1>3, <1>4, <1>6, <1>7, DeinitKeeps

(* The interface is released, or refuses to be. *)
LEMMA ReleaseKeeps ==
  ASSUME HostInv, Release
  PROVE  HostInv'
<1> USE DEF clientVars, streamVars
<1>1. /\ todo # <<>> /\ call = "deinit" /\ ~asked /\ DeinitPart /\ ~Stuck /\ ~Submitting
      /\ Place = Closing + 2 /\ Continue /\ initialized /\ PlanInv /\ crash = "none"
      /\ UNCHANGED <<kind, plugged, unplugs, call, initialized, host, inits, driver, client,
                     streamVars, latest, clientVars, ctrlVars>>
  BY DeinitAt DEF Release
<1>2. listed /\ ~streaming /\ cpc = "idle" /\ empty = NumFrames
  BY <1>1, Numbers DEF DeinitPart
<1>3. /\ PlanInv' /\ Place' = Closing + 3
      /\ Isoc' = Isoc /\ Listing' = Listing /\ Unpausing' = Unpausing /\ Closing' = Closing
  BY <1>1, Advance, Numbers DEF LastPlace
<1>4. CtrlInv'
  BY <1>1, ControlIdle DEF HostInv
<1>5. Place' > 1 /\ Place' > 2 /\ ~(Place' <= Closing + 2) /\ Place' # 0 /\ Place' # Closing + 2
      /\ Place' # 3 /\ Place' # 4 /\ (~Isoc => Place' \notin 5 .. 7)
  BY <1>3, Numbers
<1>6. CASE Idle({"idle"}) /\ listed' = FALSE /\ Remove /\ UNCHANGED crash
  <2>1. /\ urbs' = [u \in Urbs |-> "none"] /\ empty' = 0 /\ dev' = "none" /\ lost' = FALSE
        /\ listed' = FALSE /\ listed' \in BOOLEAN /\ lost' \in BOOLEAN
    BY <1>6 DEF Remove
  <2>2. ~current /\ ~latest
    <3>1. Sum <= NumFrames /\ NumFrames \in Nat
      BY <1>2, Counted DEF HostInv
    <3>2. QED
      BY <1>2, <3>1 DEF Sum, InHand, Count
  <2>3. PoolInv'
    BY <1>1, <1>2, <2>1, <2>2, HostAssumption DEF HostInv, PoolInv, StopGivesBack
  <2>4. FeedInv'
    BY <1>1, <1>2, <2>1 DEF HostInv, FeedInv
  <2>5. OwnerInv'
    BY <1>1, <1>5, <2>1 DEF HostInv, OwnerInv
  <2>6. QuietInv'
    BY <1>1, <1>2, <1>3, <1>5, <1>6 DEF HostInv, QuietInv, NoAbort
  <2>7. QED
    BY <1>3, <1>4, <2>3, <2>4, <2>5, <2>6 DEF HostInv
<1>7. CASE ~Idle({"idle"}) /\ crash' = "abort" /\ UNCHANGED <<listed, urbs, empty, dev, lost>>
  <2>1. PoolInv'
    BY <1>1, <1>7, PoolSame DEF HostInv, poolVars
  <2>2. FeedInv'
    BY <1>1, <1>2, <1>7 DEF HostInv, FeedInv
  <2>3. OwnerInv'
    BY <1>1, <1>5, <1>7 DEF HostInv, OwnerInv
  <2>4. ~Isoc /\ (unplugs > 0 \/ timedOut)
    <3>1. Isoc => Idle({"idle"})
      BY <1>1, Numbers DEF DeinitPart
    <3>2. ~Isoc /\ unplugs = 0 /\ ~timedOut => Idle({"idle"})
      BY <1>1, Numbers DEF DeinitPart
    <3>3. unplugs \in Nat
      BY DEF HostInv, FeedInv
    <3>4. QED
      BY <1>7, <3>1, <3>2, <3>3
  <2>5. kind = "bulk"
    BY <2>4 DEF HostInv, PlanInv, Isoc
  <2>6. NoAbort' /\ crash' \in {"none", "abort", "heap", "assert"}
    BY <1>1, <1>7, <2>4, <2>5 DEF NoAbort, ctrlVars
  <2>7. QuietInv'
    BY <1>1, <1>2, <1>3, <1>5, <2>6 DEF QuietInv
  <2>8. QED
    BY <1>3, <1>4, <2>1, <2>2, <2>3, <2>7 DEF HostInv
<1>8. QED
  BY <1>6, <1>7 DEF Release, Idle

(* uvc_host_uninstall, the wait for the client task, usb_host_uninstall. *)
LEMMA UninstallKeeps ==
  ASSUME HostInv, UninstallDriver \/ ClientEnded \/ HostGone
  PROVE  HostInv'
<1> USE DEF busVars, streamVars, clientVars, poolVars, driverVars
<1>1. /\ todo # <<>> /\ call = "deinit" /\ ~asked /\ DeinitPart /\ ~Stuck /\ ~Submitting
      /\ initialized /\ PlanInv
      /\ UNCHANGED <<busVars, call, inits, listed, streamVars, urbs, poolVars, clientVars,
                     ctrlVars, crash>>
      /\ (UninstallDriver => Place = Closing + 3) /\ (ClientEnded => Place = Closing + 4)
      /\ (HostGone => Place = Closing + 5)
  BY DeinitAt DEF UninstallDriver, ClientEnded, HostGone
<1>2. /\ Isoc' = Isoc /\ Listing' = Listing /\ Unpausing' = Unpausing /\ Closing' = Closing
  BY <1>1, SameKind
<1>3. PlanInv' /\ (IF HostGone THEN Place' = 0 ELSE Place' \in {Closing + 4, Closing + 5})
  <2>1. CASE Continue
    <3>1. PlanInv' /\ Place' = IF Place = LastPlace THEN 0 ELSE Place + 1
      BY <1>1, <2>1, Advance
    <3>2. QED
      BY <1>1, <3>1, Numbers DEF LastPlace
  <2>2. CASE UninstallDriver /\ listed
    <3>1. todo' = Tail(Tail(todo)) /\ Place = Closing + 3
      BY <1>1, <2>2 DEF UninstallDriver
    <3>2. todo \in Seq(Names) /\ Len(todo) \in Nat /\ Len(todo) > 2
      BY <1>1, <3>1, Where, Numbers, SMTT(40) DEF PlanInv, LastPlace
    <3>3. /\ todo' \in Seq(Names) /\ Len(todo') = Len(todo) - 2
          /\ \A i \in 1 .. Len(todo) - 2 : todo'[i] = todo[i + 2]
      BY <3>1, <3>2, TailTail
    <3>4. 2 \in Nat /\ 2 <= Len(todo) /\ 2 # Len(todo)
      <4>1. \A n \in Nat : n > 2 => 2 \in Nat /\ 2 <= n /\ 2 # n
        OBVIOUS
      <4>2. QED
        BY <3>2, <4>1
    <3>5. PlanInv' /\ Place' = IF 2 = Len(todo) THEN 0 ELSE Place + 2
      BY <1>1, <3>3, <3>4, Moved
    <3>6. ~HostGone
      BY <1>1, <3>1, Numbers
    <3>7. QED
      BY <3>1, <3>4, <3>5, <3>6, Numbers
  <2>3. QED
    BY <2>1, <2>2 DEF UninstallDriver, ClientEnded, HostGone
<1>4. PoolInv' /\ FeedInv'
  BY <1>1, PoolSame, FeedSame DEF HostInv
<1>5. Place' # 0 => DeinitPart'
  <2>1. ASSUME Place' # 0
        PROVE  /\ Place > 1 /\ Place > 2 /\ ~(Place' <= Closing + 2) /\ Place' # Closing + 2
               /\ Place' # 3 /\ Place' # 4 /\ (~Isoc => Place' \notin 5 .. 7)
    <3>1. Place' \in {Closing + 4, Closing + 5}
      BY <1>3, <2>1
    <3>2. QED
      BY <1>1, <3>1, Numbers
  <2>2. QED
    BY <1>1, <1>2, <2>1 DEF DeinitPart
<1>6. OwnerInv'
  <2>1. CASE HostGone
    <3>1. Place' = 0 /\ host' = driver /\ initialized' = FALSE /\ initialized' \in BOOLEAN
          /\ UNCHANGED <<driver, client, listed>>
      BY <1>3, <2>1 DEF HostGone
    <3>2. QED
      BY <1>1, <3>1 DEF HostInv, OwnerInv
  <2>2. CASE ~HostGone
    <3>1. Place' # 0
      BY <1>3, <2>2, Numbers
    <3>2. /\ UNCHANGED <<host, initialized>>
          /\ \/ UNCHANGED <<driver, client>>
             \/ ~listed /\ driver' = FALSE /\ driver' \in BOOLEAN /\ client' = "leaving"
      BY <2>2 DEF UninstallDriver, ClientEnded
    <3>3. QED
      BY <1>1, <3>1, <3>2 DEF HostInv, OwnerInv
  <2>3. QED
    BY <2>1, <2>2
<1>7. UNCHANGED <<kind, unplugs, ctrlVars, crash>> /\ call' = "deinit"
  BY <1>1
<1>8. QED
  BY <1>1, <1>3, <1>4, <1>5, <1>6, <1>7, DeinitKeeps

-----------------------------------------------------------------------------
(* HostInv holds at boot, through idle steps, and through every step. *)
LEMMA HostInitially == Init => HostInv
<1> SUFFICES ASSUME Init PROVE HostInv
  OBVIOUS
<1> USE DEF Init
<1>1. Place = 0 /\ kind \in {"isoc", "bulk"}
  BY HostAssumption DEF Place
<1>2. PlanInv
  <2>1. Len(Plan) \in Nat
    BY DeinitTable, Numbers DEF Plan
  <2>2. QED
    BY <1>1, <2>1 DEF PlanInv
<1>3. CtrlInv
  BY DEF CtrlInv
<1>4. OwnerInv
  BY <1>1 DEF OwnerInv
<1>5. PoolInv
  <2>1. empty \in 0 .. NumFrames
    BY HostAssumption
  <2>2. /\ streaming \in BOOLEAN /\ current \in BOOLEAN /\ latest \in BOOLEAN /\ overtaken \in BOOLEAN
        /\ ~listed /\ ~streaming /\ ~current /\ ~latest
    OBVIOUS
  <2>3. QED
    BY <2>1, <2>2 DEF PoolInv, StopGivesBack
<1>6. FeedInv
  BY DEF FeedInv
<1>7. QuietInv
  BY DEF QuietInv, NoAbort
<1>8. QED
  BY <1>2, <1>3, <1>4, <1>5, <1>6, <1>7 DEF HostInv

LEMMA HostStutters ==
  ASSUME HostInv, UNCHANGED vars
  PROVE  HostInv'
<1> USE DEF vars, busVars, ownerVars, driverVars, streamVars, poolVars, clientVars
<1>1. SameCall
  BY DEF SameCall
<1>2. /\ PlanInv' /\ Place' = Place /\ Stuck' = Stuck /\ Submitting' = Submitting
      /\ Isoc' = Isoc /\ Listing' = Listing /\ Unpausing' = Unpausing /\ Closing' = Closing
  BY <1>1, Standing DEF HostInv
<1>3. CtrlInv' /\ PoolInv' /\ FeedInv'
  BY <1>1, <1>2, ControlKept, PoolSame, FeedSame DEF HostInv
<1>4. OwnerInv'
  BY <1>2 DEF HostInv, OwnerInv
<1>5. QuietInv'
  <2>1. \A S : Idle(S)' = Idle(S)
    BY DEF Idle
  <2>2. QED
    BY <1>2, <2>1 DEF HostInv, QuietInv, NoAbort, ctrlVars
<1>6. QED
  BY <1>2, <1>3, <1>4, <1>5 DEF HostInv

LEMMA HostSteps == HostInv /\ [Next]_vars => HostInv'
<1> SUFFICES ASSUME HostInv, [Next]_vars PROVE HostInv'
  OBVIOUS
<1>1. CASE CallInit \/ CallDeinit \/ Capture
  BY <1>1, CallInitKeeps, CallDeinitKeeps, CaptureKeeps
<1>2. CASE Request \/ Compare \/ InstallHost \/ InstallDriver \/ Find \/ Acquire \/ List
  BY <1>2, RequestInv, CompareKeeps, InstallHostKeeps, InstallDriverKeeps, FindKeeps,
     AcquireKeeps, ListKeeps
<1>3. CASE Unpause \/ SubmitUrbs \/ Ready \/ Warm
  BY <1>3, UnpauseKeeps, SubmitUrbsKeeps, ReadyKeeps
<1>4. CASE \/ StopPause \/ Settle \/ Flush \/ CloseCheck \/ CloseRecheck
           \/ Release \/ UninstallDriver \/ ClientEnded \/ HostGone
  BY <1>4, StopPauseKeeps, SettleKeeps, FlushKeeps, CloseKeeps, ReleaseKeeps, UninstallKeeps
<1>5. CASE CtrlDone \/ Packet \/ Content
  BY <1>5, CtrlDoneKeeps, TakeKeeps, FailedKeeps, BeginKeeps, RestartKeeps, EndKeeps
     DEF Packet, Content
<1>6. CASE Client
  BY <1>6, FillKeeps, DeliverKeeps, OverKeeps, GoneKeeps, TeardownKeeps, FailedKeeps DEF Client
<1>7. CASE Unplug \/ Replug
  BY <1>7, UnplugKeeps, ReplugKeeps
<1>8. CASE UNCHANGED vars
  BY <1>8, HostStutters
<1>9. QED
  BY <1>1, <1>2, <1>3, <1>4, <1>5, <1>6, <1>7, <1>8 DEF Next, Owner

(* The invariant the four results rest on: where a call is in its plan      *)
(* (PlanInv), what it has got to (OwnerInv), whose completion the one       *)
(* control transfer carries (CtrlInv), where the frames are (PoolInv), what *)
(* the transfers do (FeedInv), how far the deinit has quieted them (QuietInv). *)
THEOREM HostInvariant == Spec => []HostInv
<1>1. Init => HostInv
  BY HostInitially
<1>2. HostInv /\ [Next]_vars => HostInv'
  BY HostSteps
<1>3. QED
  BY <1>1, <1>2, PTL DEF Spec

(* kind never leaves the kinds it was chosen from. *)
LEMMA KindKept == Spec => [](kind \in Kinds)
<1>1. Init => kind \in Kinds
  BY DEF Init
<1>2. kind \in Kinds /\ [Next]_vars => (kind \in Kinds)'
  <2>1. ASSUME [Next]_vars PROVE kind' = kind
    <3> USE DEF busVars, callbackStays, callbackKeeps, vars
    <3>1. CASE Owner
      BY <3>1 DEF Owner, Request, Submit, Answer, Timeout, Compare, InstallHost, InstallDriver, Find,
         Acquire, List, Unpause, SubmitUrbs, Ready, Warm, StopPause, Settle, Flush, CloseCheck,
         CloseRecheck, Release, UninstallDriver, ClientEnded, HostGone
    <3>2. CASE Client \/ Packet \/ Content \/ CtrlDone \/ Unplug \/ Replug
      BY <3>2 DEF Client, Packet, Content, CtrlDone, Unplug, Replug, Fill, Deliver, Over, Gone,
         Teardown, Failed, Errored, Take, Begin, Restart, End
    <3>3. CASE CallInit \/ CallDeinit \/ Capture \/ UNCHANGED vars
      BY <3>3 DEF CallInit, CallDeinit, Capture
    <3>4. QED
      BY <2>1, <3>1, <3>2, <3>3 DEF Next
  <2>2. QED
    BY <2>1
<1>3. QED
  BY <1>1, <1>2, PTL DEF Spec

(* The frames of an open stream are all accounted for, whichever task       *)
(* pauses it and whenever a picture ends, and a stopped stream keeps none,  *)
(* unless the owner stopped it in the middle of a transfer callback: that   *)
(* one may store a frame after the pause (uvc_isoc.c:140, uvc_isoc.c:181,   *)
(* uvc_bulk.c:176), with no look at streaming after the one at its start.   *)
THEOREM FramesAlwaysCounted == Spec => []FramesCounted
<1>1. HostInv /\ kind \in Kinds => FramesCounted
  <2> SUFFICES ASSUME HostInv, kind \in Kinds PROVE FramesCounted
    OBVIOUS
  <2>1. TypeOK
    BY DEF TypeOK, HostInv, PlanInv, CtrlInv, OwnerInv, PoolInv, FeedInv, QuietInv
  <2>2. PoolWhole
    <3>1. initialized \/ inits = 1 => ~Stuck
      BY DEF Stuck
    <3>2. QED
      BY <3>1 DEF HostInv, PoolInv, PoolWhole, Sum, InHand
  <2>3. QED
    BY <2>1, <2>2 DEF FramesCounted, HostInv, PoolInv
<1>2. QED
  BY <1>1, HostInvariant, KindKept, PTL

(* A control request takes the completion of its own transfer, as long as   *)
(* none has run into the timeout of uvc_host_usb_ctrl.                      *)
THEOREM AnswersAlwaysOwn == Spec => []OwnAnswer
<1>1. HostInv => OwnAnswer
  BY DEF HostInv, CtrlInv, OwnAnswer
<1>2. QED
  BY <1>1, HostInvariant, PTL

(* A stream that counts as streaming has a transfer under way, or the       *)
(* client task is about to learn that its device has gone.                  *)
THEOREM StreamAlwaysFed == Spec => []StreamFed
<1>1. HostInv => StreamFed
  <2>1. HostInv /\ Submitting => todo # <<>> /\ Head(todo) = "submit"
    <3>1. ASSUME HostInv, Submitting PROVE todo # <<>>
      <4>1. Place # 0
        BY <3>1, Numbers DEF Submitting
      <4>2. QED
        BY <4>1 DEF Place
    <3>2. QED
      BY <3>1, Poised
  <2>2. QED
    BY <2>1 DEF HostInv, FeedInv, StreamFed
<1>2. QED
  BY <1>1, HostInvariant, PTL

(* uvc_capture_deinit aborts in uvc_host_stream_close only for a bulk       *)
(* endpoint whose device was lost or whose driver has had a timeout.        *)
THEOREM AbortsOnlyBulk == Spec => []NoAbort
<1>1. HostInv => NoAbort
  BY DEF HostInv, QuietInv
<1>2. QED
  BY <1>1, HostInvariant, PTL

=============================================================================
