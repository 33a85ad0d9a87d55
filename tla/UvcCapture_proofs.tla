------------------------- MODULE UvcCapture_proofs -------------------------
(***************************************************************************)
(* Proofs about UvcCapture, for any pool with two more frames than         *)
(* consumers: as long as no two tasks are between their read and their     *)
(* write of s_latest_frame at the same time, every frame is in exactly one *)
(* place, the driver never runs dry, the semaphore tells of a frame        *)
(* exactly when there is one, and outside MJPEG no frame that overflowed   *)
(* is offered.                                                             *)
(***************************************************************************)
EXTENDS UvcCapture, FiniteSetTheorems, SequenceTheorems, TLAPS

(* The frames in a queue, and that none is in it twice.                    *)
Queued(q) == {q[i] : i \in DOMAIN q}
Once(q)   == \A i, j \in DOMAIN q : q[i] = q[j] => i = j

(* The one frame the driver is responsible for.                            *)
Driving == CASE dpc = "packet"                -> current
             [] dpc \in {"cbRead", "cbWrite"} -> done
             [] dpc = "cbTell"                -> old
             [] OTHER                         -> NoFrame

Copying == {c \in Consumers : cpc[c] = "copy"}

(* What the locals of the two sides hold at each point of the code.        *)
LocalInv ==
  /\ dpc # "packet" => current = NoFrame
  /\ dpc \in {"packet", "acquire"} => done = NoFrame /\ old = NoFrame
  /\ dpc \in {"cbRead", "cbWrite", "cbTell"} => done # NoFrame
  /\ dpc = "cbRead" => old = NoFrame
  /\ \A c \in Consumers : cpc[c] = "copy" => mine[c] # NoFrame

(* A frame that waits in s_latest_frame is announced exactly once: by the  *)
(* semaphore, by a consumer that took it and has not cleared the variable, *)
(* or by frame_callback, which is about to give the semaphore.             *)
Inside(c) == cpc[c] \in {"read", "clear"}
Telling   == dpc = "cbTell" /\ old = NoFrame
TokenInv ==
  /\ sem => ~Telling
  /\ \A c \in Consumers : Inside(c) => ~sem /\ ~Telling
  /\ \A c, d \in Consumers : Inside(c) /\ Inside(d) => c = d
  /\ latest # NoFrame <=> (sem \/ Telling \/ \E c \in Consumers : Inside(c))

(* Between a task's read and its write s_latest_frame keeps what was read. *)
ReadInv ==
  /\ dpc = "cbWrite" => old = latest
  /\ \A c \in Consumers : cpc[c] = "clear" => dpc # "cbWrite" /\ mine[c] = latest

(* Every frame is with one of four owners, and with one only: the queue q, *)
(* the driver's hand h, s_latest_frame l, or a consumer c of C, whose frame *)
(* is m[c].                                                                *)
Dealt(q, h, l, m, C) ==
  /\ Once(q)
  /\ h # NoFrame => h # l /\ h \notin Queued(q)
  /\ l # NoFrame => l \notin Queued(q)
  /\ \A c \in C : m[c] # h /\ m[c] # l /\ m[c] \notin Queued(q) /\ m[c] \in Frames
  /\ \A c, d \in C : m[c] = m[d] => c = d
  /\ \A f \in Frames : f \in Queued(q) \/ f = h \/ f = l \/ \E c \in C : f = m[c]

Owners == Dealt(empty, Driving, latest, mine, Copying)

(* Outside MJPEG the only frame that may have overflowed is the one the    *)
(* driver is skipping.                                                     *)
CutInv == format # "MJPEG" => \A f \in cut : dpc = "packet" /\ current = f /\ skip

PoolInv == LocalInv /\ (~raced => TokenInv /\ ReadInv /\ Owners) /\ CutInv

-----------------------------------------------------------------------------
(* The pool has a size.                                                    *)
LEMMA PoolSize == Cardinality(Frames) \in Nat
BY UvcAssumption, FS_CardinalityType

(* Taking the head of a queue, and putting a frame at its end.             *)
LEMMA QueueTail ==
  ASSUME NEW q \in Seq(Frames), q # <<>>, Once(q)
  PROVE  /\ Head(q) \in Frames /\ Tail(q) \in Seq(Frames) /\ Len(Tail(q)) <= Len(q)
         /\ Head(q) \in Queued(q)
         /\ Once(Tail(q)) /\ Queued(Tail(q)) = Queued(q) \ {Head(q)}
<1>1. /\ Head(q) = q[1] /\ Head(q) \in Frames /\ Tail(q) \in Seq(Frames)
      /\ Len(Tail(q)) = Len(q) - 1 /\ Len(q) \in Nat /\ Len(q) # 0
      /\ \A i \in 1 .. Len(Tail(q)) : Tail(q)[i] = q[i + 1]
  BY HeadTailProperties
<1>2. DOMAIN q = 1 .. Len(q) /\ DOMAIN Tail(q) = 1 .. Len(q) - 1
  BY <1>1
<1>3. Once(Tail(q))
  BY <1>1, <1>2 DEF Once
<1>4. Queued(Tail(q)) = Queued(q) \ {Head(q)}
  <2>1. ASSUME NEW f \in Queued(Tail(q)) PROVE f \in Queued(q) /\ f # Head(q)
    BY <1>1, <1>2 DEF Queued, Once
  <2>2. ASSUME NEW f \in Queued(q), f # Head(q) PROVE f \in Queued(Tail(q))
    <3>1. PICK i \in DOMAIN q : q[i] = f
      BY DEF Queued
    <3>2. i - 1 \in DOMAIN Tail(q) /\ Tail(q)[i - 1] = f
      BY <1>1, <1>2, <2>2, <3>1
    <3> QED
      BY <3>2 DEF Queued
  <2> QED
    BY <2>1, <2>2
<1>5. Head(q) \in Queued(q)
  BY <1>1, <1>2 DEF Queued
<1> QED
  BY <1>1, <1>3, <1>4, <1>5

LEMMA QueueAppend ==
  ASSUME NEW q \in Seq(Frames), NEW f \in Frames, Once(q), f \notin Queued(q)
  PROVE  /\ Len(q) < Cardinality(Frames)
         /\ Append(q, f) \in Seq(Frames)
         /\ Once(Append(q, f)) /\ Queued(Append(q, f)) = Queued(q) \cup {f}
<1>1. /\ q \in [1 .. Len(q) -> Frames] /\ Len(q) \in Nat
      /\ Append(q, f) \in Seq(Frames) /\ Len(Append(q, f)) = Len(q) + 1
      /\ \A i \in 1 .. Len(q) : Append(q, f)[i] = q[i]
      /\ Append(q, f)[Len(q) + 1] = f
  BY AppendProperties, LenProperties
<1>2. DOMAIN q = 1 .. Len(q) /\ DOMAIN Append(q, f) = 1 .. Len(q) + 1
  BY <1>1
<1>3. Len(q) < Cardinality(Frames)
  <2> DEFINE others == Frames \ {f}
  <2>1. IsFiniteSet(others) /\ Cardinality(others) = Cardinality(Frames) - 1
    BY UvcAssumption, FS_RemoveElement
  <2>2. q \in Injection(1 .. Len(q), others)
    BY <1>1, <1>2 DEF Injection, IsInjective, Once, Queued
  <2>3. Cardinality(1 .. Len(q)) <= Cardinality(others)
    BY <2>1, <2>2, FS_Injection
  <2>4. Cardinality(1 .. Len(q)) = Len(q)
    <3>1. 1 \in Int /\ Len(q) \in Int
      BY <1>1
    <3>2. Cardinality(1 .. Len(q)) = IF 1 > Len(q) THEN 0 ELSE Len(q) - 1 + 1
      BY <3>1, FS_Interval, Zenon
    <3> QED
      BY <1>1, <3>2
  <2> QED
    BY <1>1, <2>1, <2>3, <2>4, PoolSize
<1>4. Once(Append(q, f))
  BY <1>1, <1>2 DEF Once, Queued
<1>5. Queued(Append(q, f)) = Queued(q) \cup {f}
  <2>1. ASSUME NEW g \in Queued(q) PROVE g \in Queued(Append(q, f))
    BY <1>1, <1>2 DEF Queued
  <2>2. ASSUME NEW g \in Queued(Append(q, f)), g # f PROVE g \in Queued(q)
    BY <1>1, <1>2, <2>2 DEF Queued
  <2>3. f \in Queued(Append(q, f))
    BY <1>1, <1>2 DEF Queued
  <2> QED
    BY <2>1, <2>2, <2>3
<1> QED
  BY <1>1, <1>3, <1>4, <1>5

-----------------------------------------------------------------------------
(* How frames change hands.  The driver draws a frame from the queue and   *)
(* returns it; it exchanges its frame for the one in s_latest_frame; a     *)
(* consumer takes that one and gives it back.                              *)
LEMMA Draw ==
  ASSUME NEW q \in Seq(Frames), NEW l \in Frame0, NEW m, NEW C,
         Dealt(q, NoFrame, l, m, C), q # <<>>
  PROVE  Dealt(Tail(q), Head(q), l, m, C)
BY QueueTail, UvcAssumption DEF Dealt, Frame0

LEMMA GoesBack ==
  ASSUME NEW q \in Seq(Frames), NEW f \in Frames, NEW l \in Frame0, NEW m, NEW C,
         Dealt(q, f, l, m, C)
  PROVE  Len(q) < Cardinality(Frames) /\ Dealt(Append(q, f), NoFrame, l, m, C)
BY QueueAppend, UvcAssumption DEF Dealt, Frame0

LEMMA Exchange ==
  ASSUME NEW q \in Seq(Frames), NEW h \in Frame0, NEW l \in Frame0, NEW m, NEW C,
         Dealt(q, h, l, m, C)
  PROVE  Dealt(q, l, h, m, C)
BY DEF Dealt

LEMMA PickUp ==
  ASSUME NEW q \in Seq(Frames), NEW h \in Frame0, NEW l \in Frames, NEW m, NEW C,
         NEW c, Dealt(q, h, l, m, C), m[c] = l
  PROVE  Dealt(q, h, NoFrame, m, C \cup {c})
BY UvcAssumption DEF Dealt, Frame0

LEMMA GiveBack ==
  ASSUME NEW q \in Seq(Frames), NEW h \in Frame0, NEW l \in Frame0, NEW m, NEW C,
         NEW c \in C, Dealt(q, h, l, m, C)
  PROVE  Len(q) < Cardinality(Frames) /\ Dealt(Append(q, m[c]), h, l, m, C \ {c})
BY QueueAppend DEF Dealt, Frame0

LEMMA SameHands ==
  ASSUME NEW q \in Seq(Frames), NEW h \in Frame0, NEW l \in Frame0, NEW m, NEW n,
         NEW C, \A c \in C : m[c] = n[c], Dealt(q, h, l, m, C)
  PROVE  Dealt(q, h, l, n, C)
BY DEF Dealt

LEMMA Returned ==
  ASSUME NEW q \in Seq(Frames), NEW f \in Frames, latest \in Frame0,
         Dealt(q, f, latest, mine, Copying), ReturnTo(f, q)
  PROVE  Dealt(empty', NoFrame, latest, mine, Copying)
<1>1. Len(q) < Cardinality(Frames) /\ Dealt(Append(q, f), NoFrame, latest, mine, Copying)
  BY GoesBack
<1> QED
  BY <1>1 DEF ReturnTo

(* The driver has frame f in hand, the queue being q: wherever the rest of *)
(* a packet leaves the frame, it still has one owner.                      *)
LEMMA StoreDeals ==
  ASSUME LocalInv, NEW q \in Seq(Frames), NEW f \in Frame0, latest \in Frame0,
         NEW skipped \in BOOLEAN, NEW eof \in BOOLEAN,
         Dealt(q, f, latest, mine, Copying),
         Store(f, q, skipped, eof), UNCHANGED <<latest, cpc, mine>>
  PROVE  Owners'
<1>1. Copying' = Copying
  BY DEF Copying
<1>2. CASE dpc' = "packet" /\ current' = f /\ empty' = q
  BY <1>1, <1>2 DEF Owners, Driving
<1>3. CASE f # NoFrame /\ done' = f /\ dpc' = "cbRead" /\ empty' = q
  BY <1>1, <1>3 DEF Owners, Driving
<1>4. CASE f # NoFrame /\ dpc' = "packet" /\ current' = NoFrame /\ ReturnTo(f, q)
  <2>1. empty' = Append(q, f) /\ Dealt(Append(q, f), NoFrame, latest, mine, Copying)
    BY <1>4, GoesBack DEF ReturnTo, Frame0
  <2> QED
    BY <1>1, <1>4, <2>1 DEF Owners, Driving
<1> QED
  BY <1>2, <1>3, <1>4 DEF Store, EndOfFrame, Deliverable, HandOver

-----------------------------------------------------------------------------
(* Types, and what the locals hold.                                        *)
Inv == TypeOK /\ PoolInv

LEMMA ReturnTypes ==
  ASSUME TypeOK, NEW f \in Frames, NEW q \in Seq(Frames), Len(q) <= Cardinality(Frames),
         ReturnTo(f, q)
  PROVE  /\ empty' \in Seq(Frames) /\ Len(empty') <= Cardinality(Frames)
         /\ len' \in [Frames -> 0 .. Capacity] /\ cut' \subseteq Frames
<1>1. empty' \in Seq(Frames) /\ Len(empty') <= Cardinality(Frames)
  BY AppendProperties, LenProperties, PoolSize DEF ReturnTo
<1>2. len' \in [Frames -> 0 .. Capacity] /\ cut' \subseteq Frames
  BY UvcAssumption DEF ReturnTo, TypeOK
<1> QED
  BY <1>1, <1>2

(* What the rest of a packet leaves behind. *)
Stored ==
  /\ empty' \in Seq(Frames) /\ Len(empty') <= Cardinality(Frames)
  /\ len' \in [Frames -> 0 .. Capacity] /\ cut' \subseteq Frames
  /\ current' \in Frame0 /\ skip' \in BOOLEAN /\ done' \in Frame0
  /\ dpc' \in {"packet", "cbRead"} /\ after' \in {"packet", "acquire"}
  /\ dpc' = "packet" => done' = NoFrame
  /\ dpc' = "cbRead" => done' # NoFrame /\ current' = NoFrame

LEMMA StoreTypes ==
  ASSUME TypeOK, LocalInv, NEW f \in Frame0, NEW q \in Seq(Frames),
         Len(q) <= Cardinality(Frames), NEW skipped \in BOOLEAN, NEW eof \in BOOLEAN,
         dpc \in {"packet", "acquire"}, Store(f, q, skipped, eof)
  PROVE  Stored
<1> USE DEF Stored
<1>1. CASE ~skipped /\ ~Fits(f)
  BY <1>1 DEF Store, TypeOK, LocalInv, Frame0
<1>2. CASE skipped \/ Fits(f)
  <2> DEFINE filled == IF skipped THEN len ELSE [len EXCEPT ![f] = @ + 1]
  <2>1. filled \in [Frames -> 0 .. Capacity]
    BY <1>2, UvcAssumption DEF TypeOK, Fits, Frame0
  <2>2. CASE ~eof
    BY <1>2, <2>1, <2>2 DEF Store, TypeOK, LocalInv, Frame0
  <2>3. CASE eof
    <3> HIDE DEF filled
    <3>1. EndOfFrame(f, q, skipped, filled) /\ skip' = skipped
      BY <1>2, <2>3 DEF Store, filled
    <3>2. CASE Deliverable(f, skipped)
      BY <2>1, <3>1, <3>2 DEF EndOfFrame, HandOver, Deliverable, TypeOK, Frame0
    <3>3. CASE ~Deliverable(f, skipped) /\ f = NoFrame
      BY <3>1, <3>3 DEF EndOfFrame, TypeOK, LocalInv, Frame0
    <3>4. CASE ~Deliverable(f, skipped) /\ f # NoFrame
      BY <3>1, <3>4, ReturnTypes DEF EndOfFrame, TypeOK, LocalInv, Frame0
    <3> QED
      BY <3>2, <3>3, <3>4
  <2> QED
    BY <2>2, <2>3
<1> QED
  BY <1>1, <1>2

LEMMA TypeStep == TypeOK /\ LocalInv /\ [Next]_vars => TypeOK' /\ LocalInv'
<1> SUFFICES ASSUME TypeOK, LocalInv, [Next]_vars PROVE TypeOK' /\ LocalInv'
  OBVIOUS
<1> USE DEF Frame0
<1>1. CASE Reject
  BY <1>1 DEF Reject, TypeOK, LocalInv, driverKeeps, poolVars, taskVars
<1>2. CASE Acquire
  <2>1. CASE empty = <<>>
    <3>1. Store(NoFrame, empty, TRUE, eofLeft)
      BY <1>2, <2>1 DEF Acquire
    <3>2. Stored
      BY <1>2, <3>1, StoreTypes DEF Acquire, TypeOK
    <3> QED
      BY <1>2, <3>2 DEF Stored, Acquire, TypeOK, LocalInv, driverKeeps, taskVars
  <2>2. CASE empty # <<>>
    <3>1. Store(Head(empty), Tail(empty), FALSE, eofLeft)
      BY <1>2, <2>2 DEF Acquire
    <3>2. /\ Head(empty) \in Frame0 /\ Tail(empty) \in Seq(Frames)
          /\ Len(Tail(empty)) <= Cardinality(Frames)
      BY <2>2, HeadTailProperties, PoolSize DEF TypeOK
    <3>3. Stored
      BY <1>2, <3>1, <3>2, StoreTypes DEF Acquire, TypeOK
    <3> QED
      BY <1>2, <3>3 DEF Stored, Acquire, TypeOK, LocalInv, driverKeeps, taskVars
  <2> QED
    BY <2>1, <2>2
<1>3. CASE Disconnect
  <2>1. CASE current = NoFrame
    BY <1>3, <2>1 DEF Disconnect, TypeOK, LocalInv, poolVars, callVars, taskVars
  <2>2. CASE current # NoFrame
    BY <1>3, <2>2, ReturnTypes
       DEF Disconnect, TypeOK, LocalInv, callVars, taskVars
  <2> QED
    BY <2>1, <2>2
<1>4. ASSUME NEW id \in 0 .. 1, NEW err \in BOOLEAN, NEW eof \in EofBits,
             Continue(id, err, eof)
      PROVE  TypeOK' /\ LocalInv'
  <2>1. Stored
    BY <1>4, StoreTypes, UvcAssumption DEF Continue, TypeOK
  <2> QED
    BY <1>4, <2>1 DEF Stored, Continue, TypeOK, LocalInv, driverKeeps, taskVars
<1>5. ASSUME NEW id \in 0 .. 1, NEW err \in BOOLEAN, NEW eof \in EofBits,
             StartFirst(id, err, eof)
      PROVE  TypeOK' /\ LocalInv'
  <2>1. CASE empty = <<>>
    BY <1>5, <2>1
       DEF StartFirst, TypeOK, LocalInv, driverKeeps, taskVars, poolVars
  <2>2. CASE empty # <<>>
    <3>1. /\ Head(empty) \in Frame0 /\ Tail(empty) \in Seq(Frames)
          /\ Len(Tail(empty)) <= Cardinality(Frames)
      BY <2>2, HeadTailProperties, PoolSize DEF TypeOK
    <3>2. Store(Head(empty), Tail(empty), err, eof) /\ eof \in BOOLEAN
      BY <1>5, <2>2, UvcAssumption DEF StartFirst
    <3>3. Stored
      BY <1>5, <3>1, <3>2, StoreTypes DEF StartFirst
    <3> QED
      BY <1>5, <3>3 DEF Stored, StartFirst, TypeOK, LocalInv, driverKeeps, taskVars
  <2> QED
    BY <2>1, <2>2
<1>6. ASSUME NEW id \in 0 .. 1, NEW err \in BOOLEAN, NEW eof \in EofBits,
             StartNext(id, err, eof)
      PROVE  TypeOK' /\ LocalInv'
  <2>1. CASE format = "MJPEG" /\ ~err
    BY <1>6, <2>1, UvcAssumption
       DEF StartNext, HandOver, TypeOK, LocalInv, driverKeeps, taskVars, poolVars
  <2>2. CASE ~(format = "MJPEG" /\ ~err)
    BY <1>6, <2>2, ReturnTypes, UvcAssumption
       DEF StartNext, TypeOK, LocalInv, driverKeeps, taskVars
  <2> QED
    BY <2>1, <2>2
<1>7. CASE CbRead
  BY <1>7 DEF CbRead, TypeOK, LocalInv, poolVars, isocVars, taskVars
<1>8. CASE CbWrite
  BY <1>8 DEF CbWrite, TypeOK, LocalInv, poolVars, isocVars, taskVars
<1>9. CASE CbTell
  <2>1. CASE old = NoFrame
    BY <1>9, <2>1 DEF CbTell, TypeOK, LocalInv, poolVars, isocVars, taskVars
  <2>2. CASE old # NoFrame
    BY <1>9, <2>2, ReturnTypes
       DEF CbTell, TypeOK, LocalInv, isocVars, taskVars
  <2> QED
    BY <2>1, <2>2
<1>10. ASSUME NEW c \in Consumers, Wait(c) \/ Timeout(c) \/ Take(c) \/ Read(c) \/ Clear(c)
       PROVE  TypeOK' /\ LocalInv'
  <2>0. /\ cpc' = [cpc EXCEPT ![c] = cpc'[c]] /\ cpc'[c] \in {"idle", "wait", "read", "clear", "copy"}
        /\ (cpc'[c] = "copy") => (mine'[c] # NoFrame)
        /\ latest' \in Frame0 /\ sem' \in BOOLEAN /\ raced' \in BOOLEAN
        /\ mine' = [mine EXCEPT ![c] = mine'[c]] /\ mine'[c] \in Frame0
        /\ UNCHANGED <<consumerKeeps, poolVars>>
    <3> USE DEF Goto, consumerKeeps, TypeOK, LocalInv
    <3>1. CASE Wait(c)
      BY <3>1 DEF Wait
    <3>2. CASE Timeout(c)
      BY <3>2 DEF Timeout
    <3>3. CASE Take(c)
      BY <3>3 DEF Take
    <3>4. CASE Read(c)
      BY <3>4 DEF Read
    <3>5. CASE Clear(c)
      BY <3>5 DEF Clear
    <3> QED
      BY <1>10, <3>1, <3>2, <3>3, <3>4, <3>5
  <2> QED
    BY <2>0, SMTT(40) DEF TypeOK, LocalInv, consumerKeeps, isocVars, poolVars, callVars, Frame0
<1>11. ASSUME NEW c \in Consumers, Finish(c) PROVE TypeOK' /\ LocalInv'
  <2>1. mine[c] \in Frames
    BY <1>11 DEF Finish, TypeOK, LocalInv
  <2> QED
    BY <1>11, <2>1, ReturnTypes
       DEF Finish, Goto, consumerKeeps, TypeOK, LocalInv, isocVars, callVars
<1>12. CASE UNCHANGED vars
  BY <1>12 DEF vars, TypeOK, LocalInv, poolVars, isocVars, callVars, taskVars
<1> QED
  BY <1>1, <1>2, <1>3, <1>4, <1>5, <1>6, <1>7, <1>8, <1>9, <1>10, <1>11, <1>12
     DEF Next, Driver, Consumer

-----------------------------------------------------------------------------
(* The driver's steps on packets touch neither s_latest_frame nor its      *)
(* semaphore.                                                              *)
Packet ==
  \/ Reject \/ Acquire \/ Disconnect
  \/ \E id \in 0 .. 1, err \in BOOLEAN, eof \in EofBits :
       Continue(id, err, eof) \/ StartFirst(id, err, eof) \/ StartNext(id, err, eof)

LEMMA PacketApart ==
  ASSUME Packet
  PROVE  /\ dpc \in {"packet", "acquire"} /\ dpc' \notin {"cbWrite", "cbTell"}
         /\ UNCHANGED <<latest, sem, old, cpc, mine, raced, format>>
<1>1. CASE Reject
  BY <1>1 DEF Reject, driverKeeps, callVars, taskVars
<1>2. CASE Acquire
  BY <1>2 DEF Acquire, Store, EndOfFrame, HandOver, driverKeeps, callVars, taskVars
<1>3. CASE Disconnect
  BY <1>3 DEF Disconnect, HandOver, driverKeeps, callVars, taskVars
<1>4. ASSUME NEW id \in 0 .. 1, NEW err \in BOOLEAN, NEW eof \in EofBits, Continue(id, err, eof)
      PROVE  /\ dpc \in {"packet", "acquire"} /\ dpc' \notin {"cbWrite", "cbTell"}
             /\ UNCHANGED <<latest, sem, old, cpc, mine, raced, format>>
  BY <1>4 DEF Continue, Store, EndOfFrame, HandOver, driverKeeps, callVars, taskVars
<1>5. ASSUME NEW id \in 0 .. 1, NEW err \in BOOLEAN, NEW eof \in EofBits, StartFirst(id, err, eof)
      PROVE  /\ dpc \in {"packet", "acquire"} /\ dpc' \notin {"cbWrite", "cbTell"}
             /\ UNCHANGED <<latest, sem, old, cpc, mine, raced, format>>
  BY <1>5 DEF StartFirst, Store, EndOfFrame, HandOver, driverKeeps, callVars, taskVars
<1>6. ASSUME NEW id \in 0 .. 1, NEW err \in BOOLEAN, NEW eof \in EofBits, StartNext(id, err, eof)
      PROVE  /\ dpc \in {"packet", "acquire"} /\ dpc' \notin {"cbWrite", "cbTell"}
             /\ UNCHANGED <<latest, sem, old, cpc, mine, raced, format>>
  BY <1>6 DEF StartNext, Store, EndOfFrame, HandOver, driverKeeps, callVars, taskVars
<1>7. QED
  BY <1>1, <1>2, <1>3, <1>4, <1>5, <1>6 DEF Packet

LEMMA TokenStep ==
  TypeOK /\ LocalInv /\ TokenInv /\ ReadInv /\ [Next]_vars /\ ~raced'
    => TokenInv' /\ ReadInv'
<1> SUFFICES ASSUME TypeOK, LocalInv, TokenInv, ReadInv, [Next]_vars, ~raced'
             PROVE  TokenInv' /\ ReadInv'
  OBVIOUS
<1> USE DEF TokenInv, ReadInv, Inside, Telling, LocalInv
<1>1. CASE Packet
  BY <1>1, PacketApart
<1>2. CASE CbRead
  BY <1>2 DEF CbRead, taskVars
<1>3. CASE CbWrite
  BY <1>3 DEF CbWrite, taskVars
<1>4. CASE CbTell
  BY <1>4 DEF CbTell, taskVars, TypeOK
<1>5. ASSUME NEW c \in Consumers, Consumer(c)
      PROVE  TokenInv' /\ ReadInv'
  <2> USE DEF Goto, consumerKeeps, callVars, TypeOK
  <2>1. CASE Wait(c)
    BY <2>1 DEF Wait
  <2>2. CASE Timeout(c)
    BY <2>2 DEF Timeout
  <2>3. CASE Take(c)
    BY <2>3 DEF Take
  <2>4. CASE Read(c)
    BY <2>4 DEF Read
  <2>5. CASE Clear(c)
    BY <2>5 DEF Clear
  <2>6. CASE Finish(c)
    BY <2>6 DEF Finish
  <2> QED
    BY <1>5, <2>1, <2>2, <2>3, <2>4, <2>5, <2>6 DEF Consumer
<1>6. CASE UNCHANGED vars
  BY <1>6 DEF vars, callVars, taskVars
<1> QED
  BY <1>1, <1>2, <1>3, <1>4, <1>5, <1>6 DEF Next, Driver, Packet

LEMMA OwnersStep ==
  TypeOK /\ LocalInv /\ TokenInv /\ ReadInv /\ Owners /\ [Next]_vars /\ ~raced' => Owners'
<1> SUFFICES ASSUME TypeOK, LocalInv, TokenInv, ReadInv, Owners, [Next]_vars, ~raced'
             PROVE  Owners'
  OBVIOUS
<1> USE DEF Frame0
<1>0. /\ empty \in Seq(Frames) /\ current \in Frame0 /\ done \in Frame0 /\ old \in Frame0
      /\ latest \in Frame0 /\ mine \in [Consumers -> Frame0]
      /\ after \in {"packet", "acquire"} /\ NoFrame \notin Frames
      /\ eofLeft \in BOOLEAN
  BY UvcAssumption DEF TypeOK
<1>1. CASE Reject
  BY <1>1 DEF Reject, Owners, Driving, Copying, driverKeeps, poolVars, taskVars
<1>2. CASE Acquire
  <2>1. Dealt(empty, NoFrame, latest, mine, Copying)
    BY <1>2 DEF Acquire, Owners, Driving
  <2>2. CASE empty = <<>>
    <3>1. Store(NoFrame, empty, TRUE, eofLeft) /\ UNCHANGED <<latest, cpc, mine>>
      BY <1>2, <2>2 DEF Acquire, driverKeeps, taskVars
    <3> QED
      BY <1>0, <2>1, <3>1, StoreDeals
  <2>3. CASE empty # <<>>
    <3>1. Store(Head(empty), Tail(empty), FALSE, eofLeft) /\ UNCHANGED <<latest, cpc, mine>>
      BY <1>2, <2>3 DEF Acquire, driverKeeps, taskVars
    <3>2. /\ Head(empty) \in Frames /\ Tail(empty) \in Seq(Frames)
          /\ Dealt(Tail(empty), Head(empty), latest, mine, Copying)
      BY <1>0, <2>1, <2>3, Draw, HeadTailProperties
    <3> QED
      BY <1>0, <3>1, <3>2, StoreDeals
  <2> QED
    BY <2>2, <2>3
<1>3. CASE Disconnect
  <2>1. Dealt(empty, current, latest, mine, Copying) /\ Copying' = Copying
    BY <1>3 DEF Disconnect, Owners, Driving, Copying, taskVars
  <2>2. CASE current = NoFrame
    BY <1>3, <2>1, <2>2 DEF Disconnect, Owners, Driving, poolVars, callVars, taskVars
  <2>3. CASE current # NoFrame
    <3>1. Dealt(empty', NoFrame, latest, mine, Copying)
      BY <1>0, <1>3, <2>1, <2>3, Returned DEF Disconnect
    <3> QED
      BY <1>3, <2>1, <3>1 DEF Disconnect, Owners, Driving, callVars, taskVars
  <2> QED
    BY <2>2, <2>3
<1>4. ASSUME NEW id \in 0 .. 1, NEW err \in BOOLEAN, NEW eof \in EofBits,
             Continue(id, err, eof)
      PROVE  Owners'
  <2>1. /\ Store(current, empty, skip \/ err, eof) /\ UNCHANGED <<latest, cpc, mine>>
        /\ eof \in BOOLEAN
    BY <1>4, UvcAssumption DEF Continue, driverKeeps, taskVars
  <2>2. Dealt(empty, current, latest, mine, Copying)
    BY <1>4 DEF Continue, Owners, Driving
  <2> QED
    BY <1>0, <2>1, <2>2, StoreDeals DEF TypeOK
<1>5. ASSUME NEW id \in 0 .. 1, NEW err \in BOOLEAN, NEW eof \in EofBits,
             StartFirst(id, err, eof)
      PROVE  Owners'
  <2>1. Dealt(empty, NoFrame, latest, mine, Copying) /\ UNCHANGED <<latest, cpc, mine>>
    BY <1>5 DEF StartFirst, Owners, Driving, driverKeeps, taskVars
  <2>2. CASE empty = <<>>
    BY <1>5, <2>1, <2>2 DEF StartFirst, Owners, Driving, Copying, poolVars
  <2>3. CASE empty # <<>>
    <3>1. Store(Head(empty), Tail(empty), err, eof) /\ eof \in BOOLEAN
      BY <1>5, <2>3, UvcAssumption DEF StartFirst
    <3>2. /\ Head(empty) \in Frames /\ Tail(empty) \in Seq(Frames)
          /\ Dealt(Tail(empty), Head(empty), latest, mine, Copying)
      BY <1>0, <2>1, <2>3, Draw, HeadTailProperties
    <3> QED
      BY <1>0, <2>1, <3>1, <3>2, StoreDeals
  <2> QED
    BY <2>2, <2>3
<1>6. ASSUME NEW id \in 0 .. 1, NEW err \in BOOLEAN, NEW eof \in EofBits,
             StartNext(id, err, eof)
      PROVE  Owners'
  <2>1. /\ Dealt(empty, current, latest, mine, Copying) /\ current \in Frames
        /\ UNCHANGED <<latest, cpc, mine>> /\ Copying' = Copying
    BY <1>0, <1>6 DEF StartNext, Owners, Driving, Copying, driverKeeps, taskVars
  <2>2. CASE format = "MJPEG" /\ ~err
    BY <1>6, <2>1, <2>2 DEF StartNext, HandOver, Owners, Driving, poolVars
  <2>3. CASE ~(format = "MJPEG" /\ ~err)
    <3>1. Dealt(empty', NoFrame, latest, mine, Copying)
      BY <1>0, <1>6, <2>1, <2>3, Returned DEF StartNext
    <3> QED
      BY <1>6, <2>1, <2>3, <3>1 DEF StartNext, Owners, Driving
  <2> QED
    BY <2>2, <2>3
<1>7. CASE CbRead
  BY <1>7 DEF CbRead, Owners, Driving, Copying, poolVars, taskVars
<1>8. CASE CbWrite
  <2>1. Dealt(empty, latest, done, mine, Copying) /\ Copying' = Copying /\ old = latest
    BY <1>0, <1>8, Exchange DEF CbWrite, Owners, Driving, ReadInv, Copying, taskVars
  <2> QED
    BY <1>8, <2>1 DEF CbWrite, Owners, Driving, poolVars, taskVars
<1>9. CASE CbTell
  <2>1. Dealt(empty, old, latest, mine, Copying) /\ Copying' = Copying
    BY <1>9 DEF CbTell, Owners, Driving, Copying, taskVars
  <2>2. CASE old = NoFrame
    BY <1>0, <1>9, <2>1, <2>2
       DEF CbTell, Owners, Driving, LocalInv, poolVars, isocVars, taskVars
  <2>3. CASE old # NoFrame
    <3>1. Dealt(empty', NoFrame, latest, mine, Copying)
      BY <1>0, <1>9, <2>1, <2>3, Returned DEF CbTell
    <3> QED
      BY <1>0, <1>9, <2>1, <3>1 DEF CbTell, Owners, Driving, LocalInv, isocVars, taskVars
  <2> QED
    BY <2>2, <2>3
<1>10. ASSUME NEW c \in Consumers, Wait(c) \/ Timeout(c) \/ Take(c)
       PROVE  Owners'
  <2>1. Copying' = Copying
    BY <1>10 DEF Wait, Timeout, Take, Goto, Copying, TypeOK
  <2> QED
    BY <1>10, <2>1 DEF Wait, Timeout, Take, Owners, Driving, consumerKeeps, poolVars,
                       isocVars, callVars
<1>11. ASSUME NEW c \in Consumers, Read(c)
       PROVE  Owners'
  <2>1. Copying' = Copying /\ \A d \in Copying : mine[d] = mine'[d]
    BY <1>0, <1>11 DEF Read, Goto, Copying, TypeOK
  <2>2. Driving' = Driving /\ Driving \in Frame0 /\ UNCHANGED <<empty, latest>>
    BY <1>0, <1>11 DEF Read, Driving, consumerKeeps, poolVars, isocVars, callVars
  <2> QED
    BY <1>0, <2>1, <2>2, SameHands DEF Owners
<1>12. ASSUME NEW c \in Consumers, Clear(c)
       PROVE  Owners'
  <2>1. /\ latest \in Frames /\ mine[c] = latest
        /\ Copying' = Copying \cup {c} /\ latest' = NoFrame
    BY <1>0, <1>12 DEF Clear, Goto, Copying, TypeOK, TokenInv, ReadInv, Inside
  <2>2. Driving' = Driving /\ Driving \in Frame0 /\ UNCHANGED <<empty, mine>>
    BY <1>0, <1>12 DEF Clear, Driving, consumerKeeps, poolVars, isocVars, callVars
  <2> QED
    BY <1>0, <2>1, <2>2, PickUp DEF Owners
<1>13. ASSUME NEW c \in Consumers, Finish(c)
       PROVE  Owners'
  <2>1. c \in Copying /\ mine[c] \in Frames
    BY <1>0, <1>13 DEF Finish, Copying, LocalInv
  <2>2. Driving' = Driving /\ Driving \in Frame0 /\ UNCHANGED latest
    BY <1>0, <1>13 DEF Finish, Driving, consumerKeeps, isocVars, callVars
  <2>3. /\ Len(empty) < Cardinality(Frames)
        /\ Dealt(Append(empty, mine[c]), Driving, latest, mine, Copying \ {c})
    BY <1>0, <2>1, <2>2, GiveBack DEF Owners
  <2>4. empty' = Append(empty, mine[c]) /\ empty' \in Seq(Frames)
    BY <1>0, <1>13, <2>1, <2>3, AppendProperties DEF Finish, ReturnTo
  <2>5. Copying' = Copying \ {c} /\ \A d \in Copying \ {c} : mine[d] = mine'[d]
    BY <1>0, <1>13 DEF Finish, Goto, Copying, TypeOK
  <2> QED
    BY <1>0, <2>2, <2>3, <2>4, <2>5, SameHands DEF Owners
<1>14. CASE UNCHANGED vars
  BY <1>14 DEF vars, Owners, Driving, Copying, poolVars, isocVars, callVars, taskVars
<1> QED
  BY <1>1, <1>2, <1>3, <1>4, <1>5, <1>6, <1>7, <1>8, <1>9, <1>10, <1>11, <1>12, <1>13, <1>14
     DEF Next, Driver, Consumer

-----------------------------------------------------------------------------
(* A picture that overflowed is skipped, so its frame goes back.           *)
LEMMA StoreCuts ==
  ASSUME NEW f \in Frame0, NEW q, NEW skipped \in BOOLEAN, NEW eof \in BOOLEAN,
         cut \subseteq Frames, \A g \in cut : g = f /\ skipped,
         dpc \in {"packet", "acquire"}, Store(f, q, skipped, eof)
  PROVE  \A g \in cut' : dpc' = "packet" /\ current' = g /\ skip'
BY UvcAssumption DEF Store, EndOfFrame, Deliverable, HandOver, ReturnTo, Frame0

LEMMA CutStep == TypeOK /\ LocalInv /\ CutInv /\ [Next]_vars => CutInv'
<1> SUFFICES ASSUME TypeOK, LocalInv, CutInv, [Next]_vars, format' # "MJPEG"
             PROVE  \A g \in cut' : dpc' = "packet" /\ current' = g /\ skip'
  BY DEF CutInv
<1>0. /\ cut \subseteq Frames /\ current \in Frame0 /\ skip \in BOOLEAN
      /\ eofLeft \in BOOLEAN /\ NoFrame \notin Frames /\ EofBits \subseteq BOOLEAN
      /\ empty \in Seq(Frames) /\ (dpc # "packet" => current = NoFrame)
  BY UvcAssumption DEF TypeOK, LocalInv
<1>1. format' = format
  BY DEF Next, Driver, Consumer, Reject, Acquire, Disconnect, Continue, StartFirst,
         StartNext, CbRead, CbWrite, CbTell, Wait, Timeout, Take, Read, Clear, Finish,
         driverKeeps, consumerKeeps, vars
<1>2. \A g \in cut : dpc = "packet" /\ current = g /\ skip
  BY <1>1 DEF CutInv
<1>3. CASE Reject
  BY <1>2, <1>3 DEF Reject, poolVars
<1>4. CASE Acquire
  <2>1. CASE empty = <<>>
    <3>1. Store(NoFrame, empty, TRUE, eofLeft) /\ dpc = "acquire" /\ NoFrame \in Frame0
      BY <1>4, <2>1 DEF Acquire, Frame0
    <3> QED
      BY <1>0, <1>2, <3>1, StoreCuts
  <2>2. CASE empty # <<>>
    <3>1. Store(Head(empty), Tail(empty), FALSE, eofLeft) /\ dpc = "acquire"
      BY <1>4, <2>2 DEF Acquire
    <3>2. Head(empty) \in Frame0
      BY <1>0, <2>2, HeadTailProperties DEF Frame0
    <3> QED
      BY <1>0, <1>2, <3>1, <3>2, StoreCuts
  <2> QED
    BY <2>1, <2>2
<1>5. CASE Disconnect
  BY <1>0, <1>2, <1>5 DEF Disconnect, ReturnTo, poolVars, callVars
<1>6. ASSUME NEW id \in 0 .. 1, NEW err \in BOOLEAN, NEW eof \in EofBits,
             Continue(id, err, eof)
      PROVE  \A g \in cut' : dpc' = "packet" /\ current' = g /\ skip'
  <2>1. /\ Store(current, empty, skip \/ err, eof) /\ dpc = "packet"
        /\ eof \in BOOLEAN /\ (skip \/ err) \in BOOLEAN
        /\ \A g \in cut : g = current /\ (skip \/ err)
    BY <1>0, <1>2, <1>6 DEF Continue
  <2> HIDE DEF Frame0
  <2> QED
    BY <1>0, <2>1, StoreCuts
<1>7. ASSUME NEW id \in 0 .. 1, NEW err \in BOOLEAN, NEW eof \in EofBits,
             StartFirst(id, err, eof)
      PROVE  \A g \in cut' : dpc' = "packet" /\ current' = g /\ skip'
  <2>1. \A g \in cut : FALSE
    BY <1>0, <1>2, <1>7 DEF StartFirst
  <2>2. CASE empty = <<>>
    BY <1>7, <2>1, <2>2 DEF StartFirst, poolVars
  <2>3. CASE empty # <<>>
    <3>1. Store(Head(empty), Tail(empty), err, eof) /\ dpc = "packet" /\ eof \in BOOLEAN
      BY <1>0, <1>7, <2>3 DEF StartFirst
    <3>2. Head(empty) \in Frame0
      BY <1>0, <2>3, HeadTailProperties DEF Frame0
    <3> QED
      BY <1>0, <2>1, <3>1, <3>2, StoreCuts
  <2> QED
    BY <2>2, <2>3
<1>8. ASSUME NEW id \in 0 .. 1, NEW err \in BOOLEAN, NEW eof \in EofBits,
             StartNext(id, err, eof)
      PROVE  \A g \in cut' : dpc' = "packet" /\ current' = g /\ skip'
  BY <1>1, <1>2, <1>8 DEF StartNext, ReturnTo
<1>9. CASE CbRead \/ CbWrite \/ CbTell
  BY <1>2, <1>9 DEF CbRead, CbWrite, CbTell, ReturnTo, poolVars
<1>10. ASSUME NEW c \in Consumers, Consumer(c)
       PROVE  \A g \in cut' : dpc' = "packet" /\ current' = g /\ skip'
  BY <1>2, <1>10 DEF Consumer, Wait, Timeout, Take, Read, Clear, Finish, ReturnTo,
                     consumerKeeps, poolVars, isocVars, callVars
<1>11. CASE UNCHANGED vars
  BY <1>2, <1>11 DEF vars, poolVars, isocVars, callVars
<1> QED
  BY <1>3, <1>4, <1>5, <1>6, <1>7, <1>8, <1>9, <1>10, <1>11 DEF Next, Driver

-----------------------------------------------------------------------------
(* At the start every frame is in the queue, which is as long as the pool, *)
(* so that none is in it twice.                                            *)
LEMMA InitInv == Init => Inv
<1> SUFFICES ASSUME Init PROVE Inv
  OBVIOUS
<1>1. /\ empty \in [1 .. Cardinality(Frames) -> Frames] /\ empty \in Seq(Frames)
      /\ Len(empty) = Cardinality(Frames)
  BY PoolSize DEF Init
<1>2. TypeOK
  <2>1. len \in [Frames -> 0 .. Capacity] /\ mine \in [Consumers -> Frame0]
    BY UvcAssumption DEF Init, Frame0
  <2>2. cpc \in [Consumers -> {"idle", "wait", "read", "clear", "copy"}]
    BY DEF Init
  <2>3. Len(empty) <= Cardinality(Frames)
    BY <1>1, PoolSize
  <2>4. /\ format \in Formats /\ current \in Frame0 /\ fid \in 0 .. 2
        /\ latest \in Frame0 /\ dpc = "packet" /\ after = "packet"
        /\ done \in Frame0 /\ old \in Frame0 /\ cut \subseteq Frames
    BY DEF Init, Frame0
  <2>5. /\ streaming \in BOOLEAN /\ skip \in BOOLEAN /\ sem \in BOOLEAN
        /\ eofLeft \in BOOLEAN /\ raced \in BOOLEAN
    BY Zenon DEF Init
  <2> QED
    BY <1>1, <2>1, <2>2, <2>3, <2>4, <2>5 DEF TypeOK
<1>3. LocalInv /\ TokenInv /\ ReadInv /\ CutInv
  BY DEF Init, LocalInv, TokenInv, ReadInv, CutInv, Inside, Telling
<1>4. Once(empty)
  <2>1. empty \in Surjection(1 .. Cardinality(Frames), Frames)
    BY <1>1 DEF Init, Surjection
  <2>2. IsFiniteSet(1 .. Cardinality(Frames))
        /\ Cardinality(1 .. Cardinality(Frames)) = Cardinality(Frames)
    <3>1. 1 \in Int /\ Cardinality(Frames) \in Int
      BY PoolSize
    <3>2. /\ IsFiniteSet(1 .. Cardinality(Frames))
          /\ Cardinality(1 .. Cardinality(Frames)) =
               IF 1 > Cardinality(Frames) THEN 0 ELSE Cardinality(Frames) - 1 + 1
      BY <3>1, FS_Interval, Zenon
    <3> QED
      BY PoolSize, <3>2
  <2>3. empty \in Injection(1 .. Cardinality(Frames), Frames)
    BY <2>1, <2>2, UvcAssumption, FS_SurjSameCardinalityImpliesInj
  <2> QED
    BY <1>1, <2>3 DEF Injection, IsInjective, Once
<1>5. Owners
  BY <1>4 DEF Init, Owners, Dealt, Driving, Copying, Queued
<1> QED
  BY <1>2, <1>3, <1>5 DEF Inv, PoolInv

LEMMA InvStep == Inv /\ [Next]_vars => Inv'
<1> SUFFICES ASSUME Inv, [Next]_vars PROVE Inv'
  OBVIOUS
<1>1. TypeOK' /\ LocalInv'
  BY TypeStep DEF Inv, PoolInv
<1>2. CutInv'
  BY CutStep DEF Inv, PoolInv
<1>3. raced => raced'
  BY DEF Next, Driver, Consumer, Reject, Acquire, Disconnect, Continue, StartFirst,
         StartNext, CbRead, CbWrite, CbTell, Wait, Timeout, Take, Read, Clear, Finish,
         driverKeeps, vars
<1>4. ASSUME ~raced' PROVE TokenInv' /\ ReadInv' /\ Owners'
  BY <1>3, <1>4, TokenStep, OwnersStep DEF Inv, PoolInv
<1> QED
  BY <1>1, <1>2, <1>4 DEF Inv, PoolInv
-----------------------------------------------------------------------------
(* What follows from the invariant.                                        *)

(* Four owners, so one place.                                              *)
LEMMA OnePlace == Inv /\ ~raced => OwnedOnce
<1> SUFFICES ASSUME Inv, ~raced, NEW f \in Frames PROVE Cardinality(Places(f)) = 1
  BY DEF OwnedOnce
<1>0. /\ LocalInv /\ Owners /\ f # NoFrame
      /\ dpc \in {"packet", "acquire", "cbRead", "cbWrite", "cbTell"}
  BY UvcAssumption DEF Inv, PoolInv, TypeOK
<1>1. SUFFICES ASSUME TRUE PROVE \E p : Places(f) = {p}
  BY <1>1, FS_Singleton
<1>2. CASE f \in Queued(empty)
  <2>1. PICK i \in DOMAIN empty : empty[i] = f
    BY <1>2 DEF Queued
  <2>2. /\ {n \in DOMAIN empty : empty[n] = f} = {i}
        /\ {d \in Consumers : mine[d] = f /\ cpc[d] = "copy"} = {}
        /\ current # f /\ latest # f
        /\ ~(done = f /\ dpc # "cbTell") /\ ~(old = f /\ dpc = "cbTell")
    BY <1>0, <1>2, <2>1 DEF Owners, Dealt, Once, Copying, Driving, LocalInv
  <2>3. Places(f) = {<<"queue", i>>}
    BY <2>2 DEF Places
  <2> QED
    BY <2>3
<1>3. CASE f = Driving
  <2>1. /\ {n \in DOMAIN empty : empty[n] = f} = {}
        /\ {d \in Consumers : mine[d] = f /\ cpc[d] = "copy"} = {}
        /\ latest # f
    BY <1>0, <1>3 DEF Owners, Dealt, Queued, Copying
  <2>2. CASE dpc = "packet"
    <3>1. Places(f) = {"current"}
      BY <1>0, <1>3, <2>1, <2>2 DEF Places, Driving, LocalInv
    <3> QED
      BY <3>1
  <2>3. CASE dpc \in {"cbRead", "cbWrite"}
    <3>1. Places(f) = {"done"}
      BY <1>0, <1>3, <2>1, <2>3 DEF Places, Driving, LocalInv
    <3> QED
      BY <3>1
  <2>4. CASE dpc = "cbTell"
    <3>1. Places(f) = {"old"}
      BY <1>0, <1>3, <2>1, <2>4 DEF Places, Driving, LocalInv
    <3> QED
      BY <3>1
  <2> QED
    BY <1>0, <1>3, <2>2, <2>3, <2>4 DEF Driving
<1>4. CASE f = latest
  <2>1. /\ {n \in DOMAIN empty : empty[n] = f} = {}
        /\ {d \in Consumers : mine[d] = f /\ cpc[d] = "copy"} = {}
        /\ Driving # f
    BY <1>0, <1>4 DEF Owners, Dealt, Queued, Copying
  <2>2. current # f /\ ~(done = f /\ dpc # "cbTell") /\ ~(old = f /\ dpc = "cbTell")
    BY <1>0, <2>1 DEF Driving, LocalInv
  <2>3. Places(f) = {"latest"}
    BY <1>4, <2>1, <2>2 DEF Places
  <2> QED
    BY <2>3
<1>5. CASE \E c \in Copying : f = mine[c]
  <2>1. PICK c \in Copying : f = mine[c]
    BY <1>5
  <2>2. /\ {n \in DOMAIN empty : empty[n] = f} = {}
        /\ {d \in Consumers : mine[d] = f /\ cpc[d] = "copy"} = {c}
        /\ Driving # f /\ latest # f
    BY <1>0, <2>1 DEF Owners, Dealt, Queued, Copying
  <2>3. current # f /\ ~(done = f /\ dpc # "cbTell") /\ ~(old = f /\ dpc = "cbTell")
    BY <1>0, <2>2 DEF Driving, LocalInv
  <2>4. Places(f) = {<<"taken", c>>}
    BY <2>2, <2>3 DEF Places
  <2> QED
    BY <2>4
<1> QED
  BY <1>0, <1>2, <1>3, <1>4, <1>5 DEF Owners, Dealt

(* With an empty queue and nothing in the driver's hand, the pool would be *)
(* the frames of the consumers and one more.                               *)
LEMMA QueueServes == Inv => NeverDry
<1> SUFFICES ASSUME Inv, ~raced, NeedsFrame, empty = <<>> PROVE FALSE
  BY DEF NeverDry
<1>1. Owners /\ Driving = NoFrame
  BY DEF Inv, PoolInv, NeedsFrame, Driving
<1> DEFINE held == {mine[c] : c \in Consumers}
<1>2. IsFiniteSet(held) /\ Cardinality(held) <= Cardinality(Consumers)
  <2>1. mine \in Surjection(Consumers, held)
    BY DEF Inv, TypeOK, Surjection
  <2> QED
    BY <2>1, UvcAssumption, FS_Surjection
<1>3. Frames \subseteq held \cup {latest}
  BY <1>1, UvcAssumption DEF Owners, Dealt, Queued, Copying
<1>4. /\ IsFiniteSet(held \cup {latest})
      /\ Cardinality(held \cup {latest}) <= Cardinality(held) + 1
      /\ Cardinality(held) \in Nat /\ Cardinality(held \cup {latest}) \in Nat
  <2> HIDE DEF held
  <2>1. /\ IsFiniteSet(held \cup {latest})
        /\ \/ Cardinality(held \cup {latest}) = Cardinality(held)
           \/ Cardinality(held \cup {latest}) = Cardinality(held) + 1
    BY <1>2, FS_AddElement
  <2>2. Cardinality(held) \in Nat /\ Cardinality(held \cup {latest}) \in Nat
    BY <1>2, <2>1, FS_CardinalityType
  <2> QED
    BY <2>1, <2>2
<1>5. Cardinality(Frames) <= Cardinality(held \cup {latest})
  BY <1>3, <1>4, FS_Subset
<1>6. Cardinality(Consumers) \in Nat /\ Cardinality(Frames) >= Cardinality(Consumers) + 2
  BY UvcAssumption, FS_CardinalityType
<1> QED
  BY <1>2, <1>4, <1>5, <1>6, PoolSize

(* The pool serves: every frame is in exactly one place and the driver has *)
(* a buffer for every picture, for any number of frames and consumers.     *)
THEOREM PoolAlwaysServes == Spec => []PoolServes
<1>1. Inv => PoolServes
  BY OnePlace, QueueServes DEF Inv, PoolServes, FrameOwned
<1> QED
  BY <1>1, InitInv, InvStep, PTL DEF Spec

(* The semaphore is given exactly when a frame waits for a consumer, up to *)
(* the steps of frame_callback and take_frame that are on their way.       *)
THEOREM AlwaysAnnounced == Spec => []Announced
<1>1. Inv => Announced
  BY DEF Inv, PoolInv, TokenInv, Telling, Inside, Announced, InHand
<1> QED
  BY <1>1, InitInv, InvStep, PTL DEF Spec

(* Outside MJPEG no frame that overflowed waits for a consumer.            *)
THEOREM OverflowNeverOffered == Spec => []RawOverflowDiscarded
<1>1. Inv => RawOverflowDiscarded
  <2> SUFFICES ASSUME Inv, ~raced, format = "RAW", latest \in cut PROVE FALSE
    BY DEF RawOverflowDiscarded, OverflowDiscarded
  <2>1. dpc = "packet" /\ current = latest /\ latest # NoFrame
    BY UvcAssumption DEF Inv, PoolInv, CutInv, TypeOK
  <2> QED
    BY <2>1 DEF Inv, PoolInv, Owners, Dealt, Driving
<1> QED
  BY <1>1, InitInv, InvStep, PTL DEF Spec
=============================================================================
