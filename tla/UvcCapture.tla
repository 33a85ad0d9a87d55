----------------------------- MODULE UvcCapture -----------------------------
(***************************************************************************)
(* The frame pool of the capture card.  Frames travel from the queue of    *)
(* empty buffers to the driver, which fills the current one with the       *)
(* packets of an isochronous stream (uvc_isoc.c); to frame_callback, which *)
(* keeps the newest in s_latest_frame; to a task that takes it, copies it  *)
(* and returns it to the queue (uvc_capture_card_driver.c, uvc_frame.c).   *)
(* The driver runs in the USB client task; the consumers are the agent     *)
(* loop and the httpd task (live snapshot), or app_main during the warm-up *)
(* and the first test capture.  s_latest_frame is a plain volatile and the *)
(* tasks are pinned to no core, so each access to it is a step of its own. *)
(*                                                                         *)
(* A packet carries one unit of data.  Packets without effect (timed out,  *)
(* skipped, empty) are stuttering steps; the bytes before the JPEG marker, *)
(* the fingerprint and the copy of a frame are left out.                   *)
(***************************************************************************)
EXTENDS Integers, Sequences, FiniteSets

CONSTANTS Frames,      \* the buffers of the pool
          NoFrame,     \* NULL
          Consumers,   \* tasks that take frames
          Capacity,    \* packets of data that fit into a buffer
          Formats,     \* formats that may be negotiated: "MJPEG", "RAW"
          EofBits      \* values of the EoF bit the device may send

ASSUME UvcAssumption == /\ NoFrame \notin Frames
                        /\ IsFiniteSet(Frames) /\ IsFiniteSet(Consumers)
                        /\ Cardinality(Frames) >= Cardinality(Consumers) + 2
                        /\ Capacity \in Nat \ {0}
                        /\ Formats \subseteq {"MJPEG", "RAW"}
                        /\ EofBits \subseteq BOOLEAN

VARIABLES format,     \* dynamic.vs_format.format
          streaming,  \* dynamic.streaming
          empty,      \* constant.empty_fb_queue
          len,        \* data_len of every frame, in packets
          current,    \* dynamic.current_frame
          fid,        \* single_thread.current_frame_id, 2 before any packet
          skip,       \* single_thread.skip_current_frame
          latest,     \* s_latest_frame
          sem,        \* s_frame_sem, a binary semaphore
          dpc,        \* where the driver is
          after,      \* where it goes on after frame_callback
          done,       \* the frame it hands to frame_callback
          old,        \* local of frame_callback
          eofLeft,    \* EoF bit of the packet whose start it is handling
          cpc,        \* where each consumer is
          mine,       \* local `frame` of each consumer
          cut,        \* history: frames that overflowed and were not reset
          raced       \* history: two tasks have been between their read and
                      \* their write of s_latest_frame at the same time

poolVars == <<empty, len, cut>>
isocVars == <<current, fid, skip>>
callVars == <<dpc, after, done, old, eofLeft>>
taskVars == <<cpc, mine>>
vars == <<format, streaming, poolVars, isocVars, latest, sem, callVars,
          taskVars, raced>>

Init ==
  /\ format \in Formats
  /\ streaming = TRUE
  /\ empty \in {q \in [1 .. Cardinality(Frames) -> Frames] :
                  \A f \in Frames : \E i \in DOMAIN q : q[i] = f}
  /\ current = NoFrame /\ fid = 2 /\ skip = FALSE
  /\ len = [f \in Frames |-> 0]
  /\ latest = NoFrame /\ sem = FALSE
  /\ dpc = "packet" /\ after = "packet"
  /\ done = NoFrame /\ old = NoFrame /\ eofLeft = FALSE
  /\ cpc = [c \in Consumers |-> "idle"]
  /\ mine = [c \in Consumers |-> NoFrame]
  /\ cut = {} /\ raced = FALSE

(* uvc_host_frame_return: the frame is reset and queued, q being the queue. *)
(* A consumer wraps it in ESP_ERROR_CHECK: on a full queue it would abort,  *)
(* which FrameOwned rules out.                                              *)
ReturnTo(f, q) ==
  /\ empty' = IF Len(q) < Cardinality(Frames) THEN Append(q, f) ELSE q
  /\ len' = [len EXCEPT ![f] = 0]
  /\ cut' = cut \ {f}

-----------------------------------------------------------------------------
(* The driver: isoc_transfer_callback, one packet at a time.  q, where it  *)
(* is a parameter, is the queue at that point of the packet.               *)

(* Mutant: the bound check lets one packet too many in.                    *)
Fits_OneMore(f) == f # NoFrame /\ len[f] <= Capacity

(* uvc_frame_add_data succeeds *)
Fits(f) == f # NoFrame /\ len[f] < Capacity

(* Mutant: a skipped picture is delivered.                                 *)
Deliverable_Any(f, skipped) == f # NoFrame

(* invoke_fb_callback *)
Deliverable(f, skipped) == f # NoFrame /\ ~skipped

HandOver(f, next) ==
  /\ done' = f /\ after' = next
  /\ dpc' = "cbRead"

(* The EoF bit is set: deliver the frame, or return it.                    *)
EndOfFrame(f, q, skipped, filled) ==
  /\ current' = NoFrame
  /\ IF Deliverable(f, skipped)
       THEN /\ HandOver(f, "packet")
            /\ empty' = q /\ len' = filled
            /\ UNCHANGED cut
       ELSE /\ dpc' = "packet"
            /\ IF f = NoFrame THEN empty' = q /\ UNCHANGED <<len, cut>>
                              ELSE ReturnTo(f, q)
            /\ UNCHANGED <<after, done>>

(* The rest of a packet once its frame f and its skip flag are known: add  *)
(* the data, and end the picture.  An overflow leaves without doing so.    *)
Store(f, q, skipped, eof) ==
  \/ /\ ~skipped /\ ~Fits(f)
     /\ skip' = TRUE
     /\ current' = f /\ empty' = q
     /\ cut' = IF f = NoFrame THEN cut ELSE cut \cup {f}
     /\ dpc' = "packet"
     /\ UNCHANGED <<len, after, done>>
  \/ /\ skipped \/ Fits(f)
     /\ skip' = skipped
     /\ LET filled == IF skipped THEN len ELSE [len EXCEPT ![f] = @ + 1]
        IN  IF eof
              THEN EndOfFrame(f, q, skipped, filled)
              ELSE /\ current' = f /\ empty' = q /\ len' = filled
                   /\ dpc' = "packet"
                   /\ UNCHANGED <<cut, after, done>>

driverKeeps == <<format, streaming, latest, sem, old, taskVars, raced>>

(* A packet with a bus error or a malformed header *)
Reject ==
  /\ dpc = "packet" /\ streaming
  /\ skip' = TRUE
  /\ UNCHANGED <<driverKeeps, poolVars, current, fid, dpc, after, done, eofLeft>>

(* A packet of the picture being received *)
Continue(id, err, eof) ==
  /\ dpc = "packet" /\ streaming /\ id = fid
  /\ Store(current, empty, skip \/ err, eof)
  /\ UNCHANGED <<driverKeeps, fid, eofLeft>>

(* The first packet of a picture, the previous one having ended.  Without  *)
(* an empty frame the picture is skipped and the EoF bit is not looked at. *)
StartFirst(id, err, eof) ==
  /\ dpc = "packet" /\ streaming /\ id # fid
  /\ current = NoFrame
  /\ fid' = id
  /\ IF empty = <<>>
       THEN /\ skip' = TRUE
            /\ UNCHANGED <<poolVars, current, dpc, after, done>>
       ELSE Store(Head(empty), Tail(empty), err, eof)
  /\ UNCHANGED <<driverKeeps, eofLeft>>

(* The first packet of a picture, the EoF of the previous one having been  *)
(* missed: MJPEG delivers the old frame, any other format returns it.      *)
StartNext(id, err, eof) ==
  /\ dpc = "packet" /\ streaming /\ id # fid
  /\ current # NoFrame
  /\ fid' = id
  /\ skip' = err          \* old_skip is read after this assignment
  /\ current' = NoFrame
  /\ eofLeft' = eof
  /\ IF format = "MJPEG" /\ ~err
       THEN HandOver(current, "acquire") /\ UNCHANGED poolVars
       ELSE /\ ReturnTo(current, empty)
            /\ dpc' = "acquire"
            /\ UNCHANGED <<after, done>>
  /\ UNCHANGED driverKeeps

(* ... and goes on with a frame for the new picture.                       *)
Acquire ==
  /\ dpc = "acquire"
  /\ IF empty = <<>> THEN Store(NoFrame, empty, TRUE, eofLeft)
                     ELSE Store(Head(empty), Tail(empty), FALSE, eofLeft)
  /\ eofLeft' = FALSE
  /\ UNCHANGED <<driverKeeps, fid>>

(* The device is gone: uvc_host_stream_pause.  Nothing starts it again.    *)
Disconnect ==
  /\ dpc = "packet" /\ streaming
  /\ streaming' = FALSE
  /\ current' = NoFrame
  /\ IF current = NoFrame THEN UNCHANGED poolVars ELSE ReturnTo(current, empty)
  /\ UNCHANGED <<format, fid, skip, latest, sem, callVars, taskVars, raced>>

-----------------------------------------------------------------------------
(* frame_callback, in the same task                                        *)

CbRead ==
  /\ dpc = "cbRead"
  /\ old' = latest
  /\ dpc' = "cbWrite"
  /\ raced' = (raced \/ \E c \in Consumers : cpc[c] = "clear")
  /\ UNCHANGED <<format, streaming, poolVars, isocVars, latest, sem, after,
                 done, eofLeft, taskVars>>

CbWrite ==
  /\ dpc = "cbWrite"
  /\ latest' = done
  /\ dpc' = "cbTell"
  /\ UNCHANGED <<format, streaming, poolVars, isocVars, sem, after, done, old,
                 eofLeft, taskVars, raced>>

(* Mutant: the semaphore is given only when a frame was replaced.          *)
CbTell_Swapped ==
  /\ dpc = "cbTell"
  /\ IF old = NoFrame THEN UNCHANGED <<sem, poolVars>>
                      ELSE ReturnTo(old, empty) /\ sem' = TRUE
  /\ dpc' = after
  /\ done' = NoFrame /\ old' = NoFrame
  /\ UNCHANGED <<format, streaming, isocVars, latest, after, eofLeft, taskVars,
                 raced>>

CbTell ==
  /\ dpc = "cbTell"
  /\ IF old = NoFrame THEN sem' = TRUE /\ UNCHANGED poolVars
                      ELSE ReturnTo(old, empty) /\ UNCHANGED sem
  /\ dpc' = after
  /\ done' = NoFrame /\ old' = NoFrame
  /\ UNCHANGED <<format, streaming, isocVars, latest, after, eofLeft, taskVars,
                 raced>>

Driver ==
  \/ Reject \/ Acquire \/ Disconnect
  \/ \E id \in 0 .. 1, err \in BOOLEAN, eof \in EofBits :
       Continue(id, err, eof) \/ StartFirst(id, err, eof) \/ StartNext(id, err, eof)
  \/ CbRead \/ CbWrite \/ CbTell

-----------------------------------------------------------------------------
(* take_frame and the copy that follows it, in a consumer                  *)

consumerKeeps == <<format, streaming, isocVars, callVars>>

Goto(c, place) == cpc' = [cpc EXCEPT ![c] = place]

Wait(c) ==
  /\ cpc[c] = "idle"
  /\ Goto(c, "wait")
  /\ UNCHANGED <<consumerKeeps, poolVars, latest, sem, mine, raced>>

Timeout(c) ==
  /\ cpc[c] = "wait" /\ ~sem
  /\ Goto(c, "idle")
  /\ UNCHANGED <<consumerKeeps, poolVars, latest, sem, mine, raced>>

Take(c) ==
  /\ cpc[c] = "wait" /\ sem
  /\ sem' = FALSE
  /\ Goto(c, "read")
  /\ UNCHANGED <<consumerKeeps, poolVars, latest, mine, raced>>

Read(c) ==
  /\ cpc[c] = "read"
  /\ mine' = [mine EXCEPT ![c] = latest]
  /\ Goto(c, "clear")
  /\ raced' = (raced \/ dpc = "cbWrite" \/ \E d \in Consumers : cpc[d] = "clear")
  /\ UNCHANGED <<consumerKeeps, poolVars, latest, sem>>

(* Mutant: s_latest_frame keeps the frame that was taken.                  *)
Clear_Keeps(c) ==
  /\ cpc[c] = "clear"
  /\ Goto(c, IF mine[c] = NoFrame THEN "idle" ELSE "copy")
  /\ UNCHANGED <<consumerKeeps, poolVars, latest, sem, mine, raced>>

Clear(c) ==
  /\ cpc[c] = "clear"
  /\ latest' = NoFrame
  /\ Goto(c, IF mine[c] = NoFrame THEN "idle" ELSE "copy")
  /\ UNCHANGED <<consumerKeeps, poolVars, sem, mine, raced>>

(* Mutant: out of memory returns without the frame.                        *)
Finish_Leak(c) ==
  /\ cpc[c] = "copy"
  /\ mine' = [mine EXCEPT ![c] = NoFrame]
  /\ Goto(c, "idle")
  /\ UNCHANGED <<consumerKeeps, poolVars, latest, sem, raced>>

(* Copied, or out of memory: the frame goes back either way.               *)
Finish(c) ==
  /\ cpc[c] = "copy"
  /\ ReturnTo(mine[c], empty)
  /\ mine' = [mine EXCEPT ![c] = NoFrame]
  /\ Goto(c, "idle")
  /\ UNCHANGED <<consumerKeeps, latest, sem, raced>>

Consumer(c) == Wait(c) \/ Timeout(c) \/ Take(c) \/ Read(c) \/ Clear(c) \/ Finish(c)

Next == Driver \/ \E c \in Consumers : Consumer(c)

Spec == Init /\ [][Next]_vars

-----------------------------------------------------------------------------
(* Properties                                                              *)

Frame0 == Frames \cup {NoFrame}

(* Type correctness; a frame never holds more than its buffer, and the     *)
(* queue never more than the pool (uvc_frame_add_data, uvc_frame_allocate). *)
TypeOK ==
  /\ format \in Formats /\ streaming \in BOOLEAN
  /\ empty \in Seq(Frames) /\ Len(empty) <= Cardinality(Frames)
  /\ len \in [Frames -> 0 .. Capacity]
  /\ current \in Frame0 /\ fid \in 0 .. 2 /\ skip \in BOOLEAN
  /\ latest \in Frame0 /\ sem \in BOOLEAN
  /\ dpc \in {"packet", "acquire", "cbRead", "cbWrite", "cbTell"}
  /\ after \in {"packet", "acquire"}
  /\ done \in Frame0 /\ old \in Frame0 /\ eofLeft \in BOOLEAN
  /\ cpc \in [Consumers -> {"idle", "wait", "read", "clear", "copy"}]
  /\ mine \in [Consumers -> Frame0]
  /\ cut \subseteq Frames /\ raced \in BOOLEAN

(* Where a frame is: the places of the code that may read or write it.     *)
(* Until s_latest_frame is cleared, a consumer's local is only a copy of   *)
(* it; until frame_callback replaces it, so is its local `old`.            *)
Places(f) ==
  {<<"queue", i>> : i \in {n \in DOMAIN empty : empty[n] = f}}
  \cup {p \in {"current", "done", "latest", "old"} :
          \/ p = "current" /\ current = f
          \/ p = "done" /\ done = f /\ dpc # "cbTell"
          \/ p = "latest" /\ latest = f
          \/ p = "old" /\ old = f /\ dpc = "cbTell"}
  \cup {<<"taken", c>> : c \in {d \in Consumers : mine[d] = f /\ cpc[d] = "copy"}}

(* "we own it now" (take_frame), "caller owns frame" (frame_callback):     *)
(* every frame of the pool is in exactly one place, so none leaks, none is *)
(* queued twice, and the driver never fills a frame a task is copying.     *)
OwnedOnce == \A f \in Frames : Cardinality(Places(f)) = 1

(* That holds as long as no two tasks are between their read and their     *)
(* write of s_latest_frame at the same time, whatever the packets, the     *)
(* disconnection and the speed of the tasks.                               *)
FrameOwned == ~raced => OwnedOnce

(* The semaphore is given exactly when a frame waits for a consumer        *)
(* (frame_callback, take_frame), up to the steps that are on their way.    *)
InHand == \/ dpc \in {"cbWrite", "cbTell"}
          \/ \E c \in Consumers : cpc[c] \in {"read", "clear"}
Announced == ~raced /\ ~InHand => (sem <=> latest # NoFrame)

(* README of the component: the pool cannot run dry because the            *)
(* application is slow.  Whenever the driver needs a buffer for a new      *)
(* picture there is one (with two more frames than consumers).             *)
NeedsFrame == \/ dpc = "packet" /\ streaming /\ current = NoFrame
              \/ dpc = "acquire"
NeverDry == ~raced /\ NeedsFrame => empty # <<>>

(* The pool serves: no frame leaks or is shared, and the driver has a      *)
(* buffer whenever a picture begins.                                       *)
PoolServes == TypeOK /\ FrameOwned /\ NeverDry

(* "an overflowing frame is discarded": outside MJPEG, where a missed EoF  *)
(* returns the frame, no frame that overflowed is ever offered to a task.  *)
OverflowDiscarded == latest \notin cut
RawOverflowDiscarded == ~raced /\ format = "RAW" => OverflowDiscarded

(* Exploration stops where two tasks have raced.                           *)
NotRaced == ~raced
=============================================================================
