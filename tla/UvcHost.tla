------------------------------ MODULE UvcHost ------------------------------
(***************************************************************************)
(* The life of the capture stream.  uvc_capture_init and                   *)
(* uvc_capture_deinit (uvc_capture_card_driver.c) run in the owner's task  *)
(* and go through the USB host driver for UVC (uvc_host.c, uvc_control.c,  *)
(* uvc_frame.c) one step at a time; the driver's client task runs          *)
(* meanwhile and handles what the bus completes: control requests, the     *)
(* transfers (URBs) of the stream, and the loss of the device.             *)
(*                                                                         *)
(* A call is the sequence of the steps it still has to take.  What a       *)
(* picture contains and how its packets are put together is the subject of *)
(* UvcCapture; here the callback of a transfer finds in it any sequence of *)
(* beginnings and ends of pictures.                                        *)
(* Both mutexes of the driver are only ever taken by the owner's task, the *)
(* suspend and resume events are never raised (nobody suspends the port),  *)
(* and the SD card is mounted by app_main before: all three are left out.  *)
(***************************************************************************)
EXTENDS Integers, Sequences, FiniteSets

CONSTANTS Urbs,       \* the transfers of the stream
          NumFrames,  \* buffers in its pool
          Kinds,      \* "isoc" or "bulk": the endpoint the device offers
          MaxInits,   \* bound on calls of uvc_capture_init
          MaxUnplugs  \* bound on losses of the device

ASSUME HostAssumption == /\ IsFiniteSet(Urbs) /\ Urbs # {}
                         /\ NumFrames \in Nat \ {0}
                         /\ Kinds \subseteq {"isoc", "bulk"} /\ Kinds # {}
                         /\ MaxInits \in Nat /\ MaxUnplugs \in Nat

VARIABLES kind,        \* bAlternateSetting # 0: isochronous
          plugged,     \* a capture card is attached
          dev,         \* constant.dev_hdl: "none", "live" or "gone"
          lost,        \* a DEV_GONE event waits for the client task
          call,        \* the owner's current or last call: "init", "deinit"
          todo,        \* the steps it has still to take, <<>> when it is over
          initialized, \* s_initialized (s_streaming goes with it)
          host,        \* usb_host_install has been done
          driver,      \* p_uvc_host_driver is not NULL
          client,      \* the client task: "none", "running", "leaving"
          listed,      \* the stream is in uvc_stream_list
          streaming,   \* dynamic.streaming
          urbs,        \* per transfer: "none", "idle", "unsent" (to be submitted by
                       \* the loop of unpause), "flight", "failed"
          empty,       \* frames in empty_fb_queue
          current,     \* dynamic.current_frame is not NULL
          latest,      \* the application keeps a frame in s_latest_frame
          cpc,         \* where the client task is in a transfer callback: "idle",
                       \* "packets", "filling", "deliver", or "ending", which is
                       \* "deliver" at a picture that begins before the last ended
          cur,         \* the transfer whose callback runs
          ctrl,        \* ctrl_transfer is in flight
          status,      \* its status: "ok" or "error"
          done,        \* the semaphore its callback gives
          asked,       \* the owner has submitted a request and waits
          noted,       \* probe_set failed, probe_get is asked all the same
          crash,       \* "none", "abort" (ESP_ERROR_CHECK), "heap" (double free),
                       \* "assert" (uvc_frame_reset)
          inits, unplugs,  \* calls of init, losses of the device
          answered,    \* history: the request the owner waits for has completed
          borrowed,    \* history: a request took another one's completion
          timedOut,    \* history: a request has timed out
          overtaken    \* history: the owner paused the stream while the client
                       \* task was in a transfer callback

busVars == <<kind, plugged, dev, lost, unplugs>>
ownerVars == <<call, todo, initialized, host, inits>>
driverVars == <<driver, client, listed>>
streamVars == <<streaming, current>>
poolVars == <<empty, latest>>
clientVars == <<cpc, cur, overtaken>>
ctrlVars == <<ctrl, status, done, asked, noted, answered, borrowed, timedOut>>
vars == <<busVars, ownerVars, driverVars, streamVars, urbs, poolVars,
          clientVars, ctrlVars, crash>>

NoUrb == "none"

Init ==
  /\ kind \in Kinds /\ plugged \in BOOLEAN
  /\ dev = "none" /\ lost = FALSE
  /\ call = "none" /\ todo = <<>> /\ initialized = FALSE /\ host = FALSE
  /\ driver = FALSE /\ client = "none" /\ listed = FALSE
  /\ streaming = FALSE /\ current = FALSE
  /\ urbs = [u \in Urbs |-> "none"]
  /\ empty = 0 /\ latest = FALSE
  /\ cpc = "idle" /\ cur = NoUrb /\ overtaken = FALSE
  /\ ctrl = FALSE /\ status = "ok" /\ done = FALSE /\ asked = FALSE
  /\ noted = FALSE /\ answered = TRUE /\ borrowed = FALSE /\ timedOut = FALSE
  /\ crash = "none" /\ inits = 0 /\ unplugs = 0

-----------------------------------------------------------------------------
Count(b) == IF b THEN 1 ELSE 0

(* The calls as sequences of steps.  A control request is "may" when its   *)
(* error is ignored, "note" when it is only looked at together with the    *)
(* next one, "must" when it ends the call.                                 *)

(* uvc_host_stream_control_probe: the device's default, the wanted format, *)
(* what the device made of it                                              *)
Probe(last) == <<"may", "may", last>>

(* One try of uvc_host_stream_control_commit                               *)
Round == Probe("may") \o <<"may", "may", "note", "must">>

Commit == Round \o <<"equal">> \o Round \o <<"must">>

(* uvc_set_interface, for an isochronous stream only                       *)
SetInterface(policy) == IF kind = "isoc" THEN <<policy>> ELSE <<>>

Open == <<"find", "claim">> \o SetInterface("may") \o Probe("must")
        \o <<"transfers", "frames", "list">>

Start == Commit \o SetInterface("must") \o <<"unpause", "submit">>

(* A bulk endpoint is halted and flushed before its feature is cleared.    *)
Stop == <<"pause", "settle">>
        \o (IF kind = "isoc" THEN <<"may">> ELSE <<"flush", "may">>)

Close == <<"close", "settled", "release">>

Uninstall == <<"uninstall", "ended">>

CaptureInit == <<"install", "driver">> \o Open \o Start
               \o <<"ready", "warm", "warm", "warm">>

(* Mutant: the stream is closed without having been stopped.               *)
CaptureDeinitAtOnce == <<"pause">> \o Close \o Uninstall \o <<"hostGone">>

CaptureDeinit == Stop \o Close \o Uninstall \o <<"hostGone">>

-----------------------------------------------------------------------------
At(step) == crash = "none" /\ todo # <<>> /\ Head(todo) = step

Continue == todo' = Tail(todo)

Leave == todo' = <<>>

(* Mutant: the frame is returned and stays the current one.                *)
PauseKeepsFrame ==
  /\ streaming' = FALSE
  /\ current' = current
  /\ empty' = IF streaming /\ current THEN empty + 1 ELSE empty

(* The frame goes back to the queue: uvc_host_stream_pause, by either task *)
Pause ==
  /\ streaming' = FALSE
  /\ current' = (current /\ ~streaming)
  /\ empty' = IF streaming /\ current THEN empty + 1 ELSE empty

(* The owner's pause does not wait for a callback that is under way.       *)
Overtake == overtaken' = (overtaken \/ cpc # "idle")

(* uvc_device_remove: transfers, frames, device, the stream itself         *)
Remove ==
  /\ urbs' = [u \in Urbs |-> "none"]
  /\ empty' = 0
  /\ dev' = "none" /\ lost' = FALSE

(* An error in the middle of a call: uvc_host_stream_open takes back what  *)
(* it did; the calls made on an open stream just return.                   *)
GiveUp ==
  /\ Leave
  /\ IF listed THEN UNCHANGED <<urbs, empty, dev, lost>> ELSE Remove

(***************************************************************************)
(* A control request: uvc_host_usb_ctrl.  The transfer and its semaphore   *)
(* belong to the driver and outlive a request that timed out.              *)
(***************************************************************************)
AtRequest == crash = "none" /\ todo # <<>> /\ Head(todo) \in {"may", "note", "must"}

RequestOver(ok) ==
  /\ asked' = FALSE
  /\ noted' = (Head(todo) = "note" /\ ~ok)
  /\ IF Head(todo) = "must" /\ (~ok \/ noted)
       THEN GiveUp
       ELSE Continue /\ UNCHANGED <<urbs, empty, dev, lost>>

(* The host refuses a transfer in flight and a device that is gone.        *)
Submit ==
  /\ AtRequest /\ ~asked
  /\ \/ /\ dev = "live" /\ ~ctrl
        /\ ctrl' = TRUE /\ asked' = TRUE /\ answered' = FALSE
        /\ UNCHANGED <<todo, noted, urbs, empty, dev, lost>>
     \/ /\ dev # "live" \/ ctrl
        /\ RequestOver(FALSE)
        /\ UNCHANGED <<ctrl, answered>>
  /\ UNCHANGED <<kind, plugged, unplugs, call, initialized, host, inits,
                 driverVars, streamVars, latest, clientVars, status, done,
                 borrowed, timedOut, crash>>

(* Mutant: the status is looked at before the semaphore has been taken.    *)
AnswerErrorFirst ==
  /\ AtRequest /\ asked /\ done
  /\ done' = (status = "error")
  /\ borrowed' = (borrowed \/ ~answered)
  /\ RequestOver(status = "ok")
  /\ UNCHANGED <<kind, plugged, unplugs, call, initialized, host, inits,
                 driverVars, streamVars, latest, clientVars, ctrl, status,
                 answered, timedOut, crash>>

Answer ==
  /\ AtRequest /\ asked /\ done
  /\ done' = FALSE
  /\ borrowed' = (borrowed \/ ~answered)
  /\ RequestOver(status = "ok")
  /\ UNCHANGED <<kind, plugged, unplugs, call, initialized, host, inits,
                 driverVars, streamVars, latest, clientVars, ctrl, status,
                 answered, timedOut, crash>>

(* Mutant: the semaphore is waited for without a limit.                    *)
TimeoutNever == FALSE /\ UNCHANGED vars

(* Five seconds pass; the transfer stays in flight.                        *)
Timeout ==
  /\ AtRequest /\ asked /\ ~done
  /\ timedOut' = TRUE
  /\ RequestOver(FALSE)
  /\ UNCHANGED <<kind, plugged, unplugs, call, initialized, host, inits,
                 driverVars, streamVars, latest, clientVars, ctrl, status, done,
                 answered, borrowed, crash>>

Request == Submit \/ Answer \/ Timeout

(* The two formats agree, the second try is not needed; or they do not.    *)
Compare ==
  /\ At("equal")
  /\ \/ todo' = SubSeq(todo, Len(Round) + 2, Len(todo))
     \/ Continue
  /\ UNCHANGED <<busVars, call, initialized, host, inits, driverVars,
                 streamVars, urbs, poolVars, clientVars, ctrlVars, crash>>

-----------------------------------------------------------------------------
(* uvc_capture_init                                                        *)

CallInit ==
  /\ todo = <<>> /\ crash = "none" /\ inits < MaxInits
  /\ ~initialized   \* it returns at once otherwise
  /\ call' = "init" /\ todo' = CaptureInit
  /\ inits' = inits + 1
  /\ latest' = FALSE
  /\ UNCHANGED <<busVars, initialized, host, driverVars, streamVars, urbs,
                 empty, clientVars, ctrlVars, crash>>

(* usb_init: the host can be installed once                                *)
InstallHost ==
  /\ At("install")
  /\ IF host THEN Leave ELSE Continue
  /\ host' = TRUE
  /\ UNCHANGED <<busVars, call, initialized, inits, driverVars, streamVars,
                 urbs, poolVars, clientVars, ctrlVars, crash>>

(* uvc_host_install, with the task that handles the client's events        *)
InstallDriver ==
  /\ At("driver")
  /\ \/ /\ ~driver /\ driver' = TRUE /\ client' = "running"
        /\ Continue
        /\ ctrl' = FALSE /\ done' = FALSE
     \/ Leave /\ UNCHANGED <<driver, client, ctrl, done>>
  /\ UNCHANGED <<busVars, call, initialized, host, inits, listed, streamVars,
                 urbs, poolVars, clientVars, status, asked, noted, answered,
                 borrowed, timedOut, crash>>

(* uvc_find_and_open_usb_device: the device is there before the timeout    *)
Find ==
  /\ At("find")
  /\ \/ plugged /\ dev' = "live" /\ Continue
     \/ ~plugged /\ Leave /\ UNCHANGED dev
  /\ UNCHANGED <<kind, plugged, lost, unplugs, call, initialized, host, inits,
                 driverVars, streamVars, urbs, poolVars, clientVars, ctrlVars,
                 crash>>

(* The interface, the transfers or the frame buffers: each may be refused. *)
(* When a transfer cannot be allocated uvc_transfers_allocate frees the    *)
(* others, and uvc_device_remove frees them again.                         *)
Acquire ==
  /\ At("claim") \/ At("transfers") \/ At("frames")
  /\ \/ /\ Continue
        /\ urbs' = IF At("transfers") THEN [u \in Urbs |-> "idle"] ELSE urbs
        /\ empty' = IF At("frames") THEN NumFrames ELSE empty
        /\ UNCHANGED <<dev, lost, crash>>
     \/ /\ GiveUp
        /\ crash' = IF At("transfers") THEN "heap" ELSE "none"
  /\ UNCHANGED <<kind, plugged, unplugs, call, initialized, host, inits,
                 driverVars, streamVars, latest, clientVars, ctrlVars>>

List ==
  /\ At("list") /\ Continue
  /\ listed' = TRUE
  /\ UNCHANGED <<busVars, call, initialized, host, inits, driver, client,
                 streamVars, urbs, poolVars, clientVars, ctrlVars, crash>>

(* uvc_host_stream_unpause sets the flag first ...                         *)
Unpause ==
  /\ At("unpause") /\ Continue
  /\ streaming' = TRUE /\ overtaken' = FALSE
  /\ urbs' = [u \in Urbs |-> "unsent"]
  /\ UNCHANGED <<busVars, call, initialized, host, inits, driverVars, current,
                 poolVars, cpc, cur, ctrlVars, crash>>

Unsent == {u \in Urbs : urbs[u] = "unsent"}

(* Mutant: a transfer that cannot be submitted does not stop the stream.   *)
SubmitUrbsRegardless ==
  /\ At("submit")
  /\ IF dev = "live"
       THEN /\ \E u \in Unsent : urbs' = [urbs EXCEPT ![u] = "flight"]
            /\ todo' = IF Cardinality(Unsent) > 1 THEN todo ELSE Tail(todo)
       ELSE Leave /\ urbs' = [u \in Urbs |-> IF u \in Unsent THEN "idle" ELSE urbs[u]]
  /\ UNCHANGED <<busVars, call, initialized, host, inits, driverVars,
                 streamVars, poolVars, clientVars, ctrlVars, crash>>

(* ... then submits the transfers one by one, and pauses again on an error *)
SubmitUrbs ==
  /\ At("submit")
  /\ \/ /\ dev = "live"
        /\ \E u \in Unsent : urbs' = [urbs EXCEPT ![u] = "flight"]
        /\ todo' = IF \E u \in Urbs : urbs'[u] = "unsent" THEN todo ELSE Tail(todo)
        /\ UNCHANGED <<streamVars, empty, overtaken>>
     \/ /\ dev # "live"
        /\ Pause /\ Overtake /\ Leave
        /\ urbs' = [u \in Urbs |-> IF u \in Unsent THEN "idle" ELSE urbs[u]]
  /\ UNCHANGED <<busVars, call, initialized, host, inits, driverVars, latest,
                 cpc, cur, ctrlVars, crash>>

Ready ==
  /\ At("ready") /\ Continue
  /\ initialized' = TRUE
  /\ UNCHANGED <<busVars, call, host, inits, driverVars, streamVars, urbs,
                 poolVars, clientVars, ctrlVars, crash>>

TakeLatest == latest /\ latest' = FALSE /\ empty' = empty + 1

(* The first frames are thrown away, or do not come within two seconds.    *)
Warm ==
  /\ At("warm") /\ Continue
  /\ TakeLatest \/ UNCHANGED poolVars
  /\ UNCHANGED <<busVars, call, initialized, host, inits, driverVars,
                 streamVars, urbs, clientVars, ctrlVars, crash>>

(* uvc_capture_one_frame by the agent or the web server                    *)
Capture ==
  /\ initialized /\ crash = "none" /\ TakeLatest
  /\ UNCHANGED <<busVars, ownerVars, driverVars, streamVars, urbs, clientVars,
                 ctrlVars, crash>>

-----------------------------------------------------------------------------
(* uvc_capture_deinit: the results of its calls are ignored                *)

CallDeinit ==
  /\ todo = <<>> /\ crash = "none" /\ initialized
  /\ call' = "deinit" /\ todo' = CaptureDeinit
  /\ UNCHANGED <<busVars, initialized, host, inits, driverVars, streamVars,
                 urbs, poolVars, clientVars, ctrlVars, crash>>

StopPause ==
  /\ At("pause") /\ Continue /\ Pause /\ Overtake
  /\ UNCHANGED <<busVars, call, initialized, host, inits, driverVars, urbs,
                 latest, cpc, cur, ctrlVars, crash>>

(* The 100 ms of uvc_host_stream_stop: long enough for the client task to  *)
(* finish the callback it is in, and for the transfers of an isochronous   *)
(* endpoint, which complete with every frame of the bus.                   *)
Settle ==
  /\ At("settle") /\ Continue
  /\ cpc = "idle"
  /\ \A u \in Urbs : urbs[u] \in IF kind = "isoc" THEN {"idle"} ELSE {"idle", "flight"}
  /\ UNCHANGED <<busVars, call, initialized, host, inits, driverVars,
                 streamVars, urbs, poolVars, clientVars, ctrlVars, crash>>

(* The flush retires what a bulk endpoint still has in flight; the client  *)
(* task sees it before the answer to the request that follows.             *)
Flush ==
  /\ At("flush") /\ Continue
  /\ urbs' = [u \in Urbs |-> IF urbs[u] = "flight" /\ dev = "live" THEN "failed"
                                                                 ELSE urbs[u]]
  /\ UNCHANGED <<busVars, call, initialized, host, inits, driverVars,
                 streamVars, poolVars, clientVars, ctrlVars, crash>>

AllReturned == empty = NumFrames

(* uvc_host_stream_close waits 70 ms for the user to return his frames and *)
(* looks again.                                                            *)
CloseCheck ==
  /\ At("close") /\ Continue
  /\ UNCHANGED <<busVars, call, initialized, host, inits, driverVars,
                 streamVars, urbs, poolVars, clientVars, ctrlVars, crash>>

CloseRecheck ==
  /\ At("settled")
  /\ todo' = IF AllReturned THEN Tail(todo) ELSE Tail(Tail(todo))
  /\ UNCHANGED <<busVars, call, initialized, host, inits, driverVars,
                 streamVars, urbs, poolVars, clientVars, ctrlVars, crash>>

(* ESP_ERROR_CHECK aborts when the interface cannot be released because a  *)
(* transfer is still in flight.                                            *)
Release ==
  /\ At("release") /\ Continue
  /\ IF \A u \in Urbs : urbs[u] = "idle"
       THEN /\ listed' = FALSE /\ Remove
            /\ UNCHANGED crash
       ELSE /\ crash' = "abort"
            /\ UNCHANGED <<listed, urbs, empty, dev, lost>>
  /\ UNCHANGED <<kind, plugged, unplugs, call, initialized, host, inits,
                 driver, client, streamVars, latest, clientVars, ctrlVars>>

(* uvc_host_uninstall refuses while a stream is open.                      *)
UninstallDriver ==
  /\ At("uninstall")
  /\ IF listed THEN todo' = Tail(Tail(todo)) /\ UNCHANGED <<driver, client>>
               ELSE Continue /\ driver' = FALSE /\ client' = "leaving"
  /\ UNCHANGED <<busVars, call, initialized, host, inits, listed, streamVars,
                 urbs, poolVars, clientVars, ctrlVars, crash>>

(* The client task sets UVC_TEARDOWN_COMPLETE within its 100 ms.           *)
ClientEnded ==
  /\ At("ended") /\ client = "none" /\ Continue
  /\ UNCHANGED <<busVars, call, initialized, host, inits, driverVars,
                 streamVars, urbs, poolVars, clientVars, ctrlVars, crash>>

(* usb_host_uninstall fails while a client is registered.                  *)
HostGone ==
  /\ At("hostGone") /\ Continue
  /\ host' = driver
  /\ initialized' = FALSE
  /\ UNCHANGED <<busVars, call, inits, driverVars, streamVars, urbs, poolVars,
                 clientVars, ctrlVars, crash>>

Owner == \/ Request \/ Compare
         \/ InstallHost \/ InstallDriver \/ Find \/ Acquire \/ List
         \/ Unpause \/ SubmitUrbs \/ Ready \/ Warm
         \/ StopPause \/ Settle \/ Flush \/ CloseCheck \/ CloseRecheck
         \/ Release \/ UninstallDriver \/ ClientEnded \/ HostGone

-----------------------------------------------------------------------------
(* The client task: uvc_client_task and the callbacks it runs              *)

Serving == client = "running" /\ cpc = "idle" /\ crash = "none"

(* ctrl_xfer_cb, after the transfers the host has retired before it; the   *)
(* transfer fails when the device has gone.                                *)
CtrlDone ==
  /\ Serving /\ ctrl
  /\ \A u \in Urbs : urbs[u] # "failed"
  /\ status' \in IF dev = "live" THEN {"ok", "error"} ELSE {"error"}
  /\ ctrl' = FALSE /\ done' = TRUE /\ answered' = TRUE
  /\ UNCHANGED <<busVars, ownerVars, driverVars, streamVars, urbs, poolVars,
                 clientVars, asked, noted, borrowed, timedOut, crash>>

(* The end of a transfer callback: go on if the stream does and the device *)
(* is there                                                                *)
Resubmitted(u) ==
  urbs' = [urbs EXCEPT ![u] = IF streaming /\ dev = "live" THEN "flight" ELSE "idle"]

callbackStays == <<busVars, ownerVars, driverVars, ctrlVars>>

callbackKeeps == <<callbackStays, crash>>

(* A transfer returns; a paused stream looks no further at it.             *)
Take(u) ==
  /\ Serving /\ urbs[u] = "flight"
  /\ IF streaming THEN cpc' = "packets" /\ cur' = u /\ UNCHANGED urbs
                  ELSE urbs' = [urbs EXCEPT ![u] = "idle"] /\ UNCHANGED <<cpc, cur>>
  /\ UNCHANGED <<callbackKeeps, streamVars, poolVars, overtaken>>

InPackets == cpc = "packets" /\ crash = "none"

(* Looked at in a critical section, which ends before a frame is stored    *)
NeedsFrame == streaming /\ ~current

(* A picture begins.  An isochronous callback that does not need a frame,  *)
(* because the end of the last picture was missed or because the stream was*)
(* paused since the callback began, gives the last frame to the            *)
(* application, or back, and goes on to get another all the same.          *)
Begin ==
  /\ InPackets
  /\ \/ /\ NeedsFrame
        /\ cpc' = "filling" /\ UNCHANGED <<current, empty>>
     \/ /\ ~NeedsFrame /\ kind = "isoc"
        /\ current' = FALSE
        /\ \/ current /\ cpc' = "ending" /\ UNCHANGED empty
           \/ cpc' = "filling" /\ empty' = empty + Count(current)
  /\ UNCHANGED <<callbackKeeps, streaming, latest, urbs, cur, overtaken>>

(* A bulk callback resets the frame it has -- and stops the program when a *)
(* pause has taken it: uvc_frame_reset asserts that there is one.          *)
Restart ==
  /\ InPackets /\ ~NeedsFrame /\ kind = "bulk"
  /\ crash' = IF current THEN crash ELSE "assert"
  /\ UNCHANGED <<callbackStays, streamVars, poolVars, urbs, clientVars>>

(* The frame for the picture that has begun, in either branch              *)
Fill ==
  /\ cpc = "filling" /\ crash = "none"
  /\ IF empty > 0 THEN current' = TRUE /\ empty' = empty - 1
                  ELSE UNCHANGED <<current, empty>>
  /\ cpc' = "packets"
  /\ UNCHANGED <<callbackKeeps, streaming, latest, urbs, cur, overtaken>>

(* A picture ends: delivered, or returned when skipped or paused           *)
End ==
  /\ InPackets /\ current
  /\ current' = FALSE
  /\ \/ streaming /\ cpc' = "deliver" /\ UNCHANGED empty
     \/ empty' = empty + 1 /\ UNCHANGED cpc
  /\ UNCHANGED <<callbackKeeps, streaming, latest, urbs, cur, overtaken>>

InHand == cpc \in {"deliver", "ending"}

(* Mutant: the frame that was buffered before is not returned.             *)
DeliverForgetsOld ==
  /\ InHand /\ crash = "none"
  /\ latest' = TRUE
  /\ cpc' = IF cpc = "deliver" THEN "packets" ELSE "filling"
  /\ UNCHANGED <<callbackKeeps, streamVars, empty, urbs, cur, overtaken>>

(* frame_callback keeps the newest frame and returns the one before.       *)
Deliver ==
  /\ InHand /\ crash = "none"
  /\ latest' = TRUE
  /\ empty' = empty + Count(latest)
  /\ cpc' = IF cpc = "deliver" THEN "packets" ELSE "filling"
  /\ UNCHANGED <<callbackKeeps, streamVars, urbs, cur, overtaken>>

(* The transfer has been looked through.                                   *)
Over ==
  /\ InPackets
  /\ Resubmitted(cur)
  /\ cpc' = "idle" /\ cur' = NoUrb
  /\ UNCHANGED <<callbackKeeps, streamVars, poolVars, overtaken>>

(* A transfer that was cancelled or lost its device pauses the stream;     *)
Failed(u) ==
  /\ Serving /\ urbs[u] = "failed"
  /\ Pause
  /\ urbs' = [urbs EXCEPT ![u] = "idle"]
  /\ UNCHANGED <<callbackKeeps, latest, clientVars>>

(* and so does, on a bulk endpoint, one with an error, an overflow, a stall. *)
Errored(u) ==
  /\ Serving /\ urbs[u] = "flight" /\ kind = "bulk"
  /\ Pause
  /\ urbs' = [urbs EXCEPT ![u] = "idle"]
  /\ UNCHANGED <<callbackKeeps, latest, clientVars>>

(* USB_HOST_CLIENT_EVENT_DEV_GONE: a listed stream is paused, and the      *)
(* application's event callback only logs it.                              *)
Gone ==
  /\ Serving /\ lost
  /\ lost' = FALSE
  /\ IF listed THEN Pause ELSE UNCHANGED <<streamVars, empty>>
  /\ UNCHANGED <<kind, plugged, dev, unplugs, ownerVars, driverVars, urbs,
                 latest, clientVars, ctrlVars, crash>>

Teardown ==
  /\ client = "leaving" /\ cpc = "idle"
  /\ client' = "none"
  /\ UNCHANGED <<busVars, ownerVars, driver, listed, streamVars, urbs,
                 poolVars, clientVars, ctrlVars, crash>>

(* What the bus brings, and what is in it                                  *)
Packet == \E u \in Urbs : Take(u) \/ Errored(u)

Content == Begin \/ Restart \/ End

(* What the client task does once the bus has given it something to do     *)
Client == \/ Fill \/ Deliver \/ Over \/ Gone \/ Teardown
          \/ \E u \in Urbs : Failed(u)

-----------------------------------------------------------------------------
(* The capture card is pulled out: everything in flight fails.             *)
Unplug ==
  /\ plugged /\ unplugs < MaxUnplugs /\ crash = "none"
  /\ plugged' = FALSE /\ unplugs' = unplugs + 1
  /\ IF dev = "live"
       THEN /\ dev' = "gone" /\ lost' = TRUE
            /\ urbs' = [u \in Urbs |-> IF urbs[u] = "flight" THEN "failed"
                                                             ELSE urbs[u]]
       ELSE UNCHANGED <<dev, lost, urbs>>
  /\ UNCHANGED <<kind, ownerVars, driverVars, streamVars, poolVars,
                 clientVars, ctrlVars, crash>>

(* It comes back as another device: uvc_host_device_connected only looks   *)
(* at its descriptors, no user callback being registered.                  *)
Replug ==
  /\ ~plugged /\ plugged' = TRUE /\ crash = "none"
  /\ UNCHANGED <<kind, dev, lost, unplugs, ownerVars, driverVars, streamVars,
                 urbs, poolVars, clientVars, ctrlVars, crash>>

Next == \/ CallInit \/ CallDeinit \/ Owner
        \/ Capture
        \/ CtrlDone \/ Packet \/ Content \/ Client
        \/ Unplug \/ Replug

(* The scheduler runs both tasks; an isochronous transfer always completes, *)
(* and no transfer holds pictures without end.  A device need not answer a  *)
(* control request.                                                         *)
Fairness == /\ WF_vars(Owner)
            /\ WF_vars(Client) /\ SF_vars(Over)
            /\ WF_vars(kind = "isoc" /\ Packet)

Spec == Init /\ [][Next]_vars /\ Fairness

-----------------------------------------------------------------------------
TypeOK ==
  /\ kind \in Kinds /\ plugged \in BOOLEAN
  /\ dev \in {"none", "live", "gone"} /\ lost \in BOOLEAN
  /\ call \in {"none", "init", "deinit"}
  /\ initialized \in BOOLEAN /\ host \in BOOLEAN /\ driver \in BOOLEAN
  /\ client \in {"none", "running", "leaving"} /\ listed \in BOOLEAN
  /\ streaming \in BOOLEAN /\ current \in BOOLEAN
  /\ urbs \in [Urbs -> {"none", "idle", "unsent", "flight", "failed"}]
  /\ empty \in 0 .. NumFrames /\ latest \in BOOLEAN
  /\ cpc \in {"idle", "packets", "filling", "deliver", "ending"}
  /\ ctrl \in BOOLEAN /\ status \in {"ok", "error"} /\ done \in BOOLEAN
  /\ asked \in BOOLEAN /\ noted \in BOOLEAN
  /\ crash \in {"none", "abort", "heap", "assert"}

(* While a stream is open each of its frames is in exactly one place,       *)
(* although two tasks may pause the stream, and end a picture, at once.  (An *)
(* init called again after one that left the stream open forgets the frame   *)
(* it had buffered before it finds that it cannot go on.)                    *)
PoolWhole ==
  listed /\ (initialized \/ inits = 1) =>
    empty + Count(current) + Count(latest) + Count(InHand) = NumFrames

(* A stopped stream has given its frame back, so that it can be closed --    *)
(* unless the owner stopped it while a callback was under way.  Only the first *)
(* check of a callback, uvc_isoc.c:53, is sure to see a pause: a callback that *)
(* passed it stores a frame for a picture that begins, at uvc_isoc.c:140,      *)
(* uvc_isoc.c:181 (no check at all) and uvc_bulk.c:176.                        *)
StopGivesBack == current /\ ~streaming => overtaken

(* The frames of a stream are all accounted for, and a stopped stream keeps *)
(* none of them back, but as StopGivesBack says.                            *)
FramesCounted == TypeOK /\ PoolWhole /\ StopGivesBack

(* "By setting stream_hdl->dynamic.streaming = false; no frame callbacks will *)
(* be called and the transfer can gracefully finish" (uvc_host.c:1065): no    *)
(* callback of a transfer stops the program.                                  *)
TransfersFinish == crash # "assert"

(* A control request is answered by its own completion, unless an earlier  *)
(* request had run into the fixed timeout of uvc_host_usb_ctrl.            *)
OwnAnswer == borrowed => timedOut

(* uvc_capture_deinit does not abort in uvc_host_stream_close: no transfer  *)
(* is in flight when the interface is released.  The exception is a bulk    *)
(* endpoint whose last request fails at once, because the device is gone or *)
(* an old request still occupies the transfer: nothing then waits for the   *)
(* client task to see the transfers that the flush retired.                 *)
NoAbort == crash = "abort" => kind = "bulk" /\ (unplugs > 0 \/ timedOut)

(* A stream that counts as streaming is fed: a transfer is under way, or    *)
(* the client task is about to learn that the device has gone.              *)
StreamFed ==
  streaming /\ crash = "none" =>
    \/ todo # <<>> /\ Head(todo) = "submit"
    \/ \E u \in Urbs : urbs[u] \in {"flight", "failed"}
    \/ lost

(* Init and deinit return, whatever the device does: every wait is limited. *)
CallReturns == (todo # <<>>) ~> (todo = <<>> \/ crash # "none")

(* "Stops and closes the stream, uninstalls the UVC driver and the USB     *)
(* Host" (the component's README.md:16).                                   *)
DeinitReleases ==
  call = "deinit" /\ todo = <<>> => ~listed /\ ~driver /\ ~host
=============================================================================
