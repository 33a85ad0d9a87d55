# Victrl: specifications, checks and proofs

Victrl is firmware for the ESP32-P4. It looks at the screen of another computer
through an HDMI capture card, asks a vision model in the cloud what to do next,
and does it as that computer's USB keyboard and mouse. It runs on two cores
under FreeRTOS; its tasks are pinned to no core, so any two of them may run at
the same time. This directory models the parts of the firmware in which tasks,
interrupts, packets, reports and files meet, and the pure functions that read data
the firmware did not write; it checks them with TLC and proves the central
results with TLAPS.

## 1. Inventory

| Component | State it keeps | Operations | Interacts with | What is hard |
|---|---|---|---|---|
| agent control (`agent_core.c`) | state, action and failure counters, goal; event bits RUN, STEP, STOP, EMERGENCY; view, fingerprint, wait mode | start, start_session, pause, resume, step_once, stop, emergency; the main loop | every other component | commands of two tasks against the loop; check-then-act; event bits lost or left over; queries skipped |
| action executor (`action_executor.c`) | view, repetition ring, what is pressed | execute_all, execute_single, emergency_release | HID, capture card | runs a batch to its end whatever is commanded |
| web API (`web_server.c`) | none of its own | one handler at a time, in the httpd task | agent, session manager, capture card, image cache, files | acts on states it checked earlier; edits files others have read |
| buttons (`button_driver.c`) | pressed flags, press times | START, PAUSE short and long | agent | lost edges, sampled state |
| capture pool (`uvc_capture_card_driver.c`, `uvc_isoc.c`, `uvc_frame.c`) | queue of empty frames, current frame, latest frame, semaphore | init, deinit, packet handler, frame callback, take and return | agent loop, httpd | lock-free hand-over, missed end-of-frame, overflow, disconnection |
| USB host driver for UVC (`uvc_host.c`, `uvc_control.c`, `uvc_bulk.c`, `uvc_descriptor_parsing.c`) | streams, transfers, control transfer | install, open, start, stop, close, uninstall, control requests, descriptor search | capture pool | timeouts against late completions, closing while transfers return, cameras' descriptors |
| cloud client (`cloud_client.c`) | encoded image and its view, connection | query with retries, last image | agent, httpd | reuse of an image, retries that end |
| session manager (`session_manager.c`) | current id, goal, steps; files per session | create, load, set_steps, append_turn, delete, rename, list | agent, httpd | power loss between writes, read-modify-write without lock |
| plan manager (`plan_manager.c`) | current plan | reset, load, save, get_current | agent, httpd, LCD | freed while it is read |
| task log (`task_log.c`) | file handle | init, write, close | agent | handle overwritten |
| short-term memory (`short_term_mem.c`) | array of summaries | add, get | agent | compression at the bound |
| profile manager (`profile_manager.c`) | cache of one profile | get, append, invalidate | agent, web API's files | stale cache, paraphrases |
| configuration, boot (`config_loader.c`, `main.c`) | what has been initialised | the order of app_main | every component | which failure stops what |
| HID device (`hid_device.c`, `hid_reports.c`) | pressed buttons, LEDs, endpoint | click, key, type, Num Lock, release all | TinyUSB | dropped reports, two senders, late LED reports |
| Wi-Fi manager (`wifi_manager.c`) | address, retry counter, event bits | event handler, init, SNTP | boot, web API | gives up, events after the state they tell of |
| JPEG utilities, response parser, UTF-8, base64 | none | pure functions | cloud client, executor | boundaries |
| LCD, SD card, panel driver | none of interest | I/O | | |

The hazards with their lines, and the properties that would catch each, are in
`PROJECT.json`.

## 2. Modules

| Module | Models |
|---|---|
| `AgentPromise` | What the agent promises its operator, without tasks, mutexes or bits |
| `AgentControl` | The main loop and the tasks that command it, one step per point where another task may run |
| `AgentControl_proofs` | Theorems that hold whichever tasks issue commands; theorems under a single control task, and the refinement of `AgentPromise` |
| `ViewGeometry` | The field of view: normalisation, mapping, crop rectangle (`jpeg_utils.c`) |
| `CloudClient` | A query of the model: image cache, encoding, request, retries. Extends `ViewGeometry` |
| `AgentVision`, `MCAgentVision` | What the loop concludes from pictures. Extends `CloudClient`: loop and client are one system |
| `AgentVision_proofs` | Theorems about views, queries, retries and skipped steps |
| `HidExecutor`, `MCHidExecutor` | From a batch of actions to reports on the wire, with two senders and the target |
| `HidExecutor_proofs` | Theorems about releasing, the record of buttons, typed texts and the keypad, for any texts |
| `UvcHost` | The life of the capture stream, from init to deinit, against the driver's client task |
| `UvcHost_proofs` | Theorems about frames, control requests and transfers, at every place of init and deinit |
| `UvcCapture`, `MCUvcCapture` | The frame pool, from the packets to the task that copies a frame |
| `UvcCapture_proofs` | Theorems about the pool, for any number of frames and consumers |
| `StorePromise` | What the store of sessions promises, without files, mutexes or tasks |
| `SessionStore` | The files of the sessions and the plan, their users, and loss of power |
| `SessionStore_proofs` | Theorems about the session mutex and about every file of a session, and the refinement of `StorePromise` |
| `WifiManager` | The station: events, retries, address, SNTP |
| `Knowledge` | Short-term memory, and profiles with their cache |
| `Boot`, `MCBoot` | A life of the device: app_main and the services. Composes `WifiManager` and `Knowledge` |
| `Boot_proofs` | Theorems about the station, the memory and the profiles, over any number of lives |
| `UvcDescriptors`, `ScreenPoint`, `ModelAnswer` | Pure functions: descriptor search and negotiation, box to pointer and back, parser and UTF-8 |
| `DeviceInputs`, `MCDeviceInputs` | Compares those functions with what their inputs mean |
| `DeviceInputs_proofs` | Theorems about cameras, boxes, answers and texts, of any size |

### AgentControl

Variables are the fields of `agent_ctx_t` that the control uses (`state`,
`actionCount`, `failCount`, `goal`), the event group (`bits`), the session
manager as far as the loop depends on it (`known`, `curSession`, `steps`), the
log handle, one bit `held` for what is pressed on the target, the program
counter and locals of the loop (`pc`, `got`, `ending`, `ranSingle`, `todo`), and
for each control task what it does next (`op`, `arg`). `iters` is a history
variable: the iterations run since the STEP command.

A step is one mutex section, one event-group call, or one call into another
component, since the code can be interrupted between any two of these.
`GetBits` and `ClearStopBits` are two actions because the code makes two calls;
`BeginNew` does not look at the state because `agent_start` does not either. A
refused command returns without effect and is no action. `Control` is the union
of `Web`, which stands for the httpd task (handlers are serialised, so one
element), and `Buttons`, the btn_monitor task, which decides first
(`PauseButton`) and calls the agent later.

Abstracted: the content of goal, plan, answer and turn; what a frame shows and
whether wait mode skips a query (`Capture` may go back to `top`; `AgentVision` has the
decision); how an action maps to reports (`Execute` presses, `LetGo` lets go;
`HidExecutor` has them). Deletion and renaming of sessions are in `SessionStore`.

### AgentVision, CloudClient, ViewGeometry

`pc` follows the loop through one iteration: top, capture, query, act and adopt.
`print` is `prev_sig`, `view` the sticky field of view, `boxView` what the executor maps boxes
with; `cache` is the encoded payload with the view it is filed under (`key`) and the
one it shows (`shows`), which differ when cropping failed. `query` is the call in progress,
and its phases are the steps A, B and C of `cloud_client_query`: picture (`Reuse`,
`Encode`), body (`Serialize`), attempts (`EnsureFails`, `Exchange`). `Outcomes` are the classes the
retry loop tells apart. The screen changes at any time, and a web request stops and
starts tasks. A frame is a value of `Frames`, and the fingerprint is the frame itself:
that a hash distinguishes two pictures is assumed. A view is in units of 1/1000;
`Normalized` is the arithmetic of `view_normalize` on integers. `told` is what the status text says of
the screen: identical, different, or nothing. A request may go without its picture (`Serialize`: no
memory for the URL). History: `seen`, the frame in the picture of the
last answered request, which is not the captured one when an older payload is sent, and none when the
request had no picture; `unanswered`, failed steps in a row; `lost`, an encoding failed since
the payload was made.

### HidExecutor

A batch becomes a script of calls for the loop task; `httpd` gets the script of an emergency
release. A call of `hid_send_keyboard_report` or `hid_send_abs_mouse_report` looks at the
endpoint (`SeesReady`), may give up (`TimesOut`), and claims it (`Claims`), which fails when the other task was
faster. So two tasks can both find the endpoint ready and one report is then
lost or retried, as in the code: keyboard reports are tried once, mouse reports `Tries` times.
The target polls the endpoint (`Poll`), keeps what is held, types what it gets and echoes Num Lock by
a report that arrives any time later (`leds`). The cable may be pulled. A text is typed one character per
`NextChar`, which puts the key-down and the key-up of the character (`Stroke`) before the rest of the script. A key is what it does:
a letter, a digit of the main row, the same digit of the keypad (a cursor key while
Num Lock is off). History: `dropped`, a report was given up since the last undisturbed
abort; `stale`, what the device believes about a target it is no longer plugged
into; `gaveUp`, a wait for the LED ended without it.

### UvcHost

`uvc_capture_init` and `uvc_capture_deinit` are sequences of steps (`todo`) in the owner's task,
spelled out from the calls they make (`CaptureInit`, `Open`, `Commit`, `Probe`, `Round`, `CaptureDeinit`, `Close`). A
failing step cuts the sequence as the error path does (`Leave`, `GiveUp`). The client task
runs between any two steps: it completes control requests, handles the transfers that return, and
the loss of the device. A transfer callback looks at `streaming` once (`Take`) and then goes through the
packets, in which it finds any sequence of beginnings and ends of pictures (`Begin`, `End`), until it is
`Over`. `cpc` is where it is: to take a frame is a step behind the check that called for it (`Fill`), and so is
the application's callback (`Deliver`). An isochronous callback that meets the beginning of a picture and needs no frame,
since the last one had no EoF or the stream was paused meanwhile, gets rid of the frame it has and takes
another all the same; a bulk callback resets the frame it has (`Restart`). A failed bulk transfer pauses the stream
(`Errored`). Frames are counted, in the four places they can be: the queue, `current`, the callback,
`latest`. The transfers are submitted one by one by the loop of `uvc_host_stream_unpause` (`"unsent"`). `overtaken`
is history: the owner paused the stream while a callback was under way.
A crash of the firmware (`ESP_ERROR_CHECK` in `uvc_host_stream_close`, a double free when a transfer cannot be
allocated, the assertion in `uvc_frame_reset`) ends the behaviour and is recorded in `crash`.

### UvcCapture

One action is the handling of one packet by `isoc_transfer_callback`, up to a
call of `frame_callback`; that callback's accesses to `s_latest_frame`, and those
of `take_frame`, are single steps. `Store` is the part of a packet after its
frame is known, shared by `Continue`, `StartFirst` and `Acquire`, and keeps the
order of the code: an overflow leaves before the EoF bit is looked at.
`StartNext` overwrites `skip` before it decides whether the old frame is good,
as the code does. A picture is a number of packets, a buffer holds `Capacity`
of them. History variables: `cut`, the frames that overflowed since they were
last reset, and `raced`, which becomes true when two tasks have been between
their read and their write of `s_latest_frame` at the same time. The model starts
where the stream is started; what comes before and after is in `UvcHost`. A transfer that a
disconnection cancels is `Disconnect`.

### SessionStore

The card (`dirs`, `meta`, `plan`, `traj`) and the memory of the session manager
(`cur`, `curGoal`, `curSteps`, `lock`) and of the plan manager (`planDir`, `planMem`)
are separate, and `Crash` resets the second and keeps the first. A file is
written in two steps, as `fopen` truncates it first; in between it is `Torn` (a
trajectory: without turns). `s_mutex` is `lock`: creation, loading, `Append` with its trim,
and `SetSteps` hold it across steps, and deletion, renaming
and saving the plan do not take it, as in the code. The plan manager has no lock of its own, so
its calls are steps between which another task may come: creating sets the directory (`FillNewMeta`) and then
the plan (`NewPlan`), loading sets the directory (`Load`), drops the plan (`DropPlan`) and reads the
file (`ReadPlan`), and saving makes the path (`SavePlan`), prints the plan (`PrintPlan`), opens the file (`OpenPlan`)
and writes it (`FillPlan`). `at` says where httpd, button
and loop are; boot is played by httpd with `next = "boot"`. Each step of `Httpd`
follows the handler: `Delete` has seen the agent IDLE and remembers whether the
session was current, and only later removes and falls back.

Abstracted: a trajectory is the number of its last turn, and any append to one that
is not empty may trim, since lengths are left open; a title is the one cut from
the goal or one the user chose; a plan is the session whose task_id it carries. That a task may print the
plan while another frees it (`s_current_plan`) is undefined in C and left out: here it prints the
old plan or the new one.
`session_mgr_list` is one step. A write to a file that was removed while open is
lost. Errors of a working card are not modelled, except `mkdir` in creation
(also for want of a free id) and `rmdir` of a directory that is not empty. The
agent's state is one bit, as `AgentControl` has the rest. The page deletes
only sessions that listing could read.

`StorePromise` has of a session only whether it can be listed, the turns it believes to
have taken and those it has a record of; creating, continuing, deleting,
recording and counting are one step each. What takes the files two steps shows there as `saving` and
`retitling`, as a session being written must not be deleted and may be what a loss of power
costs. The refinement mapping (`Listed`, `Counters`, `Turns`, `Current`, `Reached`) reads a
session through whoever is rewriting its file: a `Torn` meta.json counts as the
record that is about to be written, a trajectory in the middle of a trim as what was read from it.

### WifiManager, Knowledge, Boot

`WifiManager` keeps what the station is doing (`air`) apart from the events that tell of it
(`events`), which the event task handles later and in order; `ip`, `netBits` and `retries` are the
component's own state. `Knowledge` keeps summaries as the numbers of the turns they tell, so that merging
two is concatenation, and a profile as the sequence of its lines; `Restates` stands for
`line_overlap`. `profile_mgr_get` reads the file without the mutex and caches it afterwards: two
steps (`GetDefault`, `CacheDefault`), with the web page's edits between them; the copies for the cache may
fail. An append that has no memory to read or to copy what the profile says compares with nothing
(`profile_manager.c:195`); `blind` is the history of the profiles with such a line. `Boot` walks `Order`, the
calls of `app_main`; `Fatal` steps return from it when they fail, `Optional` steps go on. Once the web
page serves, a task may be started, files emptied, filled and deleted (`Truncate`, `Fill`, `Delete`, the
two halves of `fs_write_handler`) and the device restarted; power may go at any time
(`Restart`). A restart keeps the card and forgets the rest. The loop's iteration is cut down to what
touches memory and profiles (`Build`, `Switch`, `Discover`, `Tell`).

### UvcDescriptors, ScreenPoint, ModelAnswer, DeviceInputs

Operators, one per function. A configuration descriptor is the sequence of its descriptors; a
search by byte offset becomes a search by position, bounded by the clamped length as in the code
(`LastInside`). Rates are as in the code: an interval is `Second \div fps`, in units of 100 ns, and a
rate is compared with the rate of an interval to within 0.0001 (`RateEqual`, in integers and exact, where the
code computes in single precision), so that 60 frames per second are not found in 166666. `DeviceInputs` has the one variable `input`: an input arrives, the properties
compare what the functions make of it with what it means, and it is gone. `Descriptors`
builds what an honest camera sends, `Meaning` and `Offered` are the camera's own view.
`ModelAnswer` keeps of an answer which fields are there, and of text the class of each byte. A lone action is
copied field by field (`LoneFields`), which loses its `delay_after`.
Left out: what a device that breaks the standard could do, namely a video function without a header, whose
pointer `uvc_descriptor_parsing.c:334` does not check, and a step of zero between intervals; a list with room for no
frame; and rounding in the comparison of rates.

## 3. Runs

Section 4 says what the properties mean for the code; this is what each run covers.

| Run | Constants | Shows |
|---|---|---|
| `AgentWeb` | web, 2 sessions, 2 actions, batches of up to 1 | `TypeOK`, `GoalMatchesSession`, `BudgetRespected`, `StepsAdvance`, `WorkIsDone`, `KeepsPromise` hold |
| `AgentBoth` | web and buttons, 1 session, 1 action | `IdleIsQuiet`, `FailBudget`, `OneIterationPerStep`, `CommandsServed` hold |
| `AgentLostStop` | web alone | `StopUnwinds` fails: a stop bit can be cleared unseen |
| `UvcPool` | 4 frames, 2 consumers, both formats, EoF or none | `PoolServes`, `Announced`, `RawOverflowDiscarded` hold |
| `StoreCard` | 2 sessions, 2 turns, 1 loss of power or 1 press of START | `FilesBelong`, `StepsHaveTurns`, `CardUsable`, `MutexReturned`, `KeepsStore` hold |
| `VisionLoop` | 2 screens, 3 requested views, 2 blind rounds, 5 retries configured | `PictureIsScreen`, `BoxesMatchPicture`, `TriesEnd`, `SkipSeenOnly`, `KeepsAsking` hold |
| `HidBatch` | 2 actions, 3 texts, 1 disturbance, 2 tries | `LetsGo`, `ButtonsAgree`, `TypedInFull`, `KeypadConfirmed` hold |
| `HidKeypad` | the same without disturbance | `KeypadTypesDigits` fails: a late LED report confirms the wrong press |
| `UvcHost` | 2 transfers, 2 frames, both kinds of endpoint, 2 inits, 1 unplugging | `FramesCounted`, `OwnAnswer`, `NoAbort`, `StreamFed`, `CallReturns` hold |
| `UvcDeinit` | 1 transfer, isochronous, nothing unplugged | `DeinitReleases` fails: the buffered frame keeps everything open |
| `BootLife` | 2 lives, 2 profiles of 2 lines, 3 summaries, 1 retry | `TypeOK`, `NetworkTold`, `HistoryKept`, `ProfilesSound`, `DeviceServes` hold |
| `DeviceInputs` | cameras with 1 to 3 formats, known or not, closed by another descriptor or not, of 1 to 3 frames with real intervals, discrete and stepped; wants of 0, 15, 25, 30 and 60 frames per second; 5 views and boxes with bounds from 7 values; answers with up to 3 actions; texts of up to 5 bytes | `DescriptorsAgree`, `PointsRight`, `TextsKept` hold |

Bounds. One httpd task and one button task are what the firmware has. Two
sessions are enough to tell the session a command is about from the current
one. Two actions let a task go through more than one turn and reach its limit; a
batch of one lets the loop be inside and outside an action. The failure limit is
the code's 3. The firmware has 6 frames; 4 with two consumers is the smallest
pool for which `NeverDry` can hold (`UvcAssumption`), so it is the hardest case.
`UvcPool` uses symmetry over frames and consumers, which no property
distinguishes, and stops at the first race (constraint `NotRaced`), since its
properties say nothing of what follows one. In `StoreCard` two sessions are one to
switch from and one to switch to; two turns let a counter lag or lead; a button that is
pressed and a power failure are tried separately, because what each property
promises after a press (`StepsHaveTurns`, `Loadable`, `KeepsStore` and the part of `FilesBelong` about plans
nothing, the others everything) does not involve a restart. In `VisionLoop` the configured retries exceed the table
of delays, which the code must notice; one requested view is the whole frame, one lies partly
outside with its bounds swapped, one is a sliver. In `HidBatch` two actions let a press of
one meet the release of another; the mouse is tried twice instead of five times, enough for a retry to
succeed and to fail. In `UvcHost` two transfers let one return while the other is in flight; two frames let the
buffered one and the current one differ; a second init meets what the first left. In
`BootLife`, one retry instead of five makes the counter reach its limit with few losses; a history of one and of
two entries are the two sides of the compression. `MCBudgets` gives a life to the network (4 steps), to the
model (3 turns), to model and page (2 turns and an edit), or one step of each to every one of two lives.
In `DeviceInputs` 333333, 333334, 166666 and 400000 are intervals on both sides of what the comparison of rates
accepts, and a third format lets a wanted frame stand behind two other formats.

Deadlock. `VisionLoop`, `HidBatch`, `HidKeypad`, `UvcHost`, `UvcDeinit` and `BootLife` turn the check off:
their bounds, a crash that ends the firmware, or a device that waits for somebody to press a
button, are legitimate ends. In the other runs something can always happen.

Fairness. `AgentControl!Spec` is weakly fair to the loop and to a command once it
has begun: FreeRTOS runs every ready task (the loop's priority is above idle and
nothing above it spins), and every blocking call except the wait for event bits
has a timeout. The wait for bits is disabled, not unfair, while no bit is set. No
operator is obliged to issue a command, so the first step of a command has no
fairness. `AgentVision!Spec` is fair to the loop for the same reasons; the screen and the operator
are not obliged to do anything. `UvcHost!Spec` is fair to the owner's task, to the client task and to the
packets of an isochronous stream, which arrive whether or not the device sends anything; it is strongly fair to
the end of a transfer callback (`Over`), as a transfer holds finitely many packets. A
device is not obliged to answer a control request. `Boot!Spec` is fair to `app_main`,
each call of which returns (the wait for the network after 30 s), and to the loop task. The other modules have
safety properties only; `MutexReturned` stands for "no handler waits for ever", since no section it names waits
for anything.

## 4. Properties

* `IdleIsQuiet`: IDLE is what the web handlers and both start functions take as leave
  to change sessions, so in IDLE no iteration may be in its body, and nothing may
  be held down. It holds with both control tasks.
* `FailBudget`, `BudgetRespected`, `OneIterationPerStep`: the three counters that
  stop an agent that would otherwise go on typing.
* `GoalMatchesSession`, `StepsAdvance`: goal, plan, trajectory and counter belong to
  one session, and a counter never jumps. With one control task they hold, with
  two they do not (section 6).
* `CommandsServed` is `StopServed` and `StepReturns`: a stop bit that is set at any point but
  one is served, and a single step comes to an end. `StopUnwinds` is the first without its exception.
* `WorkIsDone`: the loop is never left blocked with work to do.
* `KeepsPromise`: `AgentControl` implements `AgentPromise`, liveness included, with
  `phase` the state, `working` the body of an iteration, `task` the goal and `turns`
  the counters on the card.
* `PictureIsScreen`, `BoxesMatchPicture`: what the model sees is the frame just captured, and its
  answer is mapped through the view it saw, although payload, view and frame are kept in
  three places that change at different times. Both except a failed encoding or cropping.
* `TriesEnd` is `GivesUp` and `BoundedRetries`: nothing is retried for ever. `SkipSeenOnly`: a step is
  skipped only while the screen is the one in the last answered request, whichever captures, exchanges and tasks
  failed or ended in between, as long as no encoding has failed since that picture was made and the
  request had a picture. `SkipProven` and `StatusTrue` say what the documentation says, without this
  condition, and fail (section 6). `KeepsAsking`: but not for ever.
* `LetsGo`, `ButtonsAgree`: however an emergency, its release in another task, lost reports and the abort
  interleave, the target is left with nothing held, and the device's own record says so.
  `TypedInFull`: when nothing disturbed the typing, the report "device queued ALL" the model is given is true, except
  for 0 of 0; `QueuedAll` is the report without this exception and fails (section 6). `KeypadConfirmed`: the keypad
  types no cursor keys as long as no wait for Num Lock has given up and the device believes nothing of an earlier
  target; `KeypadTypesDigits` shows that a wait which gave up can be the reason for cursor keys.
* `FramesCounted` is `PoolWhole` and `StopGivesBack`: two tasks that pause a stream and end a
  picture at once neither lose nor duplicate a frame, and a stopped stream has given its frame back, unless it was
  stopped in the middle of a transfer callback, which then may take one (`uvc_isoc.c:140` and `181`,
  `uvc_bulk.c:176`). `TransfersFinish`, which fails (section 6): such a callback ends in order. `OwnAnswer`, `CallReturns`: control requests with a
  timeout. `NoAbort`: closing never aborts the device, except in two named situations of a
  bulk endpoint. `StreamFed`: a stream that claims to run has something in flight.
* `PoolServes` is `FrameOwned` and `NeverDry`: each buffer is in one place and the driver finds one when
  it needs one. `Announced`: the semaphore is given exactly when a frame waits. They hold as long as
  the accesses to `s_latest_frame` do not interleave: a critical section around lines 162-163
  and 321-322 of `uvc_capture_card_driver.c` would give them without condition.
  `RawOverflowDiscarded` holds for formats other than MJPEG.
* `FilesBelong`: over any sequence of switching, creating, deleting and restarting, the record in a directory
  is that session's (`OwnMeta`), and until START is pressed so is the plan (`PlanBelongs`). Section 6 says what
  a press can do to it. `CardUsable` is `CurrentExists` (the current session has a
  directory) and `Loadable` (no session is lost without a loss of power). `StepsHaveTurns`: a
  session that is continued after a loss of power, or after a rename that raced with a turn, never
  believes in a turn it has no record of; a turn may be recorded twice. Two exceptions are part
  of the properties because the code has them: a power loss inside a trim, and two starts at once.
* `KeepsStore`: until START is pressed, `SessionStore` implements `StorePromise`. A turn goes to the
  session that is current and makes one more than memory knows of; a session is continued where its
  record says; deleting one changes no other; a rename that raced with a turn puts a counter back
  and never forward; a loss of power costs at most the session whose file was open, or its turns, and
  leaves every other session as it was.
* `MutexReturned`: nobody is blocked by a path that returns early.
* `NetworkTold`: once its events are handled, the device reports an address exactly while it is
  linked, and gives up only after `RetryLimit` consecutive failures. `HistoryKept`: no summary
  is lost or reordered by compression, and only a length of one reads past the array (which then ends the
  behaviour). `ProfilesSound`: the cache is the file unless the page edited it, and no profile
  says a thing twice but one with a line that was compared with nothing. `DeviceServes`: boot settles, and a task accepted before there is a loop is taken up.
* `DescriptorsAgree`: what the camera offers is opened in the format and size asked for, and with the very
  interval where the frame has it; a camera's answer is
  read as the camera means it; its frames are counted, and listed completely when every format the driver knows is closed by
  another descriptor. `RefusesOthers` (what is not offered is not opened as something else) and `ListsAllFrames` are
  the documentation's versions and fail (section 6). `PointsRight`, `TextsKept`: coordinates and text survive the way through.

Every property of a passing run has a mutant, an operator such as `Guard_Dropped`
next to the definition it changes, under which TLC finds the property violated.

## 5. Proofs

The theorems about the agent are about `AgentControl!SafeSpec`, for every set of control tasks and
sessions and every `MaxActions` and `MaxBatch` that satisfy `AgentAssumption`.

The first part of `AgentControl_proofs` makes no other assumption. `TypeCorrect` is inductive by itself.
`Quiet`, `Budget` and `SingleStep` each have an inductive invariant of their own:

* `QuietInv`: nothing is held outside the middle of an action and the unwinding that
  releases it, and only `SetIdle` makes the state IDLE, from a point outside the body;
  a command can change the state at any time but never to IDLE. The lemma
  `CommandEffect` states what commands may do to the state and is used by all three.
* `FailInv`: the failure count is below the limit wherever an iteration may go on,
  and reaches it only on the way to an abort.
* `IterInv`: the count of iterations is tied to `ranSingle`, the loop's local flag,
  from `Mark` to the next `Top`.

The second part assumes `SoleController`: at most one control task issues commands
(`\A t, u \in Control : t = u`). This is the case the documentation promises and the
one in which the promises hold; with two, the interleaving of two starts
refutes them (section 6). `SoleInv` is
inductive: `StartInv` says what a start has seen by the time it reaches each of its
calls (the state is still IDLE and the loop still outside its body), `SyncInv` ties
goal, current session and pending argument together, `CardInv` ties the counter in
memory to the one on the card, `LimitInv` is the budget. `SoleCorrect` proves it
invariant, `SoleGoal`, `SoleBudget` and `SoleProgress` follow, and `SoleRefines` maps
every step to a step of `AgentPromise` or a stutter.

The bounds of the models (`MaxInits`, `MaxUnplugs`, `MaxCrashes`, `MaxTold`, the budgets of `Boot`)
appear in guards only; no theorem depends on what they are.

`SessionStore_proofs` is about `SessionStore!Spec`, for any set of ids and any bounds that
satisfy `StoreAssumption`. `MutexFree` rests on `LockInv` (where a task may be, and
`MutexReturned`), with one lemma for each way a step treats the mutex: it stays outside,
enters, stays inside, leaves. `MetaOwned` rests on `MetaInv`: that a file is its
session's own is not inductive, as it depends on the current session's goal being its
own (`CurOwn`), on a request naming a session (`ArgOwn`), and on what httpd and the
loop hold in a buffer between the truncation of a file and its writing (`HttpdOwn`,
`LoopOwn`). The other theorems start from what these two know and from where every task may
be at once and what it holds there (`PlaceInv`, `CardInv`; together `Known`).

* `CardAlwaysUsable`: that the current session has a directory survives a press of START, and
  is part of `CardInv`. That every directory is readable does not: without the button, what a
  deletion removed stays away until its last step, and the loop only writes the record of the
  session that is current (`AloneInv`).
* `StepsNeverAhead`: the counter in meta.json is compared with the trajectory through three places that
  lag behind one another, the counter in memory, the turns the task has counted and the record
  about to be written (`StepsInv`); a trim that is in progress is the exception (`Trims`).
* `PlansBelong`, the other half of `FilesAlwaysBelong`, holds until START is pressed: the plan in memory is that of the
  directory it will be saved to, except while a request of the page changes the two one after the other, during which the
  loop rests; and the path, the text and the file of a plan that is being saved belong together (`PlanInv`).
* `StoreRefines`: every step of the files is a step of `StorePromise` or is not seen there. `KeepInv` adds what
  the others leave open: the session of a running task can be listed, the turns counted are those in memory
  and one more between the count and the record, what a rename writes back is not ahead of the record it replaces,
  and a session that is new or being trimmed has an empty trajectory. `Seen` expands the
  refinement mapping once, per session; `RestingSeen` is the case in which nobody has a file open, which
  is all that the page's requests but a rename meet (`PageRests`). There is one lemma for each action that
  `StorePromise` sees, named for both sides (`LoadContinues`, `FillTrajRecords`, `CrashRestarts`), and
  `PlacesUnseen` and `RemovalUnseen` for the rest. The promise ends with a press of START, since the two starts that may
  then overlap break it (section 6).

`UvcCapture_proofs` is about any pool with two more frames than consumers (`UvcAssumption`; the firmware has 6
for the loop and the httpd task, and with less the driver does run dry). Where the locals of the two sides are
follows from the program counters alone (`LocalInv`). As long as `~raced`, a waiting frame is announced by
exactly one of the semaphore, the consumer that took it and the callback about to give it
(`TokenInv`), and `s_latest_frame` is between a read and its write what was read (`ReadInv`). Without
these two the partition of the frames (`Owners`) is not inductive: it is the write of a
stale value that would break it. `NeverDry` then is counting: besides the queue there is room for one frame in the
driver, one that waits and one per consumer. `OverflowNeverOffered` rests on `CutInv`: outside MJPEG the only frame that may have
overflowed is the one that is being skipped.

`UvcHost_proofs` is about any number of transfers and frames and either kind of endpoint (`HostAssumption`).
The steps left in `todo` are a suffix of the plan of the call (`PlanInv`), so `Place` numbers where the owner's task
is, and the other five parts of `HostInv` are tables over that number:

* `OwnerInv`: what of host, driver, client task and stream exists at each place, on the way up, on the way back
  from an error, and after an init that met the remains of an earlier one.
* `CtrlInv`: as long as no request has timed out, the request in flight and the completion that waits belong to
  the request the owner waits for. This is `OwnAnswer` made inductive.
* `PoolInv`: the frames in the four places add up while the stream is listed; the one exception is a second init that
  failed after it had taken over the first one's stream, and is a step of the code. A callback that is under way
  on a stopped stream was `overtaken` by the owner's pause, which is what makes `StopGivesBack` inductive.
* `FeedInv`: which transfers may be in flight; a device that is not there has none.
* `QuietInv`: from the pause on, deinit finds at each place a bit more at rest, so that at the flush every frame is
  in the queue and at the close nothing is in flight, except on a bulk endpoint.

`HostInvariant` says it is inductive; `FramesAlwaysCounted`, `AnswersAlwaysOwn`, `StreamAlwaysFed` and
`AbortsOnlyBulk` follow.

`AgentVision_proofs` is about any set of screens, any `next_view` the model may send and any number of
configured retries and blind rounds (`VisionAssumption`). That views stay inside the frame with an area
(`VisionType`, from the lemmas about `view_normalize`) is what makes mapping and cropping defined. `QueryInv` and
`CacheInv` tie the query to the last frame and the view in force, and the payload to the
query from the step that picks it until the answer is adopted. `WaitInv` ties the skipping of
steps to the picture in the last answered request, if it had one that was made for its screen, `FlowInv` and
`RetryInv` the two counters to where the loop is. The action
property `SkipSeenOnly` follows from `WaitInv`.

`Boot_proofs` is about any profiles, configurations and limits, and any number of lives. `AirInv` enumerates what the
radio may have on its way to the event task: at most an address and its loss, in this order, since the
station connects again only when the loss has been handled (`EventInv`). `OrderInv` says
what has been initialised at each step of `app_main`: the loop starts last, when the length of the history is
set. `StmInv` keeps the summaries in order through appending, dropping and merging (`AppendKept` and the lemmas
beside it); it is about the ring of summaries as sequences and needs no induction over them. `ProfileInv` adds to the
claim about the cache what has been read from the file and not yet cached.

`HidExecutor_proofs` is about any texts over `Symbols`, any number of actions, emergencies and pulled cables,
and at least two tries for a mouse report (`BoundAssumption`). The code has five; with one, a release
that finds the endpoint taken by the keys of httpd would be lost without a trace. The invariant is `IInv`; none of the four theorems is
inductive without it, and its parts are proved in the order in which they need each other:

* `Basic`: the types; what a script can look like at any moment (`Good`: which calls can be at hand
  only, what comes before what, and that a press has its release behind it); that a report being sent is
  the one of the call at hand; and that two tasks which both found the endpoint free have not used it. One lemma per
  action says what it does to the script, and the rest of the proofs use only those.
* `KeysInv`: a key that is down, or will be once the endpoint is polled, is released by the call at hand.
* `HeldInv`, `PressInv`, `DownInv`: the same for buttons, in the record, in a report being sent and at the target. The
  release may be refused once, and `Contest` says when: only to the keys of httpd, whose own
  release of the buttons is then still to come, and never twice.
* `QueueInv`: the character the loop is at, what is queued, and the length agree with the script.
* `LedInv`: what the device believes of Num Lock is behind the target by at most one key press and its report.
* `TextInv`: while every character passed is queued or at hand and nothing disturbs the typing, the target has the text up
  to the one that is at hand or in the endpoint. A text whose length was never set (0 of 0) is not one of these. It rests on `KeysInv` (the key before it is up, so the key is seen as new) and
  on `LedInv` (the keypad digit is a digit).

`DeviceInputs_proofs` is about any cameras, boxes, views, answers, texts and buffers that satisfy `InputAssumption`. It asks
two things. The screen has no more pixels than the 32767 steps of the absolute axis, since a pixel of a larger one could not
be told from its neighbour (`output_width` is configurable, 1920 by default). A camera is honest: it has a format, every
format has a frame, no step between intervals is zero, no kind the driver knows comes twice, and no setting has an empty
packet. Formats of kinds the driver does not know may stand anywhere, any number of them. Nobody asks for an unknown
kind. The driver looks for the first format of a kind only (`uvc_desc_get_frame_format_by_format`), so frames of a second one
would count as offered and might not be found.

`PointsAlwaysRight` is arithmetic: `\div` is
characterised once (`Floor` and the lemmas beside it), `RoundTrip` says that pixel to axis to pixel loses at most one,
`GrownInside` that a view has an area. `TextsAlwaysKept` is about functions that walk over a text or a list, and is
proved by an induction that is stated about sets, not about predicates: `Least` gives every
non-empty set of naturals a least element, by counting; `Upwards` and `Backwards` conclude that a
set holds a whole interval. That the functions exist is proved as well, as a `CHOOSE` says nothing otherwise
(`BackwardFunction` for definitions that look ahead, `FoldExists` for `FoldLeft`). The rest compares them place
by place: `CutIsValid` (cut between characters, valid text stays valid), `RepairedLength`, `RepairedIsValid`,
`RepairedIsSame`, and `ValidatedKeeps`, the n-th entry worth keeping is the n-th action.

`DescriptorsAlwaysAgree` rests on one lemma about layout: `DescriptorsSent` says of the descriptors, however many there are,
that seven come first, that the k-th format and its frames are a block at an offset, and that the settings of the streaming
interface stand behind them (`Sent`). `FormatInside` and `FormatThere` conclude that a class
descriptor that carries a format is the head of its block and of no other, wherever the header's claimed length ends.
From there each function of the driver is looked at by itself: `ByIndexIs` and `ByFormatIs` (the first match of a search
is the one meant, so an answer is read as the camera means it, `AnswerMeans`, and what is offered is
negotiated, `NegotiatesOffered`), `SettingAlwaysBest` (a largest packet among those that fit, or none), and the two
walks over the list, `CountIs` and `ListIsWhole`, which go through it a block at a time (`BlockWalked`). Where a
block of frames is not closed by a descriptor of another kind, the list names only what there is (`ListIsFair`): the walk
consumes the format that follows.

Only model-checked: all liveness (`CommandsServed`, `WorkIsDone`, `KeepsAsking`,
`CallReturns`, `DeviceServes`, the fairness part of `KeepsPromise`), out of the prover's
reach here. Every invariant of the passing runs is stated by a theorem.

## 6. Findings

Three have a run that shows them; `PROJECT.json` quotes the lines that say otherwise.

* `AgentLostStop`: a stop or emergency between the loop's read and its clearing of the bits is lost.
* `HidKeypad`: `hid_ensure_num_lock` takes the late report of an earlier press for the
  confirmation of the present one, and digits become cursor keys.
* `UvcDeinit`: `uvc_capture_deinit` answers ESP_OK and has released nothing.

Seven more are stated as properties beside those the runs check, but are in no configuration. TLC finds each violated
within seconds when it takes the place of the properties in the configuration named. The property that
holds has the case as an exception.

* `PlanBelongs` in `StoreCard`. Technical-Document.md:589: a goal or plan is not "swapped out from under a running
  task". `plan_manager.c` has no lock (lines 192 to 199), so a press of START while the page starts a session, or
  while its task saves a plan, can put the plan of one session into the file of another.
* `SkipProven` in `VisionLoop`. Technical-Document.md:766: "the frame fingerprint proves the screen **still** matches
  the last one it saw". The fingerprint is that of the captured screen (`agent_core.c:745`) and not of the picture that
  was sent, so after a failed encoding (`cloud_client.c:383`), or a request without its picture (420), a step may be skipped
  for a screen the model has not been shown.
* `StatusTrue` in `VisionLoop`. For the same reason the status text may call a screen "identical to the screenshot you
  last saw" (`agent_core.c:736`) when that one showed something else, or was never sent.
* `QueuedAll` in `HidBatch`. README.md:71 of `hid_device`: "When `queued == len` the device put every keystroke on the
  wire". For a target that is not mounted both are 0 (`hid_device.c:459`), and `action_executor.c:557` reports ALL.
* `TransfersFinish` in `UvcHost`. Comment at `uvc_host.c:1064`: after a pause "the transfer can gracefully finish".
  `uvc_bulk.c:192` resets a frame that a pause has just taken, which is an assertion, and the device restarts.
* `RefusesOthers` in `DeviceInputs`. Comment at `uvc_descriptor_parsing.c:289`: frames "should be directly after
  Format". The search goes on behind the next format (290), so a size or rate that the wanted format does not have is
  asked for with the index of a frame of another.
* `ListsAllFrames` in `DeviceInputs`. `uvc_descriptors_priv.h:105`: the function "extracts all frame descriptors".
  A format that stands directly behind the frames of another is swallowed (`uvc_descriptor_parsing.c:478`).

Other disagreements between code and documentation met while modelling, which no property states. The properties
that hold carry them as named exceptions.

* Two starts at once: `agent_start` checks IDLE and sets RUNNING in two mutex sections
  (`agent_core.c:126`), so a press of START during a web start, or during `session_select`, swaps the session under an
  iteration. The documentation (Technical-Document.md:589) excludes this.
* `take_frame` and `frame_callback` both read and then write `s_latest_frame`. Interleaved, a
  buffer is lost and another queued twice, or a frame is stored that nothing announces
  (`uvc_capture_card_driver.c:162`, `321`); every later capture then times out. The exception is `raced`.
* An overflowed MJPEG picture without EoF is delivered (`uvc_isoc.c:161`); README.md:47 of the component says it
  is discarded.
* Boot and the fallback after a deletion resume the first session the directory lists, not the newest
  (`session_manager.c:240`). A renamed title is undone by the next turn (`session_manager.c:130`). A
  session selected or continued before its first plan update never gets a plan (`plan_manager.c:187`).
* Wait mode survives into the next task.
* A box with one axis in pixels is taken for pixels on both ("Per-axis detection", `action_executor.c:180`).
* An error answer with `done: false` does not end the task: the parser adds a second `done`, and the
  first one counts (`json_parser.c:83`).
* A format that the camera refuses is opened in the camera's own
  format when the second try agrees with it.
* A device that joins the network after the 30 s of boot never starts SNTP (`main.c:129`).
* `system_prompt_interval` 0 becomes 1 (`config_loader.c:224`), although `config.example.json` has it as a value.

## 7. Plan

1. The ISR of the buttons with its notification that is overwritten, and the readers of the plan tree.
2. The overwriting of a trajectory from the web page, and the picture cache it reads.
3. `SessionStore` in place of the part of `AgentControl` that stands for it, so that both refinements meet.

Not modelled, and why: descriptor printing, JPEG coding, base64, JSON syntax and the text of the
prompts (pure data with no state, and no property depends on them); LCD panel, status screen and SD card
drivers (I/O); the fields of the web page's status answers (read-only); the `prototype` directory, an
earlier desktop implementation with its Arduino bridge, which is not part of the firmware and shares no
code with it. Within modelled components, `PROJECT.json` says what is left out.
