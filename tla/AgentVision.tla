----------------------------- MODULE AgentVision -----------------------------
(* What the agent's loop (agent_main_loop_task) shows the model and what it   *)
(* concludes from the pictures: the fingerprint of the last frame, the reuse  *)
(* of the encoded payload, the sticky field of view, the waiting that skips   *)
(* queries and the three failures that end a task.                            *)
(* The screen changes at any time; a web request stops and starts tasks.      *)
(* The loop calls CloudClient; the other states of the agent, its event bits  *)
(* and the step limit are in AgentControl.                                    *)
EXTENDS CloudClient, FiniteSets

CONSTANTS
  Frames,          \* what the screen can show
  Requested,       \* the next_view objects the model may send (see Adopted)
  MaxBlindRounds,  \* max_blind_rounds of agent_set_wait_skip_policy
  Absent           \* an answer without next_view

\* A next_view is any JSON the parser lets through: a scale, and maybe a box.
ASSUME VisionAssumption ==
  /\ MaxBlindRounds \in Nat
  /\ NoFrame \notin Frames /\ Absent \notin Requested
  /\ \A r \in Requested :
       /\ r.box \in BOOLEAN /\ r.scale \in Int
       /\ r.box => /\ r.y0 \in Int /\ r.x0 \in Int
                   /\ r.y1 \in Int /\ r.x1 \in Int

VARIABLES
  screen,      \* what the capture card sees
  agent,       \* the state of the agent: "idle", "running" or "stopping"
  pc,          \* where the loop is: "top", "capture", "query", "act" or "adopt"
  view,        \* ctx->view
  waitMode,    \* ctx->wait_mode
  blind,       \* ctx->blind_rounds
  fails,       \* ctx->fail_count
  print,       \* prev_sig, NoFrame while have_prev_sig is false
  told,        \* what the status text of this step says: "unknown", "same" or "differs"
  boxView,     \* the view the executor maps the model's boxes with
  seen,        \* history: the frame the last answered request showed, NoFrame if none
  unanswered   \* history: failed steps in a row in this task

loopVars == <<agent, pc, view, waitMode, blind, fails, print, told, boxView>>
histVars == <<seen, unanswered>>
vars == <<clientVars, screen, loopVars, histVars>>

Init ==
  /\ ClientInit
  /\ screen \in Frames
  /\ agent = "idle" /\ pc = "top"
  /\ view = Full /\ boxView = Full
  /\ waitMode = FALSE /\ blind = 0 /\ fails = 0
  /\ print = NoFrame /\ told = "unknown"
  /\ seen = NoFrame /\ unanswered = 0

-----------------------------------------------------------------------------
(* The web requests and the screen. *)

\* agent_start and agent_start_session clear the counters of the task and start
\* wide; the fingerprint, wait_mode and blind_rounds stay.
Start ==
  /\ agent = "idle"
  /\ agent' = "running"
  /\ fails' = 0 /\ view' = Full
  /\ unanswered' = 0
  /\ UNCHANGED <<clientVars, screen, pc, waitMode, blind, print, told,
                 boxView, seen>>

Stop ==
  /\ agent = "running"
  /\ agent' = "stopping"
  /\ UNCHANGED <<clientVars, screen, pc, view, waitMode, blind, fails,
                 print, told, boxView, histVars>>

ScreenChanges ==
  /\ screen' \in Frames \ {screen}
  /\ UNCHANGED <<clientVars, loopVars, histVars>>

-----------------------------------------------------------------------------
(* The loop. *)

\* The top of the iteration: a stop is answered, otherwise a running task goes on.
Top ==
  /\ pc = "top"
  /\ \/ agent = "stopping" /\ agent' = "idle" /\ UNCHANGED pc
     \/ agent = "running" /\ pc' = "capture" /\ UNCHANGED agent
  /\ UNCHANGED <<clientVars, screen, view, waitMode, blind, fails,
                 print, told, boxView, histVars>>

\* Mutant of Failed: the fourth failure ends the task.
FailedLate ==
  /\ fails' = fails + 1
  /\ unanswered' = unanswered + 1
  /\ agent' = IF fails + 1 > 3 THEN "idle" ELSE agent
  /\ told' = "unknown"
  /\ pc' = "top"

\* fail_count is shared by captures and queries; the third failure ends the task.
Failed ==
  /\ fails' = fails + 1
  /\ unanswered' = unanswered + 1
  /\ agent' = IF fails + 1 >= 3 THEN "idle" ELSE agent
  /\ told' = "unknown"
  /\ pc' = "top"

CaptureFails ==
  /\ pc = "capture"
  /\ Failed
  /\ UNCHANGED <<clientVars, screen, view, waitMode, blind, print,
                 boxView, seen>>

\* Mutant of SameFrame: frames are told apart by their length alone.
SameLength == print # NoFrame

\* The fingerprint of this frame equals the last one.
SameFrame == print # NoFrame /\ screen = print

ReuseImage == SameFrame /\ CanReuse(view)

\* Mutant of SkipQuery: the screen is not looked at.
SkipBlindly == waitMode /\ CanReuse(view) /\ blind < MaxBlindRounds

SkipQuery == waitMode /\ ReuseImage /\ blind < MaxBlindRounds

\* Mutant of Skip: the rounds are not counted.
SkipUncounted ==
  /\ pc = "capture"
  /\ SkipQuery
  /\ print' = screen
  /\ pc' = "top"
  /\ UNCHANGED <<clientVars, screen, agent, view, waitMode, blind, fails, told,
                 boxView, seen, unanswered>>

\* The model asked only to wait and the screen is the one it saw: wait again.
Skip ==
  /\ pc = "capture"
  /\ SkipQuery
  /\ print' = screen
  /\ blind' = blind + 1
  /\ pc' = "top"
  /\ UNCHANGED <<clientVars, screen, agent, view, waitMode, fails, told,
                 boxView, seen, unanswered>>

\* Otherwise the captured frame goes to the model.
Ask ==
  /\ pc = "capture"
  /\ ~SkipQuery
  /\ print' = screen
  /\ told' = IF print = NoFrame THEN "unknown" ELSE IF SameFrame THEN "same" ELSE "differs"
  /\ waitMode' = FALSE /\ blind' = 0
  /\ query' = Asked(screen, view, ReuseImage)
  /\ pc' = "query"
  /\ UNCHANGED <<cache, conn, lost, screen, agent, view, fails, boxView,
                 seen, unanswered>>

\* cloud_client_query runs in the loop's task.
Client ==
  /\ pc = "query"
  /\ ClientNext
  /\ UNCHANGED <<screen, loopVars, histVars>>

QueryFails ==
  /\ pc = "query" /\ query.phase = "failed"
  /\ Failed
  /\ query' = NoQuery
  /\ UNCHANGED <<cache, conn, lost, screen, view, waitMode, blind,
                 print, boxView, seen>>

\* An answer: the executor is told which view its boxes are normalised to, runs
\* the batch, and the loop decides whether the model only asked to wait.
Act ==
  /\ pc = "query" /\ query.phase = "answered"
  /\ fails' = 0 /\ unanswered' = 0
  /\ boxView' = view
  /\ \E onlyWaits \in BOOLEAN : waitMode' = onlyWaits
  /\ seen' = query.picture.frame
  /\ pc' = "adopt"
  /\ UNCHANGED <<clientVars, screen, agent, view, blind, print, told>>

\* agent_adopt_next_view: an absent request keeps the view, a box below the
\* minimum extent is dropped, a scale other than 1, 2 and 4 is 1.
Adopted(r) ==
  IF r = Absent THEN view
  ELSE LET wide == ~r.box \/ Abs(r.y1 - r.y0) < MinExtent \/ Abs(r.x1 - r.x0) < MinExtent
           v    == IF wide THEN Full
                   ELSE [y0 |-> r.y0, x0 |-> r.x0, y1 |-> r.y1, x1 |-> r.x1, scale |-> 1]
       IN  Normalized([v EXCEPT !.scale = r.scale])

\* The end of the step: the view of the next screenshot, and the task may be done.
Adopt ==
  /\ pc = "adopt"
  /\ \E r \in Requested \cup {Absent} : view' = Adopted(r)
  /\ agent' \in {agent, "idle"}
  /\ query' = NoQuery /\ told' = "unknown"
  /\ pc' = "top"
  /\ UNCHANGED <<cache, conn, lost, screen, waitMode, blind, fails,
                 print, boxView, histVars>>

Loop == Top \/ CaptureFails \/ Skip \/ Ask \/ Client \/ QueryFails \/ Act \/ Adopt

Next == Start \/ Stop \/ ScreenChanges \/ Loop

\* The loop is a FreeRTOS task whose waits all time out.
Spec == Init /\ [][Next]_vars /\ WF_vars(Loop)

-----------------------------------------------------------------------------
(* Properties. *)

\* Types, and what every view the loop uses must be: inside the frame and with
\* an area, whatever box the model sent (view_normalize).
TypeOK ==
  /\ agent \in {"idle", "running", "stopping"}
  /\ pc \in {"top", "capture", "query", "adopt"}
  /\ \A v \in {view, boxView, query.view, cache.key, cache.shows} :
       /\ 0 <= v.y0 /\ v.y0 + MinExtent <= v.y1 /\ v.y1 <= Unit
       /\ 0 <= v.x0 /\ v.x0 + MinExtent <= v.x1 /\ v.x1 <= Unit
       /\ v.scale \in {1, 2, 4}
  /\ query.phase \in {"none", "prepare", "serialize", "send", "answered", "failed"}
  /\ query.phase # "none" <=> pc \in {"query", "adopt"}
  /\ waitMode \in BOOLEAN /\ blind \in 0 .. MaxBlindRounds /\ fails \in 0 .. 3

\* The request has a picture, which it has not when memory was short.
HasPicture == query.picture.frame # NoFrame

\* The picture in a request is the frame captured in this step, prepared for the
\* view in force, even when an older payload is reused (cloud_client_query) --
\* unless an encoding has failed since that payload was made.
PictureIsScreen ==
  query.phase \in {"send", "answered"} /\ HasPicture /\ ~lost =>
    query.picture.frame = print /\ query.picture.key = view

\* The boxes of an answer are mapped with the view its picture shows, not with
\* one asked for later (action_executor_set_view before agent_adopt_next_view),
\* unless cropping failed and the whole frame was sent.
BoxesMatchPicture ==
  pc = "adopt" /\ HasPicture /\ query.picture.shows = query.picture.key /\ ~lost =>
    boxView = query.picture.shows

\* An iteration that neither asked the model nor failed.
Skipped == pc = "capture" /\ pc' = "top" /\ unanswered' = unanswered

\* A step is skipped only while the screen shows the picture of the last answered
\* request, whichever captures, exchanges and tasks failed or ended in between --
\* unless an encoding has failed since that picture was made, or the request
\* went without one: the fingerprint is then that of a screen nobody has seen.
SkipSeenOnly == [][Skipped /\ ~lost /\ seen # NoFrame => screen = seen]_vars

\* What the documentation says of it: a step is skipped only while the screen is
\* the one the model last saw.
SkipProven == [][Skipped => screen = seen]_vars

\* A status line that calls the screen identical to the screenshot the model last
\* saw is true of the screen in this request (build_status_text).
StatusTrue == pc = "query" /\ told = "same" /\ seen # NoFrame => query.frame = seen

\* Three steps in a row without an answer, captures and queries together, end
\* the task.
GivesUp == unanswered >= 3 => agent # "running"

\* A query is sent at most MaxRetries + 1 times, with a delay the backoff table
\* has, and not again after a status that cannot get better.
BoundedRetries ==
  /\ query.attempt + 1 \in DOMAIN Backoff
  /\ query.sent <= MaxRetries + 1
  /\ query.refused => query.phase = "failed"

\* Trying again has an end, for one query and for a task that gets no answers.
TriesEnd == TypeOK /\ GivesUp /\ BoundedRetries
\* A running task keeps asking: waiting for the screen cannot go on for ever.
KeepsAsking == agent = "running" /\ pc = "top" ~> query.phase = "send" \/ agent # "running"
=============================================================================
