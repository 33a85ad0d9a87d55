---------------------------- MODULE AgentControl ----------------------------
(***************************************************************************)
(* The agent's state machine: the main loop task of agent_core.c, and the  *)
(* control tasks that command it through agent_start() ... agent_emergency *)
(* (the httpd task, which serves one request at a time, and the button     *)
(* task).  They share the agent context under state_mutex, the FreeRTOS    *)
(* event group, the session manager's current session, the task log handle *)
(* and the HID reports.  One TLA+ step is what happens between two points  *)
(* where another task can run: a mutex section, one event-group call, one  *)
(* call into another component.                                            *)
(***************************************************************************)
EXTENDS Integers, FiniteSets

CONSTANTS Web,         \* the httpd task: at most one, it serialises handlers
          Buttons,     \* the btn_monitor task: at most one
          Sessions,    \* ids of the sessions the SD card may come to hold
          NoSession,   \* "no session id" and "log not open"
          MaxActions,  \* ctx->max_actions
          MaxBatch     \* bound: actions the model may put in one response

ASSUME AgentAssumption == /\ Web \cap Buttons = {}
                          /\ NoSession \notin Sessions
                          /\ MaxActions \in Nat
                          /\ MaxBatch \in Nat

VARIABLES state,        \* ctx->state
          actionCount,  \* ctx->action_count
          failCount,    \* ctx->fail_count
          goal,         \* session whose goal ctx->task_goal holds
          bits,         \* ctx->control_events
          known,        \* sessions that exist on the card
          curSession,   \* s_cur_id: session, plan and trajectory in use
          steps,        \* "steps" of every session's meta.json
          log,          \* session of s_log_file, NoSession when it is NULL
          held,         \* a mouse button or key is down on the target
          pc,           \* where the main loop is
          got,          \* its local `bits`
          ending,       \* why it is unwinding to IDLE
          ranSingle,    \* its local ran_single_step
          todo,         \* actions of the current batch not yet executed
          op,           \* what each control task does next
          arg,          \* the session id its command is about, if any
          iters         \* history: iterations the STEP command has run

ctxVars  == <<state, actionCount, failCount, goal>>
sessVars == <<known, curSession, steps>>
loopVars == <<pc, got, ending, ranSingle, todo>>
taskVars == <<op, arg>>
vars == <<ctxVars, bits, sessVars, log, held, loopVars, taskVars, iters>>

States  == {"IDLE", "RUNNING", "PAUSED", "STEP", "STOPPING", "EMERGENCY"}
Bits    == {"RUN", "STEP", "STOP", "EMERGENCY"}
Control == Web \cup Buttons
FailLimit == 3

(* The body of an iteration, from the state check to the recorded turn. *)
Body == {"mark", "limit", "capture", "query", "exec", "holding", "count", "turn"}
(* The common tail of every path that ends a task. *)
Closing == {"release", "closeLog", "clearBits", "setIdle"}
LoopPcs == {"top", "gate", "wait", "get", "clear", "dispatch", "guard"}
             \cup Body \cup Closing

Ops == {"ready", "create", "load", "beginNew", "beginOld", "openLog",
        "sendRun", "clearRun", "sendStep", "sendStop", "sendEmergency",
        "release", "select", "wantPause", "wantResume", "wantStop"}

(* agent_should_continue() *)
ShouldContinue == state \in {"RUNNING", "STEP"}

-----------------------------------------------------------------------------
(* Boot: app_main loads one of the sessions on the card, or creates one,   *)
(* and starts the loop with the agent idle.                                *)
Init ==
  /\ state = "IDLE" /\ actionCount = 0 /\ failCount = 0 /\ goal = NoSession
  /\ bits = {}
  /\ known \in SUBSET Sessions /\ curSession \in known
  /\ steps \in {f \in [Sessions -> 0 .. MaxActions] :
                  \A s \in Sessions \ known : f[s] = 0}
  /\ log = NoSession /\ held = FALSE
  /\ pc = "top" /\ got = {} /\ ending = "none" /\ ranSingle = FALSE /\ todo = 0
  /\ op = [t \in Control |-> "ready"]
  /\ arg = [t \in Control |-> NoSession]
  /\ iters = 0

-----------------------------------------------------------------------------
(* Commands.  A command that is refused (wrong state) returns at once and  *)
(* changes nothing, so it is not an action.                                *)

Go(t, next) == op' = [op EXCEPT ![t] = next]

(* agent_start: the check against IDLE, made before the session is created *)
StartNew(t) ==
  /\ op[t] = "ready" /\ state = "IDLE"
  /\ Go(t, "create")
  /\ UNCHANGED <<ctxVars, bits, sessVars, log, held, loopVars, arg, iters>>

(* session_mgr_create: the fresh session is current from here on *)
CreateSession(t) ==
  /\ op[t] = "create"
  /\ \/ \E s \in Sessions \ known :
          /\ known' = known \cup {s} /\ curSession' = s
          /\ steps' = [steps EXCEPT ![s] = 0]
          /\ arg' = [arg EXCEPT ![t] = s]
          /\ Go(t, "beginNew")
     \/ /\ Go(t, "ready")                       \* no free id, or mkdir fails
        /\ UNCHANGED <<sessVars, arg>>
  /\ UNCHANGED <<ctxVars, bits, log, held, loopVars, iters>>

(* Mutant of StartOld: the session is changed without looking at the state. *)
StartOld_Unchecked(t) ==
  /\ op[t] = "ready" /\ t \in Web
  /\ \E s \in Sessions : arg' = [arg EXCEPT ![t] = s]
  /\ Go(t, "select")
  /\ UNCHANGED <<ctxVars, bits, sessVars, log, held, loopVars, iters>>

(* agent_start_session and the session_select handler: IDLE check first *)
StartOld(t) ==
  /\ op[t] = "ready" /\ t \in Web /\ state = "IDLE"
  /\ \E s \in Sessions : arg' = [arg EXCEPT ![t] = s]
  /\ \E next \in {"load", "select"} : Go(t, next)
  /\ UNCHANGED <<ctxVars, bits, sessVars, log, held, loopVars, iters>>

(* session_mgr_load: a session that is not on the card is refused *)
LoadSession(t) ==
  /\ op[t] \in {"load", "select"}
  /\ curSession' = IF arg[t] \in known THEN arg[t] ELSE curSession
  /\ IF op[t] = "load" /\ arg[t] \in known
       THEN Go(t, "beginOld") /\ UNCHANGED arg
       ELSE Go(t, "ready") /\ arg' = [arg EXCEPT ![t] = NoSession]
  /\ UNCHANGED <<ctxVars, bits, known, steps, log, held, loopVars, iters>>

(* The mutex section of agent_start: the state is not looked at again. *)
BeginNew(t) ==
  /\ op[t] = "beginNew"
  /\ state' = "RUNNING" /\ goal' = arg[t]
  /\ actionCount' = 0 /\ failCount' = 0
  /\ Go(t, "openLog")
  /\ UNCHANGED <<bits, sessVars, log, held, loopVars, arg, iters>>

(* Mutant of BeginOld: the step counter is not restored. *)
BeginOld_FromZero(t) ==
  /\ op[t] = "beginOld"
  /\ state' = "RUNNING" /\ goal' = curSession
  /\ actionCount' = 0 /\ failCount' = 0
  /\ Go(t, "openLog")
  /\ UNCHANGED <<bits, sessVars, log, held, loopVars, arg, iters>>

(* The same in agent_start_session, where goal and counter are those of    *)
(* whatever session is current by now.                                     *)
BeginOld(t) ==
  /\ op[t] = "beginOld"
  /\ state' = "RUNNING" /\ goal' = curSession
  /\ actionCount' = steps[curSession] /\ failCount' = 0
  /\ Go(t, "openLog")
  /\ UNCHANGED <<bits, sessVars, log, held, loopVars, arg, iters>>

(* task_log_init: the handle is overwritten, NULL when fopen fails *)
OpenLog(t) ==
  /\ op[t] = "openLog"
  /\ log' \in {arg[t], NoSession}
  /\ arg' = [arg EXCEPT ![t] = NoSession]
  /\ Go(t, "sendRun")
  /\ UNCHANGED <<ctxVars, bits, sessVars, held, loopVars, iters>>

(* xEventGroupSetBits / ClearBits, the last call of each command *)
Signal(t, at, next, newBits) ==
  /\ op[t] = at
  /\ bits' = newBits
  /\ Go(t, next)
  /\ UNCHANGED <<ctxVars, sessVars, log, held, loopVars, arg, iters>>

SendRun(t)       == Signal(t, "sendRun", "ready", bits \cup {"RUN"})
ClearRun(t)      == Signal(t, "clearRun", "ready", bits \ {"RUN"})
SendStep(t)      == Signal(t, "sendStep", "ready", bits \cup {"STEP"})
SendStop(t)      == Signal(t, "sendStop", "ready", bits \cup {"STOP"})
SendEmergency(t) == Signal(t, "sendEmergency", "release", bits \cup {"EMERGENCY"})

(* A command of the web page starts here; the button task reads the state  *)
(* first and comes here with a decision made.                              *)
Decided(t, want) == (op[t] = "ready" /\ t \in Web) \/ op[t] = want

SetState(t, s, next) ==
  /\ state' = s
  /\ Go(t, next)
  /\ UNCHANGED <<actionCount, failCount, goal, bits, sessVars, log, held,
                 loopVars, arg>>

Pause(t) == /\ Decided(t, "wantPause") /\ state = "RUNNING"
            /\ SetState(t, "PAUSED", "clearRun") /\ UNCHANGED iters

(* Mutant of Resume: the loop is not woken. *)
Resume_Silent(t) == /\ Decided(t, "wantResume") /\ state = "PAUSED"
                    /\ SetState(t, "RUNNING", "ready") /\ UNCHANGED iters

Resume(t) == /\ Decided(t, "wantResume") /\ state = "PAUSED"
             /\ SetState(t, "RUNNING", "sendRun") /\ UNCHANGED iters

(* Mutant of StepOnce: the loop is not woken. *)
StepOnce_Silent(t) == /\ op[t] = "ready" /\ t \in Web /\ state = "PAUSED"
                      /\ SetState(t, "STEP", "ready") /\ iters' = 0

StepOnce(t) == /\ op[t] = "ready" /\ t \in Web /\ state = "PAUSED"
               /\ SetState(t, "STEP", "sendStep") /\ iters' = 0

(* Stop and emergency are accepted in every state. *)
Stop(t) == /\ Decided(t, "wantStop")
           /\ SetState(t, "STOPPING", "sendStop") /\ UNCHANGED iters

Emergency(t) == /\ op[t] = "ready" /\ t \in Web
                /\ SetState(t, "EMERGENCY", "sendEmergency") /\ UNCHANGED iters

(* action_executor_emergency_release from agent_emergency *)
ReleaseHid(t) ==
  /\ op[t] = "release"
  /\ held' = FALSE
  /\ Go(t, "ready")
  /\ UNCHANGED <<ctxVars, bits, sessVars, log, loopVars, arg, iters>>

(* The button task samples the state when the PAUSE button is released:    *)
(* a long press asks for stop, a short one toggles pause.                  *)
PauseButton(t) ==
  /\ t \in Buttons /\ op[t] = "ready"
  /\ \/ state = "RUNNING" /\ Go(t, "wantPause")
     \/ state = "PAUSED" /\ Go(t, "wantResume")
     \/ state \in {"RUNNING", "PAUSED"} /\ Go(t, "wantStop")
  /\ UNCHANGED <<ctxVars, bits, sessVars, log, held, loopVars, arg, iters>>

(* agent_pause / agent_resume refuse: the state moved on since the sample *)
ToggleRefused(t) ==
  /\ \/ op[t] = "wantPause" /\ state # "RUNNING"
     \/ op[t] = "wantResume" /\ state # "PAUSED"
  /\ Go(t, "ready")
  /\ UNCHANGED <<ctxVars, bits, sessVars, log, held, loopVars, arg, iters>>


(* One more call of the command task t is in. *)
Continue(t) ==
  \/ CreateSession(t) \/ LoadSession(t) \/ BeginNew(t) \/ BeginOld(t)
  \/ OpenLog(t) \/ SendRun(t) \/ ClearRun(t) \/ SendStep(t) \/ SendStop(t)
  \/ SendEmergency(t) \/ ReleaseHid(t) \/ ToggleRefused(t)

Command(t) ==
  \/ StartNew(t) \/ StartOld(t) \/ Pause(t) \/ Resume(t) \/ StepOnce(t)
  \/ Stop(t) \/ Emergency(t) \/ PauseButton(t)

-----------------------------------------------------------------------------
(* The main loop.                                                          *)

At(here, next) == pc = here /\ pc' = next

(* Mutant of Top: the flag is not looked at, so STEP behaves like RUNNING. *)
Top_KeepsStep ==
  /\ At("top", "gate")
  /\ ranSingle' = FALSE
  /\ UNCHANGED <<ctxVars, bits, sessVars, log, held, got, ending, todo,
                 taskVars, iters>>

(* A single step that ran is consumed: STEP falls back to PAUSED. *)
Top ==
  /\ At("top", "gate")
  /\ state' = IF ranSingle /\ state = "STEP" THEN "PAUSED" ELSE state
  /\ ranSingle' = FALSE
  /\ iters' = IF state' = state THEN iters ELSE 0
  /\ UNCHANGED <<actionCount, failCount, goal, bits, sessVars, log, held, got,
                 ending, todo, taskVars>>

Gate ==
  /\ pc = "gate"
  /\ pc' = IF ShouldContinue THEN "get" ELSE "wait"
  /\ UNCHANGED <<ctxVars, bits, sessVars, log, held, got, ending, ranSingle,
                 todo, taskVars, iters>>

(* xEventGroupWaitBits on all four bits, any of them, cleared on exit *)
WaitBits ==
  /\ At("wait", "dispatch")
  /\ bits # {}
  /\ got' = bits
  /\ bits' = {}
  /\ UNCHANGED <<ctxVars, sessVars, log, held, ending, ranSingle, todo,
                 taskVars, iters>>

(* xEventGroupGetBits, and a separate xEventGroupClearBits *)
GetBits ==
  /\ At("get", "clear")
  /\ got' = bits
  /\ UNCHANGED <<ctxVars, bits, sessVars, log, held, ending, ranSingle, todo,
                 taskVars, iters>>

ClearStopBits ==
  /\ At("clear", "dispatch")
  /\ bits' = bits \ {"EMERGENCY", "STOP"}
  /\ UNCHANGED <<ctxVars, sessVars, log, held, got, ending, ranSingle, todo,
                 taskVars, iters>>

End(why, next) == ending' = why /\ pc' = next

(* Mutant of Dispatch: the stop bit is taken off the group and ignored. *)
Dispatch_NoStop ==
  /\ pc = "dispatch"
  /\ IF "EMERGENCY" \in got THEN End("abort", "release")
                            ELSE pc' = "guard" /\ UNCHANGED ending
  /\ got' = {}
  /\ UNCHANGED <<ctxVars, bits, sessVars, log, held, ranSingle, todo, taskVars,
                 iters>>

Dispatch ==
  /\ pc = "dispatch"
  /\ IF "EMERGENCY" \in got THEN End("abort", "release")
     ELSE IF "STOP" \in got THEN End("stop", "closeLog")
     ELSE pc' = "guard" /\ UNCHANGED ending
  /\ got' = {}
  /\ UNCHANGED <<ctxVars, bits, sessVars, log, held, ranSingle, todo, taskVars,
                 iters>>

(* Mutant of Guard: any event bit is taken for leave to run. *)
Guard_Dropped ==
  /\ At("guard", "mark")
  /\ UNCHANGED <<ctxVars, bits, sessVars, log, held, got, ending, ranSingle,
                 todo, taskVars, iters>>

Guard ==
  /\ pc = "guard"
  /\ pc' = IF ShouldContinue THEN "mark" ELSE "top"
  /\ UNCHANGED <<ctxVars, bits, sessVars, log, held, got, ending, ranSingle,
                 todo, taskVars, iters>>

Mark ==
  /\ At("mark", "limit")
  /\ ranSingle' = (state = "STEP")
  /\ iters' = IF state = "STEP" /\ iters < 2 THEN iters + 1 ELSE iters
  /\ UNCHANGED <<ctxVars, bits, sessVars, log, held, got, ending, todo,
                 taskVars>>

(* Mutant of CheckLimit: off by one. *)
CheckLimit_OneMore ==
  /\ pc = "limit"
  /\ IF actionCount > MaxActions
       THEN End("limit", "closeLog")
       ELSE pc' = "capture" /\ UNCHANGED ending
  /\ UNCHANGED <<ctxVars, bits, sessVars, log, held, got, ranSingle, todo,
                 taskVars, iters>>

CheckLimit ==
  /\ pc = "limit"
  /\ IF actionCount >= MaxActions
       THEN End("limit", "closeLog")
       ELSE pc' = "capture" /\ UNCHANGED ending
  /\ UNCHANGED <<ctxVars, bits, sessVars, log, held, got, ranSingle, todo,
                 taskVars, iters>>

(* Mutant of Fail: off by one. *)
Fail_OneMore ==
  /\ failCount' = failCount + 1
  /\ IF failCount' > FailLimit
       THEN End("abort", "release")
       ELSE pc' = "top" /\ UNCHANGED ending

(* A failed capture or query: the third in a row aborts the task. *)
Fail ==
  /\ failCount' = failCount + 1
  /\ IF failCount' >= FailLimit
       THEN End("abort", "release")
       ELSE pc' = "top" /\ UNCHANGED ending

(* uvc_capture_one_frame_sig returns a frame, or times out; a frame that   *)
(* shows nothing new may be skipped in wait mode (see StepVision).         *)
Capture ==
  /\ pc = "capture"
  /\ \/ pc' \in {"query", "top"} /\ UNCHANGED <<failCount, ending>>
     \/ Fail
  /\ UNCHANGED <<state, actionCount, goal, bits, sessVars, log, held, got,
                 ranSingle, todo, taskVars, iters>>

(* cloud_client_query: an answer with a batch of actions, or an error *)
Query ==
  /\ pc = "query"
  /\ \/ /\ failCount' = 0 /\ pc' = "exec"
        /\ todo' \in 0 .. MaxBatch
        /\ UNCHANGED ending
     \/ Fail /\ UNCHANGED todo
  /\ UNCHANGED <<state, actionCount, goal, bits, sessVars, log, held, got,
                 ranSingle, taskVars, iters>>

(* Mutant of Execute: the end of the batch is not noticed. *)
Execute_NoEnd ==
  /\ pc = "exec"
  /\ \/ todo = 0 /\ pc' = "count" /\ UNCHANGED <<held, todo>>
     \/ pc' = "holding" /\ held' = TRUE /\ todo' = todo - 1
  /\ UNCHANGED <<ctxVars, bits, sessVars, log, got, ending, ranSingle,
                 taskVars, iters>>

(* action_executor_execute_all: each action presses something and lets go  *)
(* of it again; nothing here looks at the state or at the event bits.      *)
Execute ==
  /\ pc = "exec"
  /\ IF todo = 0 THEN pc' = "count" /\ UNCHANGED <<held, todo>>
                 ELSE pc' = "holding" /\ held' = TRUE /\ todo' = todo - 1
  /\ UNCHANGED <<ctxVars, bits, sessVars, log, got, ending, ranSingle,
                 taskVars, iters>>

LetGo ==
  /\ At("holding", "exec")
  /\ held' = FALSE
  /\ UNCHANGED <<ctxVars, bits, sessVars, log, got, ending, ranSingle, todo,
                 taskVars, iters>>

Count ==
  /\ At("count", "turn")
  /\ actionCount' = actionCount + 1
  /\ UNCHANGED <<state, failCount, goal, bits, sessVars, log, held, got,
                 ending, ranSingle, todo, taskVars, iters>>

(* plan_mgr_save and agent_record_turn write to whatever session is        *)
(* current; then the task goes on, or the model said it was done.          *)
Turn ==
  /\ pc = "turn"
  /\ steps' = [steps EXCEPT ![curSession] = actionCount]
  /\ \/ pc' = "top" /\ UNCHANGED ending
     \/ End("done", "closeLog")
  /\ UNCHANGED <<ctxVars, bits, known, curSession, log, held, got, ranSingle,
                 todo, taskVars, iters>>

(* agent_abort_to_idle and its three shorter relatives (stop, action limit *)
(* and done) differ in the event bits they clear, and only the abort       *)
(* releases the HID.                                                       *)
AbortRelease ==
  /\ At("release", "closeLog")
  /\ held' = FALSE
  /\ UNCHANGED <<ctxVars, bits, sessVars, log, got, ending, ranSingle, todo,
                 taskVars, iters>>

CloseLog ==
  /\ At("closeLog", "clearBits")
  /\ log' = NoSession
  /\ UNCHANGED <<ctxVars, bits, sessVars, held, got, ending, ranSingle, todo,
                 taskVars, iters>>

Cleared(why) == CASE why = "abort" -> Bits
                  [] why = "done"  -> {}
                  [] OTHER         -> {"RUN", "STEP"}

ClearBits ==
  /\ At("clearBits", "setIdle")
  /\ bits' = bits \ Cleared(ending)
  /\ UNCHANGED <<ctxVars, sessVars, log, held, got, ending, ranSingle, todo,
                 taskVars, iters>>

SetIdle ==
  /\ At("setIdle", "top")
  /\ state' = "IDLE"
  /\ ending' = "none"
  /\ iters' = 0
  /\ UNCHANGED <<actionCount, failCount, goal, bits, sessVars, log, held, got,
                 ranSingle, todo, taskVars>>

Loop == \/ Top \/ Gate \/ WaitBits \/ GetBits \/ ClearStopBits \/ Dispatch
        \/ Guard \/ Mark \/ CheckLimit \/ Capture \/ Query \/ Execute \/ LetGo
        \/ Count \/ Turn \/ AbortRelease \/ CloseLog \/ ClearBits \/ SetIdle

Next == \/ Loop
        \/ \E t \in Control : Command(t) \/ Continue(t)

SafeSpec == Init /\ [][Next]_vars

(* The scheduler runs every ready task and every blocking call of the loop *)
(* has a timeout, so the loop and a command once begun go on; nobody has   *)
(* to issue commands.                                                      *)
Fairness == WF_vars(Loop) /\ \A t \in Control : WF_vars(Continue(t))

Spec == SafeSpec /\ Fairness

-----------------------------------------------------------------------------
TypeOK ==
  /\ state \in States /\ actionCount \in Nat /\ failCount \in Nat
  /\ goal \in Sessions \cup {NoSession}
  /\ bits \in SUBSET Bits
  /\ known \in SUBSET Sessions /\ curSession \in Sessions
  /\ steps \in [Sessions -> Nat]
  /\ log \in Sessions \cup {NoSession} /\ held \in BOOLEAN
  /\ pc \in LoopPcs /\ got \in SUBSET Bits
  /\ ending \in {"none", "abort", "stop", "limit", "done"}
  /\ ranSingle \in BOOLEAN /\ todo \in 0 .. MaxBatch
  /\ op \in [Control -> Ops]
  /\ arg \in [Control -> Sessions \cup {NoSession}]
  /\ iters \in 0 .. 2

(* IDLE means that nothing is under way: no iteration is in its body and   *)
(* nothing is held down on the target, whichever tasks issue commands.     *)
(* The session handlers and both start functions rely on it when they take *)
(* IDLE as leave to change the current session.                            *)
IdleIsQuiet == state = "IDLE" => pc \notin Body /\ ~held

(* No iteration is begun on a failure budget that is used up: the third    *)
(* failure in a row ends the task, and only a new start resets the count.  *)
FailBudget == pc \in Body => failCount < FailLimit

(* "Step once" runs at most one iteration before it falls back to PAUSED,  *)
(* whatever the iteration did and whatever was commanded meanwhile.        *)
OneIterationPerStep == iters <= 1

(* While an iteration is under way the goal in the context is the goal of  *)
(* the session whose plan and trajectory the managers are using.           *)
GoalMatchesSession == pc \in Body => goal = curSession

(* The model is only asked, and actions are only executed, within the      *)
(* action budget of the session.                                           *)
BudgetRespected ==
  pc \in {"capture", "query", "exec", "holding", "count"}
    => actionCount < MaxActions

(* What a session's meta.json says of its progress is never lost: each     *)
(* turn adds exactly one to it and nothing else changes it.                *)
StepsAdvance ==
  [][\A s \in known : steps'[s] = steps[s] \/ steps'[s] = steps[s] + 1]_vars

(* A stop or emergency bit is served, and the agent unwinds to IDLE, if it *)
(* is set at any point other than between GetBits and ClearBits.           *)
StopServed ==
  (pc # "clear" /\ bits \cap {"STOP", "EMERGENCY"} # {}) ~> (state = "IDLE")

(* A task that is running, or a single step that was asked for, is worked  *)
(* on: the loop does not stay blocked on its event bits.                   *)
WorkIsDone ==
  ShouldContinue ~> (pc \in Body \/ ~ShouldContinue)

(* A single step always comes back, to PAUSED or out of the task. *)
StepReturns == state = "STEP" ~> state # "STEP"

(* With two tasks giving commands, what they ask for still comes about: a  *)
(* stop or an emergency that the loop can see ends the task, and a single  *)
(* step comes to its end.                                                  *)
CommandsServed == StopServed /\ StepReturns

(* Every stop and every emergency unwinds to IDLE. *)
StopUnwinds == state \in {"STOPPING", "EMERGENCY"} ~> state = "IDLE"

(* With one control task the state machine keeps AgentPromise. *)
Promise == INSTANCE AgentPromise
             WITH phase <- state, working <- pc \in Body, task <- goal,
                  turns <- steps

KeepsPromise == Promise!Spec
=============================================================================
