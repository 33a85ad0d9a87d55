------------------------ MODULE AgentControl_proofs ------------------------
(***************************************************************************)
(* Theorems about AgentControl, for every set of control tasks and         *)
(* sessions and every bound.  The first part holds whoever issues          *)
(* commands; the second part assumes that a single control task does.      *)
(***************************************************************************)
EXTENDS AgentControl, TLAPS

(* Types are preserved by what the control tasks do... *)
LEMMA CommandType ==
  ASSUME TypeOK, NEW t \in Control, Command(t) \/ Continue(t)
  PROVE  TypeOK'
<1> USE DEF TypeOK, ctxVars, sessVars, loopVars, taskVars, Go, Ops, States,
            Bits, SetState, Signal
<1>1. CASE Command(t)
  <2>1. CASE StartNew(t) BY <2>1 DEF StartNew
  <2>2. CASE StartOld(t) BY <2>2 DEF StartOld
  <2>3. CASE Pause(t) BY <2>3 DEF Pause
  <2>4. CASE Resume(t) BY <2>4 DEF Resume
  <2>5. CASE StepOnce(t) BY <2>5 DEF StepOnce
  <2>6. CASE Stop(t) BY <2>6 DEF Stop
  <2>7. CASE Emergency(t) BY <2>7 DEF Emergency
  <2>8. CASE PauseButton(t) BY <2>8 DEF PauseButton
  <2>9. QED
    BY <1>1, <2>1, <2>2, <2>3, <2>4, <2>5, <2>6, <2>7, <2>8 DEF Command
<1>2. CASE Continue(t)
  <2>1. CASE CreateSession(t) BY <2>1 DEF CreateSession
  <2>2. CASE LoadSession(t) BY <2>2 DEF LoadSession
  <2>3. CASE BeginNew(t) BY <2>3 DEF BeginNew
  <2>4. CASE BeginOld(t) BY <2>4 DEF BeginOld
  <2>5. CASE OpenLog(t) BY <2>5 DEF OpenLog
  <2>6. CASE SendRun(t) BY <2>6 DEF SendRun
  <2>7. CASE ClearRun(t) BY <2>7 DEF ClearRun
  <2>8. CASE SendStep(t) BY <2>8 DEF SendStep
  <2>9. CASE SendStop(t) BY <2>9 DEF SendStop
  <2>10. CASE SendEmergency(t) BY <2>10 DEF SendEmergency
  <2>11. CASE ReleaseHid(t) BY <2>11 DEF ReleaseHid
  <2>12. CASE ToggleRefused(t) BY <2>12 DEF ToggleRefused
  <2>13. QED
    BY <1>2, <2>1, <2>2, <2>3, <2>4, <2>5, <2>6, <2>7, <2>8, <2>9, <2>10,
       <2>11, <2>12 DEF Continue
<1>3. QED
  BY <1>1, <1>2

(* ... and by the main loop. *)
LEMMA LoopType == ASSUME TypeOK, Loop PROVE TypeOK'
<1> USE AgentAssumption
    DEF TypeOK, ctxVars, sessVars, loopVars, taskVars, At, End, States, Bits,
        LoopPcs, Body, Closing
<1>1. CASE Top
  <2>1. state' \in States BY <1>1 DEF Top
  <2>2. iters' \in 0 .. 2 BY <1>1 DEF Top
  <2>3. QED BY <1>1, <2>1, <2>2 DEF Top
<1>2. CASE Gate BY <1>2 DEF Gate
<1>3. CASE WaitBits BY <1>3 DEF WaitBits
<1>4. CASE GetBits BY <1>4 DEF GetBits
<1>5. CASE ClearStopBits BY <1>5 DEF ClearStopBits
<1>6. CASE Dispatch BY <1>6 DEF Dispatch
<1>7. CASE Guard BY <1>7 DEF Guard
<1>8. CASE Mark BY <1>8 DEF Mark
<1>9. CASE CheckLimit BY <1>9 DEF CheckLimit
<1>10. CASE Capture BY <1>10 DEF Capture, Fail
<1>11. CASE Query BY <1>11 DEF Query, Fail
<1>12. CASE Execute
  <2>1. todo' \in 0 .. MaxBatch BY <1>12 DEF Execute
  <2>2. pc' \in LoopPcs /\ held' \in BOOLEAN BY <1>12 DEF Execute
  <2>3. UNCHANGED <<ctxVars, bits, sessVars, log, got, ending, ranSingle,
                    taskVars, iters>>
    BY <1>12 DEF Execute
  <2>4. QED BY <2>1, <2>2, <2>3
<1>13. CASE LetGo BY <1>13 DEF LetGo
<1>14. CASE Count BY <1>14 DEF Count
<1>15. CASE Turn BY <1>15 DEF Turn
<1>16. CASE AbortRelease BY <1>16 DEF AbortRelease
<1>17. CASE CloseLog BY <1>17 DEF CloseLog
<1>18. CASE ClearBits BY <1>18 DEF ClearBits, Cleared
<1>19. CASE SetIdle BY <1>19 DEF SetIdle
<1>20. QED
  BY <1>1, <1>2, <1>3, <1>4, <1>5, <1>6, <1>7, <1>8, <1>9, <1>10, <1>11,
     <1>12, <1>13, <1>14, <1>15, <1>16, <1>17, <1>18, <1>19 DEF Loop

LEMMA InitType == ASSUME Init PROVE TypeOK
<1>1. /\ op \in [Control -> Ops]
      /\ arg \in [Control -> Sessions \cup {NoSession}]
  BY DEF Init, Ops
<1>2. steps \in [Sessions -> Nat]
  <2>1. steps \in [Sessions -> 0 .. MaxActions] BY DEF Init
  <2>2. 0 .. MaxActions \subseteq Nat BY AgentAssumption
  <2>3. QED BY <2>1, <2>2
<1>3. todo \in 0 .. MaxBatch
  BY AgentAssumption DEF Init
<1>4. known \in SUBSET Sessions /\ curSession \in Sessions
  BY DEF Init
<1>5. pc \in LoopPcs
  BY DEF Init, LoopPcs
<1>6. /\ state \in States /\ held \in BOOLEAN /\ ranSingle \in BOOLEAN
      /\ bits \in SUBSET Bits /\ got \in SUBSET Bits
  BY DEF Init, States
<1>7. actionCount \in Nat /\ failCount \in Nat /\ iters \in 0 .. 2
  BY DEF Init
<1>8. QED
  BY <1>1, <1>2, <1>3, <1>4, <1>5, <1>6, <1>7 DEF Init, TypeOK

LEMMA NextType == ASSUME TypeOK, [Next]_vars PROVE TypeOK'
<1>1. CASE Loop BY <1>1, LoopType
<1>2. CASE \E t \in Control : Command(t) \/ Continue(t)
  BY <1>2, CommandType
<1>3. CASE UNCHANGED vars
  BY <1>3 DEF TypeOK, vars, ctxVars, sessVars, loopVars, taskVars
<1>4. QED
  BY <1>1, <1>2, <1>3 DEF Next

(* Every variable keeps its type, whatever the control tasks do. *)
THEOREM TypeCorrect == SafeSpec => []TypeOK
<1>1. Init => TypeOK
  BY InitType
<1>2. TypeOK /\ [Next]_vars => TypeOK'
  BY NextType
<1>3. QED
  BY <1>1, <1>2, PTL DEF SafeSpec

-----------------------------------------------------------------------------
(* What a command can do to the state machine and to the main loop: the    *)
(* table of allowed transitions, with what each does to the counters.      *)
Transition ==
  \/ UNCHANGED <<state, failCount, iters>>
  \/ state' = "RUNNING" /\ failCount' = 0 /\ iters' = iters
  \/ state' \in {"STOPPING", "EMERGENCY"} /\ UNCHANGED <<failCount, iters>>
  \/ state = "RUNNING" /\ state' = "PAUSED" /\ UNCHANGED <<failCount, iters>>
  \/ state = "PAUSED" /\ state' = "RUNNING" /\ UNCHANGED <<failCount, iters>>
  \/ state = "PAUSED" /\ state' = "STEP" /\ failCount' = failCount /\ iters' = 0

LEMMA CommandEffect ==
  ASSUME NEW t \in Control, Command(t) \/ Continue(t)
  PROVE  /\ Transition
         /\ UNCHANGED loopVars
         /\ held' = held \/ held' = FALSE
<1> USE DEF Transition, ctxVars, sessVars, taskVars, SetState, Signal
<1>1. CASE Command(t)
  BY <1>1 DEF Command, StartNew, StartOld, Pause, Resume, StepOnce, Stop,
              Emergency, PauseButton
<1>2. CASE Continue(t)
  BY <1>2 DEF Continue, CreateSession, LoadSession, BeginNew, BeginOld,
              OpenLog, SendRun, ClearRun, SendStep, SendStop, SendEmergency,
              ReleaseHid, ToggleRefused
<1>3. QED
  BY <1>1, <1>2

(* Work is never under way in IDLE, and only the execution of an action    *)
(* holds anything down.                                                    *)
QuietInv == /\ pc \in Body => state # "IDLE"
            /\ held => pc = "holding"

(* The budget is used up only on the way out of a task, or out of one.     *)
FailInv == /\ pc \in Body => failCount < FailLimit
           /\ failCount >= FailLimit
                => state \in {"IDLE", "STOPPING", "EMERGENCY"} \/ pc \in Closing

(* A single step that has run its iteration carries the flag that makes    *)
(* the top of the loop consume it.                                         *)
IterInv == /\ iters <= 1
           /\ iters = 1 /\ state = "STEP"
                => /\ ranSingle
                   /\ pc \in {"top"} \cup (Body \ {"mark"}) \cup Closing

LEMMA NextQuiet == ASSUME TypeOK, QuietInv, [Next]_vars PROVE QuietInv'
<1>1. CASE Loop
  BY <1>1 DEF Loop, QuietInv, TypeOK, Body, Closing, At, End, ShouldContinue,
     Fail, Top, Gate, WaitBits, GetBits, ClearStopBits, Dispatch, Guard, Mark,
     CheckLimit, Capture, Query, Execute, LetGo, Count, Turn, AbortRelease,
     CloseLog, ClearBits, SetIdle, ctxVars
<1>2. CASE \E t \in Control : Command(t) \/ Continue(t)
  BY <1>2, CommandEffect DEF QuietInv, Transition, loopVars
<1>3. CASE UNCHANGED vars
  BY <1>3 DEF QuietInv, vars, ctxVars, loopVars
<1>4. QED
  BY <1>1, <1>2, <1>3 DEF Next

(* IDLE means that nothing is under way: no iteration in its body, nothing *)
(* held down on the target.  The handlers that change the current session  *)
(* take IDLE as leave to do so.                                            *)
THEOREM Quiet == SafeSpec => []IdleIsQuiet
<1>1. Init => QuietInv
  BY DEF Init, QuietInv, Body
<1>2. TypeOK /\ QuietInv /\ [Next]_vars => QuietInv'
  BY NextQuiet
<1>3. QuietInv => IdleIsQuiet
  BY DEF QuietInv, IdleIsQuiet, Body
<1>4. QED
  BY <1>1, <1>2, <1>3, TypeCorrect, PTL DEF SafeSpec

(* No iteration is begun on a failure budget that is used up. *)
THEOREM Budget == SafeSpec => []FailBudget
<1>1. Init => FailInv
  BY DEF Init, FailInv, FailLimit, Body
<1>2. TypeOK /\ FailInv /\ [Next]_vars => FailInv'
  <2> SUFFICES ASSUME TypeOK, FailInv, [Next]_vars PROVE FailInv'
    OBVIOUS
  <2>1. CASE Loop
    <3> USE DEF FailInv, FailLimit, Body, Closing, At, End, ctxVars, TypeOK
    <3>1. CASE Top BY <3>1 DEF Top
    <3>2. CASE Gate \/ WaitBits \/ GetBits \/ ClearStopBits
      BY <3>2 DEF Gate, WaitBits, GetBits, ClearStopBits
    <3>3. CASE Dispatch BY <3>3 DEF Dispatch
    <3>4. CASE Guard BY <3>4 DEF Guard, ShouldContinue
    <3>5. CASE Mark \/ CheckLimit BY <3>5 DEF Mark, CheckLimit
    <3>6. CASE Capture BY <3>6 DEF Capture, Fail
    <3>7. CASE Query BY <3>7 DEF Query, Fail
    <3>8. CASE Execute \/ LetGo \/ Count \/ Turn
      BY <3>8 DEF Execute, LetGo, Count, Turn
    <3>9. CASE AbortRelease \/ CloseLog \/ ClearBits \/ SetIdle
      BY <3>9 DEF AbortRelease, CloseLog, ClearBits, SetIdle
    <3>10. QED
      BY <2>1, <3>1, <3>2, <3>3, <3>4, <3>5, <3>6, <3>7, <3>8, <3>9 DEF Loop
  <2>2. CASE \E t \in Control : Command(t) \/ Continue(t)
    <3>1. Transition /\ pc' = pc BY <2>2, CommandEffect DEF loopVars
    <3>2. QED BY <3>1 DEF FailInv, Transition, FailLimit, TypeOK
  <2>3. CASE UNCHANGED vars
    BY <2>3 DEF FailInv, vars, ctxVars, loopVars
  <2>4. QED
    BY <2>1, <2>2, <2>3 DEF Next
<1>3. FailInv => FailBudget
  BY DEF FailInv, FailBudget
<1>4. QED
  BY <1>1, <1>2, <1>3, TypeCorrect, PTL DEF SafeSpec

(* "Step once" runs at most one iteration before it falls back to PAUSED. *)
THEOREM SingleStep == SafeSpec => []OneIterationPerStep
<1>1. Init => IterInv
  BY DEF Init, IterInv
<1>2. TypeOK /\ IterInv /\ [Next]_vars => IterInv'
  <2> SUFFICES ASSUME TypeOK, IterInv, [Next]_vars PROVE IterInv'
    OBVIOUS
  <2>1. CASE Loop
    <3> USE DEF IterInv, Body, Closing, At, End, ctxVars, TypeOK
    <3>1. CASE Top BY <3>1 DEF Top
    <3>2. CASE Gate \/ WaitBits \/ GetBits \/ ClearStopBits
      BY <3>2 DEF Gate, WaitBits, GetBits, ClearStopBits
    <3>3. CASE Dispatch \/ Guard BY <3>3 DEF Dispatch, Guard
    <3>4. CASE Mark
      <4>1. iters' <= 1 BY <3>4 DEF Mark
      <4>2. state' = "STEP" => ranSingle' BY <3>4 DEF Mark
      <4>3. pc' = "limit" BY <3>4 DEF Mark
      <4>4. QED BY <4>1, <4>2, <4>3
    <3>5. CASE CheckLimit BY <3>5 DEF CheckLimit
    <3>6. CASE Capture BY <3>6 DEF Capture, Fail
    <3>7. CASE Query BY <3>7 DEF Query, Fail
    <3>8. CASE Execute \/ LetGo \/ Count \/ Turn
      BY <3>8 DEF Execute, LetGo, Count, Turn
    <3>9. CASE AbortRelease \/ CloseLog \/ ClearBits \/ SetIdle
      BY <3>9 DEF AbortRelease, CloseLog, ClearBits, SetIdle
    <3>10. QED
      BY <2>1, <3>1, <3>2, <3>3, <3>4, <3>5, <3>6, <3>7, <3>8, <3>9 DEF Loop
  <2>2. CASE \E t \in Control : Command(t) \/ Continue(t)
    <3>1. Transition /\ pc' = pc /\ ranSingle' = ranSingle
      BY <2>2, CommandEffect DEF loopVars
    <3>2. iters' <= 1 BY <3>1 DEF IterInv, Transition
    <3>3. iters' = 1 /\ state' = "STEP" => iters = 1 /\ state = "STEP"
      BY <3>1 DEF Transition
    <3>4. QED BY <3>1, <3>2, <3>3 DEF IterInv
  <2>3. CASE UNCHANGED vars
    BY <2>3 DEF IterInv, vars, ctxVars, loopVars
  <2>4. QED
    BY <2>1, <2>2, <2>3 DEF Next
<1>3. IterInv => OneIterationPerStep
  BY DEF IterInv, OneIterationPerStep
<1>4. QED
  BY <1>1, <1>2, <1>3, TypeCorrect, PTL DEF SafeSpec
-----------------------------------------------------------------------------
(***************************************************************************)
(* With a single control task: the session cannot be swapped under a       *)
(* running task, the action budget holds, the recorded progress only       *)
(* advances, and the machine implements AgentPromise.  With two control    *)
(* tasks the first of these fails (README, section 6).                     *)
(***************************************************************************)
(* At most one task issues commands: the web page alone, or the buttons.   *)
SoleController == \A t, u \in Control : t = u

(* The task is in progress: its goal, plan and counters are in use. *)
Engaged == state \in {"RUNNING", "PAUSED", "STEP"} \/ pc \in Body

(* A command that is about to change the session, or to begin a task, runs *)
(* in IDLE: the check made at its beginning still holds.                   *)
StartInv == \A t \in Control :
  /\ op[t] \in {"create", "load", "select", "beginNew", "beginOld"}
       => state = "IDLE"
  /\ op[t] = "beginNew" => arg[t] = curSession /\ steps[curSession] = 0

(* While a task is in progress the context and the session agree. *)
SyncInv == Engaged =>
  /\ goal = curSession
  /\ actionCount = steps[curSession] + (IF pc = "turn" THEN 1 ELSE 0)

(* Sessions that are not on the card have no steps; the current one is. *)
CardInv == /\ curSession \in known
           /\ \A s \in Sessions \ known : steps[s] = 0

LimitInv == /\ BudgetRespected
            /\ pc = "turn" => actionCount <= MaxActions

SoleInv == TypeOK /\ QuietInv /\ StartInv /\ SyncInv /\ CardInv /\ LimitInv

-----------------------------------------------------------------------------
LEMMA SoleInit == Init => SoleInv
<1> SUFFICES ASSUME Init PROVE SoleInv
  OBVIOUS
<1>1. TypeOK BY InitType
<1>2. QuietInv BY DEF Init, QuietInv, Body
<1>3. StartInv BY DEF Init, StartInv
<1>4. SyncInv BY DEF Init, SyncInv, Engaged, Body
<1>5. CardInv BY DEF Init, CardInv
<1>6. LimitInv BY DEF Init, LimitInv, BudgetRespected
<1>7. QED
  BY <1>1, <1>2, <1>3, <1>4, <1>5, <1>6 DEF SoleInv

(* The main loop keeps the invariant, whoever issues commands. *)
LEMMA LoopStart == ASSUME SoleInv, Loop PROVE StartInv'
<1> USE DEF SoleInv, StartInv, QuietInv, Body, Loop, At, ctxVars, sessVars, taskVars
<1>1. UNCHANGED <<op, arg, curSession>>
  BY DEF Top, Gate, WaitBits, GetBits, ClearStopBits, Dispatch, Guard, Mark,
     CheckLimit, Capture, Query, Execute, LetGo, Count, Turn, AbortRelease,
     CloseLog, ClearBits, SetIdle
<1>2. state = "IDLE" => state' = "IDLE" /\ steps' = steps
  BY DEF Top, Gate, WaitBits, GetBits, ClearStopBits, Dispatch, Guard, Mark,
     CheckLimit, Capture, Query, Execute, LetGo, Count, Turn, AbortRelease,
     CloseLog, ClearBits, SetIdle
<1>3. QED
  BY <1>1, <1>2

LEMMA LoopSync ==
  ASSUME SoleInv, Loop
  PROVE  SyncInv' /\ CardInv' /\ LimitInv'
<1> USE DEF SoleInv, SyncInv, CardInv, LimitInv, BudgetRespected, Engaged,
            TypeOK, Body, Closing, At, End, ctxVars, sessVars
<1>1. CASE Top BY <1>1 DEF Top
<1>2. CASE Gate BY <1>2 DEF Gate
<1>3. CASE WaitBits \/ GetBits \/ ClearStopBits
  BY <1>3 DEF WaitBits, GetBits, ClearStopBits
<1>4. CASE Dispatch BY <1>4 DEF Dispatch
<1>5. CASE Guard BY <1>5 DEF Guard, ShouldContinue
<1>6. CASE Mark BY <1>6 DEF Mark
<1>7. CASE CheckLimit BY <1>7, AgentAssumption DEF CheckLimit
<1>8. CASE Capture BY <1>8 DEF Capture, Fail
<1>9. CASE Query BY <1>9 DEF Query, Fail
<1>10. CASE Execute \/ LetGo BY <1>10 DEF Execute, LetGo
<1>11. CASE Count BY <1>11, AgentAssumption DEF Count
<1>12. CASE Turn BY <1>12 DEF Turn
<1>13. CASE AbortRelease \/ CloseLog \/ ClearBits
  BY <1>13 DEF AbortRelease, CloseLog, ClearBits
<1>14. CASE SetIdle BY <1>14 DEF SetIdle
<1>15. QED
  BY <1>1, <1>2, <1>3, <1>4, <1>5, <1>6, <1>7, <1>8, <1>9, <1>10, <1>11,
     <1>12, <1>13, <1>14 DEF Loop

(* A command of the only controller keeps it too: nobody else can move the *)
(* state out of IDLE between the check and the start.                      *)
LEMMA CommandStart ==
  ASSUME SoleController, SoleInv, NEW t \in Control, Command(t) \/ Continue(t)
  PROVE  StartInv'
<1>1. ASSUME NEW u \in Control PROVE u = t
  BY DEF SoleController
<1> USE <1>1 DEF SoleInv, StartInv, TypeOK, Go, ctxVars, sessVars, SetState,
                 Signal, Decided
<1>2. CASE Command(t)
  <2>1. CASE StartNew(t) BY <2>1 DEF StartNew
  <2>2. CASE StartOld(t) BY <2>2 DEF StartOld
  <2>3. CASE Pause(t) BY <2>3 DEF Pause
  <2>4. CASE Resume(t) BY <2>4 DEF Resume
  <2>5. CASE StepOnce(t) BY <2>5 DEF StepOnce
  <2>6. CASE Stop(t) BY <2>6 DEF Stop
  <2>7. CASE Emergency(t) BY <2>7 DEF Emergency
  <2>8. CASE PauseButton(t) BY <2>8 DEF PauseButton
  <2>9. QED
    BY <1>2, <2>1, <2>2, <2>3, <2>4, <2>5, <2>6, <2>7, <2>8 DEF Command
<1>3. CASE Continue(t)
  <2>1. CASE CreateSession(t) BY <2>1 DEF CreateSession
  <2>2. CASE LoadSession(t) BY <2>2 DEF LoadSession
  <2>3. CASE BeginNew(t) BY <2>3 DEF BeginNew
  <2>4. CASE BeginOld(t) BY <2>4 DEF BeginOld
  <2>5. CASE OpenLog(t) BY <2>5 DEF OpenLog
  <2>6. CASE \/ SendRun(t) \/ ClearRun(t) \/ SendStep(t) \/ SendStop(t)
             \/ SendEmergency(t)
    BY <2>6 DEF SendRun, ClearRun, SendStep, SendStop, SendEmergency
  <2>7. CASE ReleaseHid(t) BY <2>7 DEF ReleaseHid
  <2>8. CASE ToggleRefused(t) BY <2>8 DEF ToggleRefused
  <2>9. QED
    BY <1>3, <2>1, <2>2, <2>3, <2>4, <2>5, <2>6, <2>7, <2>8 DEF Continue
<1>4. QED
  BY <1>2, <1>3

LEMMA CommandSync ==
  ASSUME SoleInv, NEW t \in Control, Command(t) \/ Continue(t)
  PROVE  SyncInv' /\ CardInv' /\ LimitInv'
<1> USE DEF SoleInv, QuietInv, StartInv, SyncInv, CardInv, LimitInv,
            BudgetRespected, Engaged, TypeOK, Body, ctxVars, sessVars,
            loopVars, SetState, Signal
<1>1. CASE Command(t)
  BY <1>1 DEF Command, StartNew, StartOld, Pause, Resume, StepOnce, Stop,
              Emergency, PauseButton
<1>2. CASE CreateSession(t)
  BY <1>2 DEF CreateSession
<1>3. CASE LoadSession(t)
  BY <1>3 DEF LoadSession
<1>4. CASE BeginNew(t)
  BY <1>4 DEF BeginNew
<1>5. CASE BeginOld(t)
  BY <1>5 DEF BeginOld
<1>6. CASE \/ OpenLog(t) \/ SendRun(t) \/ ClearRun(t) \/ SendStep(t)
           \/ SendStop(t) \/ SendEmergency(t) \/ ReleaseHid(t)
           \/ ToggleRefused(t)
  BY <1>6 DEF OpenLog, SendRun, ClearRun, SendStep, SendStop, SendEmergency,
              ReleaseHid, ToggleRefused
<1>7. QED
  BY <1>1, <1>2, <1>3, <1>4, <1>5, <1>6 DEF Continue

LEMMA SoleStep ==
  ASSUME SoleController, SoleInv, [Next]_vars
  PROVE  SoleInv'
<1>1. TypeOK' BY NextType DEF SoleInv
<1>2. QuietInv' BY NextQuiet DEF SoleInv
<1>3. CASE Loop
  BY <1>1, <1>2, <1>3, LoopStart, LoopSync DEF SoleInv
<1>4. CASE \E t \in Control : Command(t) \/ Continue(t)
  BY <1>1, <1>2, <1>4, CommandStart, CommandSync DEF SoleInv
<1>5. CASE UNCHANGED vars
  BY <1>1, <1>2, <1>5
     DEF SoleInv, StartInv, SyncInv, CardInv, LimitInv, BudgetRespected,
         Engaged, vars, ctxVars, sessVars, loopVars, taskVars
<1>6. QED
  BY <1>3, <1>4, <1>5 DEF Next

THEOREM SoleCorrect == ASSUME SoleController PROVE SafeSpec => []SoleInv
<1>1. SoleInv /\ [Next]_vars => SoleInv'
  BY SoleStep
<1>2. QED
  BY <1>1, SoleInit, PTL DEF SafeSpec

(* While an iteration is under way the goal is that of the session in use. *)
THEOREM SoleGoal ==
  ASSUME SoleController PROVE SafeSpec => []GoalMatchesSession
<1>1. SoleInv => GoalMatchesSession
  BY DEF SoleInv, SyncInv, Engaged, GoalMatchesSession
<1>2. QED
  BY <1>1, SoleCorrect, PTL

(* The model is asked and obeyed only within the session's action budget.  *)
THEOREM SoleBudget ==
  ASSUME SoleController PROVE SafeSpec => []BudgetRespected
<1>1. SoleInv => BudgetRespected
  BY DEF SoleInv, LimitInv
<1>2. QED
  BY <1>1, SoleCorrect, PTL

(* The recorded steps of a session only ever grow, one turn at a time. *)
THEOREM SoleProgress == ASSUME SoleController PROVE SafeSpec => StepsAdvance
<1> DEFINE Advance ==
      \A s \in known : steps'[s] = steps[s] \/ steps'[s] = steps[s] + 1
<1>1. SoleInv /\ [Next]_vars => [Advance]_vars
  <2> SUFFICES ASSUME SoleInv, Next PROVE Advance
    BY DEF SoleInv
  <2>1. CASE Loop
    BY <2>1 DEF SoleInv, SyncInv, Engaged, Body, TypeOK, Loop, At, sessVars,
       Top, Gate, WaitBits, GetBits, ClearStopBits, Dispatch, Guard, Mark,
       CheckLimit, Capture, Query, Execute, LetGo, Count, Turn, AbortRelease,
       CloseLog, ClearBits, SetIdle
  <2>2. CASE \E t \in Control : Command(t) \/ Continue(t)
    <3>1. PICK t \in Control : Command(t) \/ Continue(t) BY <2>2
    <3>2. CASE CreateSession(t)
      BY <3>2 DEF CreateSession, SoleInv, TypeOK, sessVars
    <3>3. CASE ~CreateSession(t)
      BY <3>1, <3>3
         DEF Command, Continue, StartNew, StartOld, Pause, Resume, StepOnce,
             Stop, Emergency, PauseButton, LoadSession, BeginNew, BeginOld,
             OpenLog, SendRun, ClearRun, SendStep, SendStop, SendEmergency,
             ReleaseHid, ToggleRefused, SetState, Signal, sessVars
    <3>4. QED BY <3>2, <3>3
  <2>3. QED
    BY <2>1, <2>2 DEF Next
<1>2. QED
  BY <1>1, SoleCorrect, PTL DEF SafeSpec, StepsAdvance

-----------------------------------------------------------------------------
(* The refinement.  A start of either kind is Start; the guard that lets   *)
(* the loop into an iteration is BeginStep; leaving the body early is      *)
(* GiveUp and leaving it with the turn on the card is RecordTurn.          *)

LEMMA PromiseInit == ASSUME Init PROVE Promise!Init
<1>1. steps \in [Sessions -> 0 .. MaxActions]
  BY DEF Init
<1>2. (pc \in Body) = FALSE
  BY DEF Init, Body
<1>3. QED
  BY <1>1, <1>2 DEF Init, Promise!Init

(* The main loop works, gives up, records a turn, ends a single step or    *)
(* unwinds; everything else it does is invisible to the operator.          *)
LEMMA LoopPromise ==
  ASSUME SoleInv, Loop
  PROVE  [Promise!Next]_(Promise!vars)
<1> DEFINE working == pc \in Body
<1> USE DEF Promise!vars, Promise!Next, Body, Closing, At, End, ctxVars, sessVars
<1>1. CASE Top
  <2>1. ~working /\ ~working' /\ UNCHANGED <<goal, steps>>
    BY <1>1 DEF Top
  <2>2. CASE state' = state
    BY <2>1, <2>2
  <2>3. CASE state = "STEP" /\ state' = "PAUSED"
    BY <2>1, <2>3 DEF Promise!EndSingleStep, Promise!Move
  <2>4. QED
    BY <1>1, <2>2, <2>3 DEF Top
<1>2. CASE \/ Gate \/ WaitBits \/ GetBits \/ ClearStopBits \/ Dispatch
           \/ AbortRelease \/ CloseLog \/ ClearBits
  <2>1. ~working /\ ~working' /\ UNCHANGED <<state, goal, steps>>
    BY <1>2 DEF Gate, WaitBits, GetBits, ClearStopBits, Dispatch,
                AbortRelease, CloseLog, ClearBits
  <2>2. QED BY <2>1
<1>3. CASE Guard
  <2>1. ~working /\ UNCHANGED <<state, goal, steps>>
    BY <1>3 DEF Guard
  <2>2. CASE ShouldContinue
    <3>1. working' /\ state \in {"RUNNING", "STEP"}
      BY <1>3, <2>2 DEF Guard, ShouldContinue
    <3>2. Promise!BeginStep
      BY <2>1, <3>1 DEF Promise!BeginStep
    <3>3. QED BY <3>2
  <2>3. CASE ~ShouldContinue
    <3>1. ~working' BY <1>3, <2>3 DEF Guard
    <3>2. QED BY <2>1, <3>1
  <2>4. QED BY <2>2, <2>3
<1>4. CASE \/ Mark \/ CheckLimit \/ Capture \/ Query \/ Execute \/ LetGo
           \/ Count
  <2>1. working /\ UNCHANGED <<state, goal, steps>>
    BY <1>4 DEF Mark, CheckLimit, Capture, Query, Fail, Execute, LetGo, Count
  <2>2. CASE working' BY <2>1, <2>2
  <2>3. CASE ~working'
    <3>1. Promise!GiveUp BY <2>1, <2>3 DEF Promise!GiveUp
    <3>2. QED BY <3>1
  <2>4. QED BY <2>2, <2>3
<1>5. CASE Turn
  <2>1. working /\ ~working' /\ UNCHANGED <<state, goal>>
    BY <1>5 DEF Turn
  <2>2. /\ goal = curSession
        /\ actionCount = steps[curSession] + 1
        /\ actionCount <= MaxActions
        /\ steps \in [Sessions -> Nat] /\ curSession \in Sessions
    BY <1>5 DEF Turn, SoleInv, SyncInv, LimitInv, Engaged, TypeOK
  <2>3. steps[goal] < MaxActions
    BY <2>2, AgentAssumption
  <2>4. steps' = [steps EXCEPT ![goal] = @ + 1]
    BY <1>5, <2>2 DEF Turn
  <2>5. Promise!RecordTurn
    BY <2>1, <2>3, <2>4 DEF Promise!RecordTurn
  <2>6. QED BY <2>5
<1>6. CASE SetIdle
  <2>1. /\ ~working /\ ~working' /\ state' = "IDLE"
        /\ UNCHANGED <<goal, steps>> /\ state \in Promise!Phases
    BY <1>6 DEF SetIdle, SoleInv, TypeOK, States, Promise!Phases
  <2>2. Promise!Unwind
    BY <2>1 DEF Promise!Unwind, Promise!Move
  <2>3. QED BY <2>2
<1>7. QED
  BY <1>1, <1>2, <1>3, <1>4, <1>5, <1>6 DEF Loop

LEMMA CommandPromise ==
  ASSUME SoleInv, NEW t \in Control, Command(t) \/ Continue(t)
  PROVE  [Promise!Next]_(Promise!vars)
<1> USE DEF Promise!vars, Promise!Next
<1>1. (pc \in Body)' = (pc \in Body)
  BY CommandEffect DEF loopVars, Body
<1>2. state \in Promise!Phases
  BY DEF SoleInv, TypeOK, States, Promise!Phases
<1>3. CASE Pause(t)
  BY <1>1, <1>3 DEF Pause, SetState, sessVars, Promise!Pause, Promise!Move
<1>4. CASE Resume(t)
  BY <1>1, <1>4 DEF Resume, SetState, sessVars, Promise!Resume, Promise!Move
<1>5. CASE StepOnce(t)
  BY <1>1, <1>5 DEF StepOnce, SetState, sessVars, Promise!StepOnce, Promise!Move
<1>6. CASE Stop(t)
  BY <1>1, <1>2, <1>6 DEF Stop, SetState, sessVars, Promise!Stop, Promise!Move
<1>7. CASE Emergency(t)
  BY <1>1, <1>2, <1>7
     DEF Emergency, SetState, sessVars, Promise!Emergency, Promise!Move
<1>8. CASE BeginNew(t) \/ BeginOld(t)
  <2>1. state = "IDLE" /\ ~(pc \in Body) /\ curSession \in Sessions
    BY <1>8 DEF BeginNew, BeginOld, SoleInv, StartInv, QuietInv, TypeOK
  <2>2. state' = "RUNNING" /\ goal' = curSession /\ steps' = steps
    BY <1>8 DEF BeginNew, BeginOld, SoleInv, StartInv, sessVars
  <2>3. Promise!Start(curSession)
    BY <1>1, <2>1, <2>2 DEF Promise!Start
  <2>4. QED BY <2>1, <2>3
<1>9. CASE CreateSession(t)
  <2>1. UNCHANGED <<state, goal>>
    BY <1>9 DEF CreateSession, ctxVars
  <2>2. steps' = steps
    BY <1>9 DEF CreateSession, SoleInv, CardInv, TypeOK, sessVars
  <2>3. QED BY <1>1, <2>1, <2>2
<1>10. CASE \/ StartNew(t) \/ StartOld(t) \/ PauseButton(t) \/ LoadSession(t)
            \/ OpenLog(t) \/ SendRun(t) \/ ClearRun(t) \/ SendStep(t)
            \/ SendStop(t) \/ SendEmergency(t) \/ ReleaseHid(t)
            \/ ToggleRefused(t)
  <2>1. UNCHANGED <<state, goal, steps>>
    BY <1>10 DEF StartNew, StartOld, PauseButton, LoadSession, OpenLog,
                 SendRun, ClearRun, SendStep, SendStop, SendEmergency,
                 ReleaseHid, ToggleRefused, Signal, ctxVars, sessVars
  <2>2. QED BY <1>1, <2>1
<1>11. QED
  BY <1>3, <1>4, <1>5, <1>6, <1>7, <1>8, <1>9, <1>10 DEF Command, Continue

(* With one control task the agent keeps the safety part of AgentPromise.  *)
THEOREM SoleRefines == ASSUME SoleController PROVE SafeSpec => Promise!SafeSpec
<1>1. SoleInv /\ [Next]_vars => [Promise!Next]_(Promise!vars)
  <2> SUFFICES ASSUME SoleInv, [Next]_vars
               PROVE  [Promise!Next]_(Promise!vars)
    OBVIOUS
  <2>1. CASE Loop BY <2>1, LoopPromise
  <2>2. CASE \E t \in Control : Command(t) \/ Continue(t)
    BY <2>2, CommandPromise
  <2>3. CASE UNCHANGED vars
    BY <2>3 DEF vars, ctxVars, sessVars, loopVars, Promise!vars, Body
  <2>4. QED BY <2>1, <2>2, <2>3 DEF Next
<1>2. QED
  BY <1>1, PromiseInit, SoleCorrect, PTL DEF SafeSpec, Promise!SafeSpec
=============================================================================
