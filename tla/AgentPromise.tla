---------------------------- MODULE AgentPromise ----------------------------
(***************************************************************************)
(* What the agent promises the person who operates it, with no task, mutex *)
(* or event bit in sight: a task is worked on in the session it was        *)
(* started in, one step at a time, only while the agent is running or was  *)
(* asked for a single step, and never for more than MaxActions turns.      *)
(* AgentControl implements it when a single control task issues commands.  *)
(***************************************************************************)
EXTENDS Integers

CONSTANTS Sessions,    \* the conversation windows on the SD card
          MaxActions   \* agent_ctx_t.max_actions, the turn budget of a session

VARIABLES phase,       \* the public state of the agent
          working,     \* a step (capture, query, execute, record) is under way
          task,        \* the session whose goal the agent holds
          turns        \* turns recorded in each session

vars == <<phase, working, task, turns>>

Phases == {"IDLE", "RUNNING", "PAUSED", "STEP", "STOPPING", "EMERGENCY"}

Init == /\ phase = "IDLE"
        /\ working = FALSE
        /\ turns \in [Sessions -> 0 .. MaxActions]

-----------------------------------------------------------------------------
(* Commands of the operator. *)

Start(s) == /\ phase = "IDLE" /\ ~working
            /\ phase' = "RUNNING" /\ task' = s
            /\ UNCHANGED <<working, turns>>

Move(from, to) == /\ phase \in from /\ phase' = to
                  /\ UNCHANGED <<working, task, turns>>

Pause     == Move({"RUNNING"}, "PAUSED")
Resume    == Move({"PAUSED"}, "RUNNING")
StepOnce  == Move({"PAUSED"}, "STEP")
Stop      == Move(Phases, "STOPPING")
Emergency == Move(Phases, "EMERGENCY")

-----------------------------------------------------------------------------
(* Work of the agent. *)

BeginStep == /\ phase \in {"RUNNING", "STEP"} /\ ~working
             /\ working' = TRUE
             /\ UNCHANGED <<phase, task, turns>>

(* A step that fails, or that is skipped, leaves no turn behind. *)
GiveUp == /\ working /\ working' = FALSE
          /\ UNCHANGED <<phase, task, turns>>

(* A step that succeeds adds one turn to the session of the task. *)
RecordTurn == /\ working /\ working' = FALSE
              /\ turns[task] < MaxActions
              /\ turns' = [turns EXCEPT ![task] = @ + 1]
              /\ UNCHANGED <<phase, task>>

(* Between steps: a single step ends in PAUSED, and any task may end. *)
EndSingleStep == ~working /\ Move({"STEP"}, "PAUSED")
Unwind        == ~working /\ Move(Phases, "IDLE")

-----------------------------------------------------------------------------
Next == \/ \E s \in Sessions : Start(s)
        \/ Pause \/ Resume \/ StepOnce \/ Stop \/ Emergency
        \/ BeginStep \/ GiveUp \/ RecordTurn \/ EndSingleStep \/ Unwind

SafeSpec == Init /\ [][Next]_vars

(* Whatever the operator does, a step that was begun comes to an end. *)
Spec == SafeSpec /\ WF_vars(GiveUp \/ RecordTurn)
=============================================================================
