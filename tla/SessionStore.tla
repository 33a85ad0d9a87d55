---------------------------- MODULE SessionStore ----------------------------
(***************************************************************************)
(* The sessions on the SD card: session_manager.c and plan_manager.c, as   *)
(* they are used by the httpd task (start, continue, select, delete and    *)
(* rename), by the START button and by the agent loop, which records a     *)
(* turn.  A file is written in two steps, the truncation by fopen and the  *)
(* write, and power may be lost between any two steps.  The boot sequence  *)
(* of app_main takes the place of the httpd task, which it creates later.  *)
(*                                                                         *)
(* The goal of a session is represented by the id it was created with, its *)
(* title by whether it is cut from the goal or was chosen by the user, a   *)
(* trajectory by the number of its last turn, a plan by its task_id. The   *)
(* length of a trajectory is left open: any append to one that is not      *)
(* empty may find it long enough to trim.                                  *)
(***************************************************************************)
EXTENDS Integers, FiniteSets, FiniteSetsExt

CONSTANTS Ids,        \* session ids; they are timestamps, so a larger one is newer
          NoId,       \* the empty id
          NoFile,     \* a file that does not exist, a plan that is NULL
          Torn,       \* a file that was truncated and not written
          MaxSteps,   \* bound: turns of a task
          MaxCrashes  \* bound: losses of power

Metas == [id : Ids, goal : Ids, title : {"goal", "user"}, steps : 0 .. MaxSteps]
Tasks == {"httpd", "button", "loop"}

ASSUME StoreAssumption == /\ Ids \subseteq Nat /\ IsFiniteSet(Ids)
                          /\ {NoId, NoFile, Torn} \cap Ids = {}
                          /\ {NoFile, Torn} \cap Metas = {} /\ NoFile # Torn
                          /\ MaxSteps \in Nat /\ MaxCrashes \in Nat

VARIABLES dirs,      \* session directories
          meta,      \* meta.json of each
          plan,      \* plan.json of each
          traj,      \* last turn in trajectory.txt of each, 0 when there is none
          cur,       \* s_cur_id
          curGoal,   \* s_cur_goal
          curSteps,  \* s_cur_steps
          planDir,   \* s_plan_dir, as a session
          planMem,   \* s_current_plan; s_task_id is empty when it is NULL
          lock,      \* holder of s_mutex
          agent,     \* the agent is not IDLE
          count,     \* ctx->action_count
          at,        \* where each task is
          next,      \* where httpd goes after loading, creating or deleting
          arg,       \* the session its request is about
          file,      \* the session whose file the loop has open
          buf,       \* the meta.json a task is about to write
          planBuf,   \* the plan.json the loop is about to write
          kept,      \* the last of the turns its trimming writes back
          crashes,
          pressed,   \* history: START was pressed
          trimLost   \* history: sessions whose trajectory a crash cut off

cardVars == <<dirs, meta, plan, traj>>
curVars  == <<cur, curGoal, curSteps>>
planVars == <<planDir, planMem>>
runVars  == <<agent, count>>
webVars  == <<next, arg>>
loopVars == <<file, planBuf, kept>>
pastVars == <<crashes, pressed, trimLost>>
vars == <<cardVars, curVars, planVars, lock, runVars, at, webVars, loopVars,
          buf, pastVars>>

(* read_meta succeeds *)
Readable(s) == meta[s] \in Metas

Booting == [t \in Tasks |-> CASE t = "httpd"  -> "fallback"
                              [] t = "button" -> "idle"
                              [] t = "loop"   -> "rest"]

Init ==
  /\ dirs = {}
  /\ meta = [s \in Ids |-> NoFile] /\ plan = [s \in Ids |-> NoFile]
  /\ traj = [s \in Ids |-> 0]
  /\ cur = NoId /\ curGoal = NoId /\ curSteps = 0
  /\ planDir = NoId /\ planMem = NoFile
  /\ lock = "free" /\ agent = FALSE /\ count = 0
  /\ at = Booting /\ next = "boot" /\ arg = NoId
  /\ file = NoId /\ buf = [t \in Tasks |-> NoFile]
  /\ planBuf = NoFile /\ kept = 0
  /\ crashes = 0 /\ pressed = FALSE
  /\ trimLost = {}

-----------------------------------------------------------------------------
Go(t, place) == at' = [at EXCEPT ![t] = place]

(* The handler answers, the button task waits again. *)
Done(t) ==
  /\ Go(t, "idle")
  /\ IF t = "httpd" THEN next' = "idle" /\ arg' = NoId ELSE UNCHANGED webVars

(* A session was created or loaded: agent_start goes on to start the task, *)
(* the other callers are done.                                             *)
Proceed(t) ==
  IF t = "button" THEN Go(t, "beginNew") /\ UNCHANGED webVars
  ELSE IF next \in {"beginNew", "beginOld"} THEN Go(t, next) /\ UNCHANGED webVars
  ELSE Done(t)

(* Requests. Those that switch sessions look at the state of the agent. A  *)
(* page deletes a session it was shown, which session_mgr_list could read. *)
Request(place, then, s) ==
  /\ at["httpd"] = "idle"
  /\ Go("httpd", place) /\ next' = then /\ arg' = s
  /\ UNCHANGED <<cardVars, curVars, planVars, lock, runVars, loopVars, buf, pastVars>>

StartNew == ~agent /\ Request("create", "beginNew", NoId)
StartOld == ~agent /\ \E s \in Ids, then \in {"beginOld", "idle"} :
                        Request("load", then, s)
Delete   == ~agent /\ \E s \in {r \in dirs : Readable(r)} :
                        Request("rmMeta", IF s = cur THEN "fallback" ELSE "idle", s)
Rename   == \E s \in dirs : Request("readMeta", "idle", s)

(* The START button is live once boot is over. Bound: one press, and a run  *)
(* has a press or losses of power, not both.                               *)
Press ==
  /\ next # "boot" /\ at["button"] = "idle" /\ ~agent
  /\ ~pressed /\ crashes = 0
  /\ Go("button", "create")
  /\ pressed' = TRUE
  /\ UNCHANGED <<cardVars, curVars, planVars, lock, runVars, webVars, loopVars, buf,
                 crashes, trimLost>>

-----------------------------------------------------------------------------
(* session_mgr_create.                                                     *)

(* Mutant of NoSession: the mutex is not given back. *)
NoSession_KeepsLock(t) ==
  /\ lock' = t /\ Done(t)
  /\ UNCHANGED <<dirs, curVars>>

(* No free id, or mkdir fails. *)
NoSession(t) ==
  /\ Done(t)
  /\ UNCHANGED <<dirs, curVars, lock>>

(* A fresh directory; a timestamp is never that of a session being deleted. *)
MakeDir(t) ==
  /\ at[t] = "create" /\ lock = "free"
  /\ \/ \E s \in Ids \ (dirs \cup {arg}) :
          /\ dirs' = dirs \cup {s}
          /\ cur' = s /\ curGoal' = s /\ curSteps' = 0
          /\ lock' = t
          /\ Go(t, "newMeta") /\ UNCHANGED webVars
     \/ NoSession(t)
  /\ UNCHANGED <<meta, plan, traj, planVars, runVars, loopVars, buf, pastVars>>

(* The record write_meta makes of the current session: the title is cut    *)
(* from the goal again.                                                    *)
CurMeta(n) == [id |-> cur, goal |-> curGoal, title |-> "goal", steps |-> n]

OpenNewMeta(t) ==
  /\ at[t] = "newMeta" /\ Go(t, "fillNew")
  /\ meta' = [meta EXCEPT ![cur] = Torn]
  /\ UNCHANGED <<dirs, plan, traj, curVars, planVars, lock, runVars, webVars,
                 loopVars, buf, pastVars>>

(* Mutant of FillNewMeta: out of memory, the file stays empty. *)
FillNewMeta_NoText(t) ==
  /\ at[t] = "fillNew" /\ Go(t, "newPlan")
  /\ planDir' = cur
  /\ UNCHANGED <<cardVars, curVars, planMem, lock, runVars, webVars, loopVars, buf, pastVars>>

(* ... and plan_mgr_init. *)
FillNewMeta(t) ==
  /\ at[t] = "fillNew" /\ Go(t, "newPlan")
  /\ meta' = [meta EXCEPT ![cur] = CurMeta(0)]
  /\ planDir' = cur
  /\ UNCHANGED <<dirs, plan, traj, curVars, planMem, lock, runVars, webVars, loopVars, buf,
                 pastVars>>

(* plan_mgr_new_task_with_id, which refuses an empty id; the plan stays in *)
(* memory.                                                                 *)
NewPlan(t) ==
  /\ at[t] = "newPlan" /\ Proceed(t)
  /\ planMem' = IF cur = NoId THEN planMem ELSE cur
  /\ lock' = "free"
  /\ UNCHANGED <<cardVars, curVars, planDir, runVars, loopVars, buf, pastVars>>

(* Mutants of Adopt: the old goal or the old counter stays. *)
Adopt_OldGoal(s) ==
  /\ cur' = meta[s].id /\ curSteps' = meta[s].steps /\ UNCHANGED curGoal

Adopt_OldSteps(s) ==
  /\ cur' = meta[s].id /\ curGoal' = meta[s].goal /\ UNCHANGED curSteps

Adopt(s) ==
  /\ cur' = meta[s].id /\ curGoal' = meta[s].goal /\ curSteps' = meta[s].steps

(* session_mgr_load: one mutex section that only reads the card.  The plan *)
(* manager has no mutex: it is given the directory, drops the plan it has, *)
(* and reads the file.                                                     *)
Load ==
  /\ at["httpd"] = "load" /\ lock = "free"
  /\ IF Readable(arg)
       THEN /\ Adopt(arg) /\ planDir' = meta[arg].id
            /\ lock' = "httpd" /\ Go("httpd", "dropPlan") /\ UNCHANGED webVars
       ELSE Done("httpd") /\ UNCHANGED <<curVars, planDir, lock>>
  /\ UNCHANGED <<cardVars, planMem, runVars, loopVars, buf, pastVars>>

(* Mutant of DropPlan: the old plan is kept until there is another. *)
DropPlan_Keeps ==
  /\ at["httpd"] = "dropPlan" /\ Go("httpd", "readPlan")
  /\ UNCHANGED <<cardVars, curVars, planVars, lock, runVars, webVars, loopVars, buf,
                 pastVars>>

DropPlan ==
  /\ at["httpd"] = "dropPlan" /\ Go("httpd", "readPlan")
  /\ planMem' = NoFile
  /\ UNCHANGED <<cardVars, curVars, planDir, lock, runVars, webVars, loopVars, buf,
                 pastVars>>

ReadPlan ==
  /\ at["httpd"] = "readPlan" /\ Proceed("httpd")
  /\ planMem' = IF plan[planDir] \in Ids THEN plan[planDir] ELSE planMem
  /\ lock' = "free"
  /\ UNCHANGED <<cardVars, curVars, planDir, runVars, loopVars, buf, pastVars>>

(* The mutex section of agent_start or agent_start_session. *)
Begin(t) ==
  /\ at[t] \in {"beginNew", "beginOld"} /\ Done(t)
  /\ agent' = TRUE
  /\ count' = IF at[t] = "beginNew" THEN 0 ELSE curSteps
  /\ UNCHANGED <<cardVars, curVars, planVars, lock, loopVars, buf, pastVars>>

(* session_fallback_current and the boot sequence: session_mgr_list with   *)
(* room for one entry stops at the first readable session that readdir     *)
(* happens to return, before anything is sorted.                           *)
Fallback ==
  /\ at["httpd"] = "fallback"
  /\ IF \E s \in dirs : Readable(s)
       THEN \E s \in dirs : Readable(s) /\ arg' = s /\ Go("httpd", "load")
       ELSE arg' = NoId /\ Go("httpd", "create")
  /\ UNCHANGED <<cardVars, curVars, planVars, lock, runVars, next, loopVars, buf,
                 pastVars>>

-----------------------------------------------------------------------------
(* session_mgr_delete and session_mgr_rename: neither takes the mutex.     *)

RemoveMeta ==
  /\ at["httpd"] = "rmMeta" /\ Go("httpd", "rmFiles")
  /\ meta' = [meta EXCEPT ![arg] = NoFile]
  /\ UNCHANGED <<dirs, plan, traj, curVars, planVars, lock, runVars, webVars,
                 loopVars, buf, pastVars>>

RemoveFiles ==
  /\ at["httpd"] = "rmFiles" /\ Go("httpd", "rmDir")
  /\ plan' = [plan EXCEPT ![arg] = NoFile] /\ traj' = [traj EXCEPT ![arg] = 0]
  /\ UNCHANGED <<dirs, meta, curVars, planVars, lock, runVars, webVars, loopVars, buf,
                 pastVars>>

(* Mutant of RemoveDir: the directory goes with whatever is in it. *)
RemoveDir_Forced ==
  /\ at["httpd"] = "rmDir" /\ Go("httpd", "clearCur")
  /\ dirs' = dirs \ {arg} /\ trimLost' = trimLost \ {arg}
  /\ UNCHANGED <<meta, plan, traj, curVars, planVars, lock, runVars, webVars, loopVars,
                 buf, crashes, pressed>>

(* rmdir fails, and with it the request, if a file was written meanwhile.  *)
RemoveDir ==
  /\ at["httpd"] = "rmDir"
  /\ IF meta[arg] = NoFile /\ plan[arg] = NoFile /\ traj[arg] = 0
       THEN /\ dirs' = dirs \ {arg}
            /\ trimLost' = trimLost \ {arg}
            /\ Go("httpd", "clearCur") /\ UNCHANGED webVars
       ELSE Done("httpd") /\ UNCHANGED <<dirs, trimLost>>
  /\ UNCHANGED <<meta, plan, traj, curVars, planVars, lock, runVars, loopVars, buf,
                 crashes, pressed>>

(* Mutant of ClearCur: the current session is not looked at. *)
ClearCur_Forgets ==
  /\ at["httpd"] = "clearCur"
  /\ IF next = "fallback" THEN Go("httpd", "fallback") /\ next' = "idle" /\ UNCHANGED arg
                          ELSE Done("httpd")
  /\ UNCHANGED <<cardVars, curVars, planVars, lock, runVars, loopVars, buf, pastVars>>

(* ... and the rest of the handler, which remembers whether the session    *)
(* was current when it began.                                              *)
ClearCur ==
  /\ at["httpd"] = "clearCur"
  /\ cur' = IF cur = arg THEN NoId ELSE cur
  /\ IF next = "fallback" THEN Go("httpd", "fallback") /\ next' = "idle" /\ UNCHANGED arg
                          ELSE Done("httpd")
  /\ UNCHANGED <<cardVars, curGoal, curSteps, planVars, lock, runVars, loopVars,
                 buf, pastVars>>

(* The record that rename makes of the one it read. *)
Retitled(m) == [m EXCEPT !.title = "user"]

ReadMeta ==
  /\ at["httpd"] = "readMeta"
  /\ IF Readable(arg)
       THEN /\ buf' = [buf EXCEPT !["httpd"] = Retitled(meta[arg])]
            /\ Go("httpd", "openMeta") /\ UNCHANGED webVars
       ELSE Done("httpd") /\ UNCHANGED buf
  /\ UNCHANGED <<cardVars, curVars, planVars, lock, runVars, loopVars, pastVars>>

OpenMeta ==
  /\ at["httpd"] = "openMeta" /\ Go("httpd", "fillMeta")
  /\ meta' = [meta EXCEPT ![arg] = Torn]
  /\ UNCHANGED <<dirs, plan, traj, curVars, planVars, lock, runVars, webVars,
                 loopVars, buf, pastVars>>

FillMeta ==
  /\ at["httpd"] = "fillMeta" /\ Done("httpd")
  /\ meta' = [meta EXCEPT ![arg] = buf["httpd"]]
  /\ buf' = [buf EXCEPT !["httpd"] = NoFile]
  /\ UNCHANGED <<dirs, plan, traj, curVars, planVars, lock, runVars, loopVars,
                 pastVars>>

Httpd ==
  \/ MakeDir("httpd") \/ OpenNewMeta("httpd") \/ FillNewMeta("httpd") \/ NewPlan("httpd")
  \/ Load \/ DropPlan \/ ReadPlan \/ Begin("httpd") \/ Fallback
  \/ RemoveMeta \/ RemoveFiles \/ RemoveDir \/ ClearCur \/ ReadMeta \/ OpenMeta \/ FillMeta

Button == \/ MakeDir("button") \/ OpenNewMeta("button") \/ FillNewMeta("button")
          \/ NewPlan("button") \/ Begin("button")

-----------------------------------------------------------------------------
(* The agent loop records a turn.                                          *)

(* What is written to a file that was removed while it was open is lost.   *)
Filled(now, text) == IF now = NoFile THEN NoFile ELSE text

(* An answer arrived; it may carry a plan_update. *)
CountTurn ==
  /\ at["loop"] = "rest" /\ agent /\ count < MaxSteps
  /\ count' = count + 1
  /\ \E place \in {"savePlan", "append"} : Go("loop", place)
  /\ UNCHANGED <<cardVars, curVars, planVars, lock, agent, webVars, loopVars, buf,
                 pastVars>>

(* plan_mgr_save, without a mutex: the path is made of s_plan_dir, the text *)
(* of s_current_plan, and then the file is opened.  Nothing is written when *)
(* there is no plan.                                                        *)
SavePlan ==
  /\ at["loop"] = "savePlan"
  /\ IF planMem # NoFile THEN file' = planDir /\ Go("loop", "printPlan")
                         ELSE Go("loop", "append") /\ UNCHANGED file
  /\ UNCHANGED <<cardVars, curVars, planVars, lock, runVars, webVars, planBuf, kept, buf,
                 pastVars>>

PrintPlan ==
  /\ at["loop"] = "printPlan"
  /\ IF planMem # NoFile
       THEN planBuf' = planMem /\ Go("loop", "openPlan") /\ UNCHANGED file
       ELSE file' = NoId /\ Go("loop", "append") /\ UNCHANGED planBuf
  /\ UNCHANGED <<cardVars, curVars, planVars, lock, runVars, webVars, kept, buf, pastVars>>

OpenPlan ==
  /\ at["loop"] = "openPlan"
  /\ IF file \in dirs
       THEN /\ plan' = [plan EXCEPT ![file] = Torn]
            /\ Go("loop", "fillPlan") /\ UNCHANGED <<file, planBuf>>
       ELSE /\ file' = NoId /\ planBuf' = NoFile
            /\ Go("loop", "append") /\ UNCHANGED plan
  /\ UNCHANGED <<dirs, meta, traj, curVars, planVars, lock, runVars, webVars, kept, buf,
                 pastVars>>

FillPlan ==
  /\ at["loop"] = "fillPlan" /\ Go("loop", "append")
  /\ plan' = [plan EXCEPT ![file] = Filled(@, planBuf)]
  /\ file' = NoId /\ planBuf' = NoFile
  /\ UNCHANGED <<dirs, meta, traj, curVars, planVars, lock, runVars, webVars, kept,
                 buf, pastVars>>

(* session_mgr_append_turn: its mutex section, cut in two by the trimming. *)
Append ==
  /\ at["loop"] = "append" /\ lock = "free"
  /\ \/ /\ cur \in dirs /\ traj[cur] > 0
        /\ traj' = [traj EXCEPT ![cur] = 0]
        /\ file' = cur /\ kept' = traj[cur]
        /\ lock' = "loop" /\ Go("loop", "fillTraj")
     \/ /\ traj' = [s \in Ids |-> IF s = cur /\ s \in dirs THEN count ELSE traj[s]]
        /\ Go("loop", "setSteps")
        /\ UNCHANGED <<file, kept, lock>>
  /\ UNCHANGED <<dirs, meta, plan, curVars, planVars, runVars, webVars, planBuf,
                 buf, pastVars>>

(* Mutant of FillTraj: the function returns once it has trimmed. *)
FillTraj_Returns ==
  /\ at["loop"] = "fillTraj" /\ Go("loop", "setSteps")
  /\ traj' = IF file \in dirs THEN [traj EXCEPT ![file] = kept] ELSE traj
  /\ file' = NoId /\ kept' = 0 /\ lock' = "free"
  /\ UNCHANGED <<dirs, meta, plan, curVars, planVars, runVars, webVars, planBuf,
                 buf, pastVars>>

FillTraj ==
  /\ at["loop"] = "fillTraj" /\ Go("loop", "setSteps")
  /\ traj' = IF file \in dirs THEN [traj EXCEPT ![file] = count] ELSE traj
  /\ file' = NoId /\ kept' = 0 /\ lock' = "free"
  /\ UNCHANGED <<dirs, meta, plan, curVars, planVars, runVars, webVars, planBuf,
                 buf, pastVars>>

(* session_mgr_set_steps: write_meta in its mutex section. *)
SetSteps ==
  /\ at["loop"] = "setSteps" /\ lock = "free"
  /\ IF cur \in dirs
       THEN /\ curSteps' = count
            /\ meta' = [meta EXCEPT ![cur] = Torn]
            /\ buf' = [buf EXCEPT !["loop"] = CurMeta(count)]
            /\ lock' = "loop" /\ Go("loop", "fillSteps")
       ELSE Go("loop", "rest") /\ UNCHANGED <<curSteps, meta, buf, lock>>
  /\ UNCHANGED <<dirs, plan, traj, cur, curGoal, planVars, runVars, webVars,
                 loopVars, pastVars>>

FillSteps ==
  /\ at["loop"] = "fillSteps" /\ Go("loop", "rest")
  /\ meta' = [meta EXCEPT ![buf["loop"].id] = Filled(@, buf["loop"])]
  /\ buf' = [buf EXCEPT !["loop"] = NoFile]
  /\ lock' = "free"
  /\ UNCHANGED <<dirs, plan, traj, curVars, planVars, runVars, webVars, loopVars,
                 pastVars>>

(* The task is done, stopped or aborted: the agent is IDLE again. *)
EndTask ==
  /\ at["loop"] = "rest" /\ agent
  /\ agent' = FALSE
  /\ UNCHANGED <<cardVars, curVars, planVars, lock, count, at, webVars, loopVars,
                 buf, pastVars>>

Loop == SavePlan \/ PrintPlan \/ OpenPlan \/ FillPlan \/ Append \/ FillTraj \/ SetSteps \/ FillSteps

(* Power is lost: memory is gone, the card stays as it is. *)
Crash ==
  /\ crashes < MaxCrashes /\ ~pressed
  /\ crashes' = crashes + 1
  /\ cur' = NoId /\ curGoal' = NoId /\ curSteps' = 0
  /\ planDir' = NoId /\ planMem' = NoFile
  /\ lock' = "free" /\ agent' = FALSE /\ count' = 0
  /\ at' = Booting /\ next' = "boot" /\ arg' = NoId
  /\ file' = NoId /\ buf' = [t \in Tasks |-> NoFile]
  /\ planBuf' = NoFile /\ kept' = 0
  /\ trimLost' = IF at["loop"] = "fillTraj" THEN trimLost \cup ({file} \cap dirs) ELSE trimLost
  /\ UNCHANGED <<cardVars, pressed>>

Next == \/ StartNew \/ StartOld \/ Delete \/ Rename \/ Press
        \/ Httpd \/ Button \/ CountTurn \/ Loop \/ EndTask \/ Crash

Spec == Init /\ [][Next]_vars

-----------------------------------------------------------------------------
TypeOK ==
  /\ dirs \subseteq Ids
  /\ \A s \in Ids : /\ meta[s] \in Metas \cup {NoFile, Torn}
                    /\ plan[s] \in Ids \cup {NoFile, Torn}
                    /\ traj[s] \in 0 .. MaxSteps
                    /\ s \notin dirs => meta[s] = NoFile /\ plan[s] = NoFile /\ traj[s] = 0
  /\ cur \in Ids \cup {NoId} /\ curGoal \in Ids \cup {NoId}
  /\ curSteps \in 0 .. MaxSteps /\ count \in 0 .. MaxSteps
  /\ planDir \in Ids \cup {NoId} /\ planMem \in Ids \cup {NoFile}
  /\ lock \in Tasks \cup {"free"} /\ agent \in BOOLEAN
  /\ \A t \in Tasks : buf[t] \in Metas \cup {NoFile}
  /\ arg \in Ids \cup {NoId} /\ file \in Ids \cup {NoId}
  /\ planBuf \in Ids \cup {NoFile} /\ kept \in 0 .. MaxSteps
  /\ trimLost \subseteq dirs

(* A meta.json that can be read is that of its own session, id and goal,   *)
(* whichever requests, presses of START, turns and power failures produced *)
(* it (write_meta and rename write what they believe the session to be).   *)
OwnMeta == \A s \in Ids : Readable(s) => meta[s].id = s /\ meta[s].goal = s

(* The step counter in meta.json is never ahead of the trajectory: a       *)
(* continued session has a record of every turn it believes to have taken, *)
(* up to trimming, and except when power fails in a trim. A rename may put *)
(* the counter back, a crash may leave it behind, neither may put it ahead *)
(* (agent_record_turn).                                                    *)
Trims(s) == at["loop"] = "fillTraj" /\ file = s
StepsHaveTurns ==
  ~pressed => \A s \in Ids \ trimLost :
                Readable(s) => meta[s].steps <= traj[s] \/ Trims(s)

(* A plan.json is that of the session it lies with, however often sessions *)
(* are switched, created and deleted in between (plan_mgr_load, _save).    *)
PlanBelongs == \A s \in Ids : plan[s] \in {s, NoFile, Torn}

(* No file of a session is ever that of another: a record never, and a     *)
(* plan as long as START is not pressed, since a start that overlaps with  *)
(* one of the page may come between the path and the text of a plan that   *)
(* is being saved (session_manager.c, plan_manager.c).                     *)
FilesBelong == OwnMeta /\ (~pressed => PlanBelongs)

(* The current session is on the card, except while it is being deleted:   *)
(* no turn is recorded into a directory that is gone.                      *)
CurrentExists ==
  cur \in dirs \cup {NoId} \/ (at["httpd"] = "clearCur" /\ cur = arg)

(* Without a power failure every session directory holds a readable        *)
(* meta.json, so the session is listed and can be continued or deleted,    *)
(* except while one of the tasks is writing or deleting it.                *)
Loadable ==
  crashes = 0 /\ ~pressed => \A s \in dirs :
    \/ Readable(s)
    \/ cur = s /\ \E t \in Tasks : at[t] \in {"newMeta", "fillNew", "fillSteps"}
    \/ arg = s /\ at["httpd"] \in {"rmFiles", "rmDir", "fillMeta"}

(* The card stays usable: the current session is on it, and what is on it  *)
(* can be listed and continued.                                            *)
CardUsable == TypeOK /\ CurrentExists /\ Loadable

(* The places in the code where s_mutex is held across a step. *)
Section == {"newMeta", "fillNew", "newPlan", "dropPlan", "readPlan", "fillTraj", "fillSteps"}

(* The session mutex is held by a task exactly while it is in one of the   *)
(* sections, none of which waits for anything: whatever fails in there, no *)
(* handler and no turn waits for the mutex for ever.                       *)
MutexReturned == \A t \in Tasks : lock = t <=> at[t] \in Section

-----------------------------------------------------------------------------
(* As StorePromise sees it: a session can be listed when its record can be     *)
(* read, or is being rewritten and will be readable again.                     *)
SavesSteps(s) == at["loop"] = "fillSteps" /\ buf["loop"].id = s
Retitles(s)   == at["httpd"] = "fillMeta" /\ arg = s
Listed        == {s \in dirs : Readable(s) \/ SavesSteps(s) \/ Retitles(s)}
StepsOf(s)    == IF SavesSteps(s) THEN buf["loop"].steps
                 ELSE IF Readable(s) THEN meta[s].steps ELSE buf["httpd"].steps
Counters      == [s \in Ids |-> IF s \in Listed THEN StepsOf(s) ELSE 0]
Turns         == [s \in Ids |-> IF s \notin Listed THEN 0
                               ELSE IF Trims(s) THEN kept ELSE traj[s]]
Current       == IF cur \in Listed THEN cur ELSE NoId
Reached       == IF Current = NoId THEN 0
                 ELSE IF at["loop"] = "setSteps" THEN count ELSE curSteps
Saving        == IF at["loop"] = "fillTraj" THEN file
                 ELSE IF at["loop"] = "fillSteps" THEN buf["loop"].id ELSE NoId
Retitling     == IF at["httpd"] = "fillMeta" THEN arg ELSE NoId

Promise == INSTANCE StorePromise
             WITH sessions <- Listed, counter <- Counters, turns <- Turns,
                  current <- Current, reached <- Reached,
                  saving <- Saving, retitling <- Retitling

(* Until START is pressed, the files keep StorePromise: whatever httpd, the    *)
(* loop and losses of power do between the truncation of a file and its        *)
(* writing, a turn goes to the current session and to no other, a session is   *)
(* continued where it was left, and only a deletion, or a loss of power while  *)
(* it is written, takes one away (session_manager.c).                          *)
KeepsStore == Promise!Init /\ [][pressed' \/ Promise!Next]_(Promise!vars)
=============================================================================
