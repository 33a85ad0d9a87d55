------------------------ MODULE SessionStore_proofs ------------------------
(***************************************************************************)
(* Proofs about SessionStore, for any number of sessions, turns and losses *)
(* of power: the mutex is always given back, a meta.json that can be read  *)
(* is that of its own session, the current session is on the card and can  *)
(* be loaded, no counter is ahead of the trajectory, and a plan is that of *)
(* the goal it is shown with.                                              *)
(***************************************************************************)
EXTENDS SessionStore, TLAPS

(* Where a task may be. *)
Places == Section \cup {"fallback", "idle", "load", "create", "beginNew", "beginOld",
            "rmMeta", "rmFiles", "rmDir", "clearCur", "readMeta", "openMeta", "fillMeta",
            "rest", "savePlan", "printPlan", "openPlan", "fillPlan", "append", "setSteps"}

LockType == at \in [Tasks -> Places]
LockInv  == LockType /\ MutexReturned

(* The requests that read or write the files of the session they name. *)
Named == {"load", "readMeta", "openMeta", "fillMeta"}

(* Memory and card agree on whose goal is whose: in the files, in the      *)
(* current session, and in what a task has read and is about to write.     *)
MetaType == /\ meta = [s \in Ids |-> meta[s]]
            /\ buf = [t \in Tasks |-> buf[t]]
            /\ dirs \subseteq Ids
CurOwn   == cur \in Ids => curGoal = cur
ArgOwn   == at["httpd"] \in Named => arg \in Ids
HttpdOwn == at["httpd"] \in {"openMeta", "fillMeta"}
              => buf["httpd"].id = arg /\ buf["httpd"].goal = arg
LoopOwn  == at["loop"] = "fillSteps" => buf["loop"].goal = buf["loop"].id
MetaInv  == MetaType /\ CurOwn /\ ArgOwn /\ HttpdOwn /\ LoopOwn /\ OwnMeta

-----------------------------------------------------------------------------
(* A task moves outside the mutex sections, into one, inside one, out of   *)
(* one: the four ways in which the actions treat place and mutex.          *)
LEMMA Outside ==
  ASSUME LockInv, NEW t \in Tasks, NEW p \in Places \ Section, at[t] \notin Section,
         Go(t, p), lock' = lock
  PROVE  LockInv'
BY DEF LockInv, LockType, MutexReturned, Go

LEMMA Enter ==
  ASSUME LockInv, NEW t \in Tasks, NEW p \in Section, Go(t, p),
         lock = "free", lock' = t
  PROVE  LockInv'
BY DEF LockInv, LockType, MutexReturned, Go, Tasks, Places

LEMMA Inside ==
  ASSUME LockInv, NEW t \in Tasks, NEW p \in Section, at[t] \in Section,
         Go(t, p), lock' = lock
  PROVE  LockInv'
BY DEF LockInv, LockType, MutexReturned, Go, Places

LEMMA Leave ==
  ASSUME LockInv, NEW t \in Tasks, NEW p \in Places \ Section, at[t] \in Section,
         Go(t, p), lock' = "free"
  PROVE  LockInv'
BY DEF LockInv, LockType, MutexReturned, Go, Tasks

(* Where the common tails of the handlers go. *)
LEMMA DoneGoes == ASSUME NEW t, Done(t) PROVE Go(t, "idle")
BY DEF Done

LEMMA ProceedGoes ==
  ASSUME NEW t, Proceed(t)
  PROVE  \E p \in {"beginNew", "beginOld", "idle"} : Go(t, p)
BY DEF Proceed, Done

LEMMA LockInit == Init => LockInv
BY DEF Init, LockInv, LockType, MutexReturned, Booting, Places, Section, Tasks

(* Every step keeps the mutex with the task that is inside a section.      *)
LEMMA LockStep == LockInv /\ [Next]_vars => LockInv'
<1> SUFFICES ASSUME LockInv, [Next]_vars PROVE LockInv'
  OBVIOUS
<1> USE DEF Places, Section, Tasks
<1>1. CASE StartNew
  BY <1>1, Outside DEF StartNew, Request
<1>2. CASE StartOld
  BY <1>2, Outside DEF StartOld, Request
<1>3. CASE Delete
  BY <1>3, Outside DEF Delete, Request
<1>4. CASE Rename
  BY <1>4, Outside DEF Rename, Request
<1>5. CASE Press
  BY <1>5, Outside DEF Press
<1>6. CASE \E t \in {"httpd", "button"} : MakeDir(t)
  BY <1>6, Enter, Outside, DoneGoes DEF MakeDir, NoSession
<1>7. CASE \E t \in {"httpd", "button"} : OpenNewMeta(t)
  BY <1>7, Inside DEF OpenNewMeta
<1>8. CASE \E t \in {"httpd", "button"} : FillNewMeta(t)
  BY <1>8, Inside DEF FillNewMeta
<1>9. CASE \E t \in {"httpd", "button"} : Begin(t)
  BY <1>9, Outside, DoneGoes DEF Begin
<1>10. CASE Load
  BY <1>10, Enter, Outside, DoneGoes DEF Load
<1>11. CASE Fallback
  BY <1>11, Outside DEF Fallback
<1>12. CASE RemoveMeta
  BY <1>12, Outside DEF RemoveMeta
<1>13. CASE RemoveFiles
  BY <1>13, Outside DEF RemoveFiles
<1>14. CASE RemoveDir
  BY <1>14, Outside, DoneGoes DEF RemoveDir
<1>15. CASE ClearCur
  BY <1>15, Outside, DoneGoes DEF ClearCur
<1>16. CASE ReadMeta
  BY <1>16, Outside, DoneGoes DEF ReadMeta
<1>17. CASE OpenMeta
  BY <1>17, Outside DEF OpenMeta
<1>18. CASE FillMeta
  BY <1>18, Outside, DoneGoes DEF FillMeta
<1>19. CASE CountTurn
  BY <1>19, Outside DEF CountTurn
<1>20. CASE SavePlan
  BY <1>20, Outside DEF SavePlan
<1>21. CASE FillPlan
  BY <1>21, Outside DEF FillPlan
<1>22. CASE Append
  BY <1>22, Enter, Outside DEF Append
<1>23. CASE FillTraj
  BY <1>23, Leave DEF FillTraj
<1>24. CASE SetSteps
  BY <1>24, Enter, Outside DEF SetSteps
<1>25. CASE FillSteps
  BY <1>25, Leave DEF FillSteps
<1>26. CASE EndTask
  BY <1>26 DEF EndTask, LockInv, LockType, MutexReturned
<1>27. CASE Crash
  BY <1>27 DEF Crash, Booting, LockInv, LockType, MutexReturned
<1>28. CASE UNCHANGED vars
  BY <1>28 DEF vars, LockInv, LockType, MutexReturned
<1>29. CASE \E t \in {"httpd", "button"} : NewPlan(t)
  BY <1>29, Leave, ProceedGoes DEF NewPlan
<1>30. CASE DropPlan
  BY <1>30, Inside DEF DropPlan
<1>31. CASE ReadPlan
  BY <1>31, Leave, ProceedGoes DEF ReadPlan
<1>32. CASE PrintPlan
  BY <1>32, Outside DEF PrintPlan
<1>33. CASE OpenPlan
  BY <1>33, Outside DEF OpenPlan
<1> QED
  BY <1>1, <1>2, <1>3, <1>4, <1>5, <1>6, <1>7, <1>8, <1>9, <1>10, <1>11, <1>12, <1>13, <1>14, <1>15, <1>16, <1>17, <1>18, <1>19, <1>20, <1>21, <1>22, <1>23, <1>24, <1>25, <1>26, <1>27, <1>28,
     <1>29, <1>30, <1>31, <1>32, <1>33
     DEF Next, Httpd, Button, Loop

(* The session mutex is held by a task exactly while it is in one of its   *)
(* sections (session_mgr_create, _append_turn, _set_steps): every path out *)
(* of a section gives it back.                                             *)
THEOREM MutexFree == Spec => []MutexReturned
<1>1. LockInv => MutexReturned
  BY DEF LockInv
<1> QED
  BY <1>1, LockInit, LockStep, PTL DEF Spec

-----------------------------------------------------------------------------
(* Renaming changes the title alone. *)
LEMMA RetitledKeeps ==
  ASSUME NEW m \in Metas PROVE Retitled(m).id = m.id /\ Retitled(m).goal = m.goal
BY DEF Retitled, Metas

(* A file that is missing or torn is not a record, and no record is lost   *)
(* among them.                                                             *)
LEMMA NotRecords == NoFile \notin Metas /\ Torn \notin Metas /\ NoFile # Torn
BY StoreAssumption

LEMMA MetaInit == Init => MetaInv
BY NotRecords DEF Init, MetaInv, MetaType, CurOwn, ArgOwn, HttpdOwn, LoopOwn, OwnMeta,
       Named, Booting, Readable, Tasks

(* Every step writes into meta.json only what belongs there. *)
LEMMA MetaStep == LockType /\ MetaInv /\ [Next]_vars => MetaInv'
<1> SUFFICES ASSUME LockType, MetaInv, [Next]_vars PROVE MetaInv'
  OBVIOUS
<1> USE NotRecords DEF LockType, MetaInv, MetaType, CurOwn, ArgOwn, HttpdOwn, LoopOwn,
        OwnMeta, Named, Readable, Tasks, Go, Done,
        vars, cardVars, curVars, runVars, webVars, loopVars, pastVars
<1>1. CASE StartNew
  BY <1>1 DEF StartNew, Request
<1>2. CASE StartOld
  BY <1>2 DEF StartOld, Request
<1>3. CASE Delete
  BY <1>3 DEF Delete, Request
<1>4. CASE Rename
  BY <1>4 DEF Rename, Request
<1>5. CASE Press
  BY <1>5 DEF Press
<1>6. CASE \E t \in {"httpd", "button"} : MakeDir(t)
  BY <1>6, StoreAssumption DEF MakeDir, NoSession
<1>7. CASE \E t \in {"httpd", "button"} : OpenNewMeta(t)
  BY <1>7 DEF OpenNewMeta
<1>8. CASE \E t \in {"httpd", "button"} : FillNewMeta(t)
  BY <1>8 DEF FillNewMeta, CurMeta
<1>9. CASE \E t \in {"httpd", "button"} : Begin(t)
  BY <1>9 DEF Begin
<1>10. CASE Load
  BY <1>10 DEF Load, Adopt
<1>11. CASE Fallback
  BY <1>11 DEF Fallback
<1>12. CASE RemoveMeta
  BY <1>12 DEF RemoveMeta
<1>13. CASE RemoveFiles
  BY <1>13 DEF RemoveFiles
<1>14. CASE RemoveDir
  BY <1>14 DEF RemoveDir
<1>15. CASE ClearCur
  BY <1>15, StoreAssumption DEF ClearCur
<1>16. CASE ReadMeta
  BY <1>16, RetitledKeeps DEF ReadMeta
<1>17. CASE OpenMeta
  BY <1>17 DEF OpenMeta
<1>18. CASE FillMeta
  BY <1>18 DEF FillMeta
<1>19. CASE CountTurn
  BY <1>19 DEF CountTurn
<1>20. CASE SavePlan
  BY <1>20 DEF SavePlan
<1>21. CASE FillPlan
  BY <1>21 DEF FillPlan
<1>22. CASE Append
  BY <1>22 DEF Append
<1>23. CASE FillTraj
  BY <1>23 DEF FillTraj
<1>24. CASE SetSteps
  BY <1>24 DEF SetSteps, CurMeta
<1>25. CASE FillSteps
  BY <1>25 DEF FillSteps, Filled
<1>26. CASE EndTask
  BY <1>26 DEF EndTask
<1>27. CASE Crash
  BY <1>27, StoreAssumption DEF Crash, Booting
<1>28. CASE UNCHANGED vars
  BY <1>28
<1>29. CASE \E t \in {"httpd", "button"} : NewPlan(t)
  BY <1>29 DEF NewPlan, Proceed
<1>30. CASE DropPlan
  BY <1>30 DEF DropPlan
<1>31. CASE ReadPlan
  BY <1>31 DEF ReadPlan, Proceed
<1>32. CASE PrintPlan
  BY <1>32 DEF PrintPlan
<1>33. CASE OpenPlan
  BY <1>33 DEF OpenPlan
<1> QED
  BY <1>1, <1>2, <1>3, <1>4, <1>5, <1>6, <1>7, <1>8, <1>9, <1>10, <1>11, <1>12, <1>13, <1>14, <1>15, <1>16, <1>17, <1>18, <1>19, <1>20, <1>21, <1>22, <1>23, <1>24, <1>25, <1>26, <1>27, <1>28,
     <1>29, <1>30, <1>31, <1>32, <1>33
     DEF Next, Httpd, Button, Loop

(* A meta.json that can be read is that of its own session, id and goal,   *)
(* through any sequence of requests, presses, turns and power failures.    *)
THEOREM MetaOwned == Spec => []OwnMeta
<1>1. LockInv => LockType
  BY DEF LockInv
<1>2. MetaInv => OwnMeta
  BY DEF MetaInv
<1> QED
  BY <1>1, <1>2, LockInit, LockStep, MetaInit, MetaStep, PTL DEF Spec

-----------------------------------------------------------------------------
(* Who may be where.  The loop is inside a turn only while the agent is    *)
(* active; without the button the agent becomes active only when httpd is  *)
(* done with the request, and the only request it takes until the task     *)
(* ends is a rename.                                                       *)
Renaming == {"openMeta", "fillMeta"}
Creating == {"newMeta", "fillNew"}
Loading  == {"dropPlan", "readPlan"}
Removing == {"rmMeta", "rmFiles", "rmDir"}

PlaceInv ==
  /\ at["httpd"] \notin {"fillTraj", "fillSteps", "rest", "savePlan", "printPlan",
                         "openPlan", "fillPlan", "append", "setSteps"}
  /\ at["button"] \in Creating \cup {"idle", "create", "newPlan", "beginNew"}
  /\ at["loop"] \in {"rest", "savePlan", "printPlan", "openPlan", "fillPlan", "append",
                     "fillTraj", "setSteps", "fillSteps"}
  /\ at["httpd"] \in Loading \cup {"fallback", "load"} => next # "beginNew"
  /\ ~agent => at["loop"] = "rest"
  /\ ~pressed => at["button"] = "idle"
  /\ ~pressed /\ agent => at["httpd"] \in Renaming \cup {"idle", "readMeta"}

(* What each place knows of the session it works on: that it is there, and *)
(* that what is about to be written is a record.                           *)
CardType == /\ TypeOK /\ crashes \in Nat
            /\ plan = [s \in Ids |-> plan[s]] /\ traj = [s \in Ids |-> traj[s]]
NewInv   == (\E t \in Tasks : at[t] \in Creating)
              => /\ cur \in dirs /\ ~Readable(cur)
                 /\ at["httpd"] \in Renaming \cup Removing \cup {"clearCur"} => arg # cur
WebInv   == /\ at["httpd"] \in Renaming \cup Removing \cup {"readMeta"} => arg \in dirs
            /\ at["httpd"] = "clearCur" => arg \in Ids \ dirs
            /\ at["httpd"] \in Renaming => buf["httpd"] \in Metas
TurnInv  == /\ at["loop"] = "fillSteps" => buf["loop"] \in Metas
            /\ at["loop"] \in {"fillTraj", "fillPlan"} => file \in Ids
            /\ at["loop"] \in {"openPlan", "fillPlan"} => planBuf \in Ids
CardInv  == CardType /\ NewInv /\ WebInv /\ TurnInv /\ CurrentExists

(* Without the button: what a deletion has removed stays away until its    *)
(* last step, and the loop writes the record of the session that is still  *)
(* current.                                                                *)
AloneInv ==
  ~pressed =>
    /\ at["httpd"] \in {"rmFiles", "rmDir"} => meta[arg] = NoFile
    /\ at["httpd"] = "rmDir" => plan[arg] = NoFile /\ traj[arg] = 0
    /\ at["loop"] = "fillSteps" => cur \in dirs /\ buf["loop"].id = cur /\ meta[cur] # NoFile
UsableInv == AloneInv /\ Loadable

(* Without the button: no record, on the card or about to be written, is   *)
(* ahead of the trajectory, nor of the counter in memory, nor this of the  *)
(* turns the task has counted.                                             *)
StepsInv ==
  ~pressed =>
    /\ \A s \in Ids \ trimLost : Readable(s) => meta[s].steps <= traj[s] \/ Trims(s)
    /\ at["httpd"] \in Renaming /\ arg \notin trimLost
         => buf["httpd"].steps <= traj[arg] \/ Trims(arg)
    /\ cur \in Ids /\ Readable(cur) => meta[cur].steps <= curSteps
    /\ at["httpd"] \in Renaming /\ arg = cur => buf["httpd"].steps <= curSteps
    /\ at["httpd"] \in Creating \cup {"newPlan", "beginNew"} => curSteps = 0
    /\ agent => curSteps <= count
    /\ at["loop"] = "fillTraj" => file = cur
    /\ at["loop"] = "setSteps" /\ cur \in dirs => traj[cur] = count
    /\ at["loop"] = "fillSteps" => traj[cur] = count /\ curSteps = count
                                   /\ buf["loop"].steps = count

(* Without the button: the plan in memory is that of the directory it will *)
(* be saved to, but while a request of the page changes both; it does so   *)
(* while the loop rests, so that the path and the text of a plan that is   *)
(* being saved agree.                                                      *)
PlanInv ==
  ~pressed =>
    /\ planMem # NoFile /\ at["httpd"] \notin {"newPlan", "dropPlan"} => planMem = planDir
    /\ at["httpd"] = "newPlan" => planDir = cur /\ cur \in Ids
    /\ at["httpd"] \in Loading => planDir \in Ids
    /\ at["loop"] = "printPlan" => file = planDir
    /\ at["loop"] \in {"openPlan", "fillPlan"} => planBuf = file
    /\ \A s \in Ids : plan[s] \in {s, NoFile, Torn}

-----------------------------------------------------------------------------
LEMMA PlaceStep == LockType /\ PlaceInv /\ [Next]_vars => PlaceInv'
<1> SUFFICES ASSUME LockType, PlaceInv, [Next]_vars PROVE PlaceInv'
  OBVIOUS
<1> USE DEF LockType, PlaceInv, Renaming, Creating, Loading, Tasks, Go, Done, runVars, webVars,
        pastVars
<1>1. CASE StartNew \/ StartOld \/ Delete \/ Rename \/ Press
  BY <1>1 DEF StartNew, StartOld, Delete, Rename, Request, Press
<1>2. ASSUME NEW t \in {"httpd", "button"},
             \/ MakeDir(t) \/ OpenNewMeta(t) \/ FillNewMeta(t) \/ NewPlan(t)
             \/ Begin(t)
      PROVE  PlaceInv'
  <2>1. CASE MakeDir(t)
    BY <2>1 DEF MakeDir, NoSession
  <2>2. CASE OpenNewMeta(t)
    BY <2>2 DEF OpenNewMeta
  <2>3. CASE FillNewMeta(t)
    BY <2>3 DEF FillNewMeta
  <2>4. CASE Begin(t)
    BY <2>4 DEF Begin
  <2>5. CASE NewPlan(t)
    BY <2>5 DEF NewPlan, Proceed
  <2> QED
    BY <1>2, <2>1, <2>2, <2>3, <2>4, <2>5
<1>3. CASE Load \/ DropPlan \/ ReadPlan \/ Fallback
  BY <1>3 DEF Load, DropPlan, ReadPlan, Fallback, Proceed
<1>4. CASE RemoveMeta \/ RemoveFiles \/ RemoveDir \/ ClearCur
  BY <1>4 DEF RemoveMeta, RemoveFiles, RemoveDir, ClearCur
<1>5. CASE ReadMeta \/ OpenMeta \/ FillMeta
  BY <1>5 DEF ReadMeta, OpenMeta, FillMeta
<1>6. CASE CountTurn \/ SavePlan \/ PrintPlan \/ OpenPlan \/ FillPlan \/ EndTask
  BY <1>6 DEF CountTurn, SavePlan, PrintPlan, OpenPlan, FillPlan, EndTask
<1>7. CASE Append \/ FillTraj \/ SetSteps \/ FillSteps
  BY <1>7 DEF Append, FillTraj, SetSteps, FillSteps
<1>8. CASE Crash
  BY <1>8 DEF Crash, Booting
<1>9. CASE UNCHANGED vars
  BY <1>9 DEF vars
<1> QED
  BY <1>1, <1>2, <1>3, <1>4, <1>5, <1>6, <1>7, <1>8, <1>9 DEF Next, Httpd, Button, Loop

(* A record of the current session has its type. *)
LEMMA CurMetaType ==
  ASSUME cur \in Ids, curGoal \in Ids, NEW n \in 0 .. MaxSteps
  PROVE  CurMeta(n) \in Metas /\ CurMeta(n).id = cur /\ CurMeta(n).steps = n
BY DEF CurMeta, Metas

LEMMA RetitledType ==
  ASSUME NEW m \in Metas PROVE Retitled(m) \in Metas /\ Retitled(m).steps = m.steps
BY DEF Retitled, Metas

LEMMA MetaFields ==
  ASSUME NEW m \in Metas PROVE m.id \in Ids /\ m.goal \in Ids /\ m.steps \in 0 .. MaxSteps
BY DEF Metas

(* Only a session that is on the card has files. *)
LEMMA OnCard ==
  ASSUME TypeOK, NEW s \in Ids, Readable(s) \/ plan[s] \in Ids \/ traj[s] # 0
  PROVE  s \in dirs
BY NotRecords, StoreAssumption DEF TypeOK, Readable

LEMMA TypeStep ==
  LockInv /\ MetaInv /\ PlaceInv /\ CardInv /\ [Next]_vars => CardType'
<1> SUFFICES ASSUME LockInv, MetaInv, PlaceInv, CardInv, [Next]_vars PROVE CardType'
  OBVIOUS
<1> USE NotRecords DEF CardInv, CardType, TypeOK, cardVars, curVars, planVars, runVars,
        webVars, loopVars, pastVars
<1>0. /\ 0 \in 0 .. MaxSteps /\ NoId \notin Ids /\ NoFile \notin Ids /\ Torn \notin Ids
      /\ "httpd" \in Tasks /\ "button" \in Tasks /\ "loop" \in Tasks
      /\ meta = [s \in Ids |-> meta[s]] /\ buf = [t \in Tasks |-> buf[t]]
  BY StoreAssumption DEF MetaInv, MetaType, Tasks
<1>1. CASE StartNew \/ StartOld \/ Delete \/ Rename \/ Press
  BY <1>0, <1>1 DEF StartNew, StartOld, Delete, Rename, Request, Press
<1>2. ASSUME NEW t \in {"httpd", "button"},
             \/ MakeDir(t) \/ OpenNewMeta(t) \/ FillNewMeta(t) \/ NewPlan(t)
             \/ Begin(t)
      PROVE  CardType'
  <2>0. t \in Tasks
    BY DEF Tasks
  <2>1. CASE MakeDir(t)
    BY <1>0, <2>0, <2>1 DEF MakeDir, NoSession, Done
  <2>2. CASE OpenNewMeta(t)
    BY <1>0, <2>0, <2>2 DEF OpenNewMeta, NewInv, Creating
  <2>3. CASE FillNewMeta(t)
    <3>1. cur \in Ids /\ cur \in dirs /\ CurMeta(0) \in Metas
      BY <1>0, <2>0, <2>3, CurMetaType DEF FillNewMeta, NewInv, Creating, MetaInv, CurOwn
    <3> QED
      BY <1>0, <2>3, <3>1 DEF FillNewMeta
  <2>4. CASE Begin(t)
    BY <1>0, <2>4 DEF Begin, Done
  <2>5. CASE NewPlan(t)
    BY <1>0, <2>5 DEF NewPlan, Proceed, Done
  <2> QED
    BY <1>2, <2>1, <2>2, <2>3, <2>4, <2>5
<1>3. CASE Load
  <2>1. CASE Readable(arg)
    <3>1. /\ arg \in Ids /\ meta[arg].id \in Ids /\ meta[arg].goal \in Ids
          /\ meta[arg].steps \in 0 .. MaxSteps
      BY <1>0, <1>3, <2>1, MetaFields DEF Load, Readable, MetaInv, ArgOwn, Named
    <3> QED
      BY <1>0, <1>3, <2>1, <3>1 DEF Load, Adopt
  <2>2. CASE ~Readable(arg)
    BY <1>0, <1>3, <2>2 DEF Load, Done
  <2> QED
    BY <2>1, <2>2
<1>4. CASE Fallback
  BY <1>0, <1>4 DEF Fallback
<1>5. CASE RemoveMeta \/ RemoveFiles \/ RemoveDir \/ ClearCur
  BY <1>0, <1>5 DEF RemoveMeta, RemoveFiles, RemoveDir, ClearCur, Done
<1>6. CASE ReadMeta
  BY <1>0, <1>6, RetitledType DEF ReadMeta, Readable, Done
<1>7. CASE OpenMeta \/ FillMeta
  BY <1>0, <1>7 DEF OpenMeta, FillMeta, Done, WebInv, Renaming
<1>8. CASE CountTurn \/ EndTask
  <2>1. agent' \in BOOLEAN
    BY <1>8, Zenon DEF CountTurn, EndTask
  <2>2. count' \in 0 .. MaxSteps
    BY <1>8, StoreAssumption DEF CountTurn, EndTask
  <2> QED
    BY <1>0, <1>8, <2>1, <2>2 DEF CountTurn, EndTask
<1>9. CASE SavePlan \/ PrintPlan \/ FillPlan
  BY <1>0, <1>9 DEF SavePlan, PrintPlan, FillPlan, Filled, TurnInv
<1>10. CASE Append \/ FillTraj
  BY <1>0, <1>10 DEF Append, FillTraj
<1>11. CASE SetSteps
  <2>1. CASE cur \in dirs
    <3>1. CurMeta(count) \in Metas
      BY <2>1, CurMetaType DEF MetaInv, CurOwn
    <3> QED
      BY <1>0, <1>11, <2>1, <3>1 DEF SetSteps
  <2>2. CASE cur \notin dirs
    BY <1>0, <1>11, <2>2 DEF SetSteps
  <2> QED
    BY <2>1, <2>2
<1>12. CASE FillSteps
  BY <1>0, <1>12, MetaFields DEF FillSteps, Filled, TurnInv
<1>13. CASE Crash
  <2>1. crashes' \in Nat
    BY <1>13 DEF Crash
  <2>2. agent' \in BOOLEAN
    BY <1>13, Zenon DEF Crash
  <2> QED
    BY <1>0, <1>13, <2>1, <2>2 DEF Crash
<1>14. CASE UNCHANGED vars
  BY <1>14 DEF vars
<1>15. CASE DropPlan \/ ReadPlan
  BY <1>0, <1>15 DEF DropPlan, ReadPlan, Proceed, Done
<1>16. CASE OpenPlan
  BY <1>0, <1>16 DEF OpenPlan
<1> QED
  BY <1>1, <1>2, <1>3, <1>4, <1>5, <1>6, <1>7, <1>8, <1>9, <1>10, <1>11, <1>12, <1>13, <1>14,
     <1>15, <1>16
     DEF Next, Httpd, Button, Loop

LEMMA CardStep ==
  LockInv /\ MetaInv /\ PlaceInv /\ CardInv /\ [Next]_vars => CardInv'
<1> SUFFICES ASSUME LockInv, MetaInv, PlaceInv, CardInv, [Next]_vars
             PROVE  NewInv' /\ WebInv' /\ TurnInv' /\ CurrentExists'
  BY TypeStep DEF CardInv
<1> USE NotRecords DEF NewInv, WebInv, TurnInv, CurrentExists, Renaming, Creating, Removing,
        Tasks, Go, Done, cardVars, curVars, planVars, runVars, webVars, loopVars, pastVars
<1>0. /\ CardType /\ NewInv /\ WebInv /\ TurnInv /\ CurrentExists /\ LockType /\ PlaceInv
      /\ NoId \notin Ids /\ NoFile \notin Ids /\ Torn \notin Ids /\ dirs \subseteq Ids
      /\ meta = [s \in Ids |-> meta[s]] /\ buf = [t \in Tasks |-> buf[t]]
  BY StoreAssumption DEF MetaInv, MetaType, CardInv, LockInv
<1>1. CASE StartNew \/ StartOld \/ Delete \/ Rename \/ Press
  BY <1>0, <1>1
     DEF StartNew, StartOld, Delete, Rename, Request, Press, LockType, PlaceInv, Readable
<1>2. ASSUME NEW t \in {"httpd", "button"},
             \/ MakeDir(t) \/ OpenNewMeta(t) \/ FillNewMeta(t) \/ NewPlan(t)
             \/ Begin(t)
      PROVE  NewInv' /\ WebInv' /\ TurnInv' /\ CurrentExists'
  <2>1. CASE MakeDir(t)
    BY <1>0, <2>1 DEF MakeDir, NoSession, LockType, PlaceInv, Readable, LockInv, CardType,
                      TypeOK, MutexReturned, Section
  <2>2. CASE OpenNewMeta(t)
    BY <1>0, <2>2 DEF OpenNewMeta, LockType, PlaceInv, Readable
  <2>3. CASE FillNewMeta(t)
    BY <1>0, <2>3 DEF FillNewMeta, LockType, PlaceInv, Readable, LockInv,
                      MutexReturned, Section
  <2>4. CASE Begin(t)
    BY <1>0, <2>4 DEF Begin, LockType, PlaceInv, Readable
  <2>5. CASE NewPlan(t)
    BY <1>0, <2>5 DEF NewPlan, Proceed, LockType, PlaceInv, Readable, LockInv,
                      MutexReturned, Section
  <2> QED
    BY <1>2, <2>1, <2>2, <2>3, <2>4, <2>5
<1>3. CASE Load
  BY <1>0, <1>3, OnCard DEF Load, Adopt, LockType, PlaceInv, Readable,
     CardType, MetaInv, ArgOwn, OwnMeta, Named, LockInv, MutexReturned, Section
<1>4. CASE Fallback
  BY <1>0, <1>4 DEF Fallback, LockType, PlaceInv, Readable
<1>5. CASE RemoveMeta \/ RemoveFiles
  BY <1>0, <1>5 DEF RemoveMeta, RemoveFiles, LockType, PlaceInv, Readable, AloneInv
<1>6. CASE RemoveDir
  BY <1>0, <1>6 DEF RemoveDir, LockType, PlaceInv, Readable
<1>7. CASE ClearCur
  BY <1>0, <1>7 DEF ClearCur, LockType, PlaceInv, Readable
<1>8. CASE ReadMeta
  BY <1>0, <1>8, RetitledType DEF ReadMeta, LockType, PlaceInv, Readable
<1>9. CASE OpenMeta \/ FillMeta
  BY <1>0, <1>9 DEF OpenMeta, FillMeta, LockType, PlaceInv, Readable
<1>10. CASE CountTurn \/ EndTask
  BY <1>0, <1>10 DEF CountTurn, EndTask, LockType, PlaceInv, Readable
<1>11. CASE SavePlan \/ PrintPlan \/ OpenPlan \/ FillPlan
  BY <1>0, <1>11 DEF SavePlan, PrintPlan, OpenPlan, FillPlan, LockType, PlaceInv, Readable, CardType, TypeOK
<1>12. CASE Append \/ FillTraj
  BY <1>0, <1>12 DEF Append, FillTraj, LockType, PlaceInv, Readable
<1>13. CASE SetSteps
  BY <1>0, <1>13, CurMetaType DEF SetSteps, LockType, PlaceInv, Readable, LockInv,
     MutexReturned, Section, CardType, TypeOK, MetaInv, CurOwn
<1>14. CASE FillSteps
  BY <1>0, <1>14 DEF FillSteps, LockType, PlaceInv, Readable, LockInv, MutexReturned, Section
<1>15. CASE Crash
  BY <1>15 DEF Crash, Booting
<1>16. CASE UNCHANGED vars
  BY <1>0, <1>16 DEF vars, LockType, Readable
<1>17. CASE DropPlan \/ ReadPlan
  BY <1>0, <1>17 DEF DropPlan, ReadPlan, Proceed, LockType, PlaceInv, Readable
<1> QED
  BY <1>1, <1>2, <1>3, <1>4, <1>5, <1>6, <1>7, <1>8, <1>9, <1>10, <1>11, <1>12, <1>13, <1>14,
     <1>15, <1>16, <1>17 DEF Next, Httpd, Button, Loop

(* All that is known of the state, before and after a step. *)
Known == LockInv /\ MetaInv /\ PlaceInv /\ CardInv

LEMMA KnownInit == Init => Known
<1> SUFFICES ASSUME Init PROVE Known
  OBVIOUS
<1>1. LockInv /\ MetaInv
  BY LockInit, MetaInit
<1>2. PlaceInv /\ NewInv /\ WebInv /\ TurnInv /\ CurrentExists
  BY DEF Init, Booting, PlaceInv, NewInv, WebInv, TurnInv, CurrentExists, Renaming,
         Creating, Removing, Tasks
<1>3. CardType
  <2>1. agent \in BOOLEAN
    BY Zenon DEF Init
  <2> QED
    BY <2>1, StoreAssumption DEF Init, CardType, TypeOK, Tasks
<1> QED
  BY <1>1, <1>2, <1>3 DEF Known, CardInv

LEMMA KnownStep == Known /\ [Next]_vars => Known'
<1>1. LockInv => LockType
  BY DEF LockInv
<1> QED
  BY <1>1, LockStep, MetaStep, PlaceStep, CardStep DEF Known

-----------------------------------------------------------------------------
(* START stays pressed. *)
LEMMA NotYetPressed == ASSUME [Next]_vars, ~pressed' PROVE ~pressed
BY DEF Next, StartNew, StartOld, Delete, Rename, Request, Press, Httpd, Button, Loop,
       MakeDir, OpenNewMeta, FillNewMeta, NewPlan, Load, DropPlan, ReadPlan, Begin,
       Fallback, RemoveMeta, RemoveFiles,
       RemoveDir, ClearCur, ReadMeta, OpenMeta, FillMeta, CountTurn, SavePlan, PrintPlan,
       OpenPlan, FillPlan, Append, FillTraj, SetSteps, FillSteps, EndTask, Crash, vars, pastVars

(* A deletion is not disturbed, nor is the record the loop is writing, and *)
(* every session is readable but those being written or removed.           *)
LEMMA UsableStep == Known /\ UsableInv /\ [Next]_vars => UsableInv'
<1> SUFFICES ASSUME Known, UsableInv, [Next]_vars, ~pressed' PROVE UsableInv'
  BY DEF UsableInv, AloneInv, Loadable
<1> USE NotRecords DEF UsableInv, AloneInv, Loadable, Go, Done,
        cardVars, curVars, planVars, runVars, webVars, loopVars, pastVars
<1>0. /\ CardType /\ NewInv /\ WebInv /\ TurnInv /\ LockType /\ PlaceInv /\ CurOwn
      /\ CurrentExists /\ ~pressed /\ NoId \notin Ids /\ dirs \subseteq Ids
      /\ meta = [s \in Ids |-> meta[s]] /\ buf = [t \in Tasks |-> buf[t]]
      /\ MutexReturned /\ AloneInv /\ Loadable
  <2>1. ~pressed
    BY NotYetPressed
  <2> QED
    BY <2>1, StoreAssumption DEF Known, MetaInv, MetaType, CardInv, LockInv
<1>1. CASE StartNew \/ StartOld \/ Delete \/ Rename \/ Press
  BY <1>0, <1>1 DEF StartNew, StartOld, Delete, Rename, Request, Press, LockType, PlaceInv,
     Tasks, Readable
<1>2. ASSUME NEW t \in {"httpd", "button"},
             \/ MakeDir(t) \/ OpenNewMeta(t) \/ FillNewMeta(t) \/ NewPlan(t)
             \/ Begin(t)
      PROVE  UsableInv'
  <2>0. t = "httpd"
    BY <1>0, <1>2 DEF MakeDir, OpenNewMeta, FillNewMeta, NewPlan, Begin, PlaceInv
  <2>1. CASE MakeDir(t)
    BY <1>0, <2>0, <2>1 DEF MakeDir, NoSession, LockType, PlaceInv, Tasks, Readable,
       MutexReturned, Section
  <2>2. CASE OpenNewMeta(t)
    BY <1>0, <2>0, <2>2 DEF OpenNewMeta, LockType, PlaceInv, Tasks, Readable,
       MutexReturned, Section
  <2>3. CASE FillNewMeta(t)
    <3>1. cur \in dirs
      BY <1>0, <2>0, <2>3 DEF FillNewMeta, NewInv, Creating, Tasks
    <3>2. CurMeta(0) \in Metas
      BY <1>0, <3>1, CurMetaType, StoreAssumption DEF CurOwn
    <3> QED
      BY <1>0, <2>0, <2>3, <3>1, <3>2 DEF FillNewMeta, LockType, PlaceInv, Tasks,
         Readable, MutexReturned, Section
  <2>4. CASE Begin(t)
    BY <1>0, <2>0, <2>4 DEF Begin, LockType, PlaceInv, Tasks, Readable
  <2>5. CASE NewPlan(t)
    BY <1>0, <2>0, <2>5 DEF NewPlan, Proceed, LockType, PlaceInv, Tasks, Readable
  <2> QED
    BY <1>2, <2>1, <2>2, <2>3, <2>4, <2>5
<1>3. CASE Load
  BY <1>0, <1>3 DEF Load, Adopt, LockType, PlaceInv, Tasks, Readable,
     MutexReturned, Section
<1>4. CASE Fallback
  BY <1>0, <1>4 DEF Fallback, LockType, PlaceInv, Tasks, Readable
<1>5. CASE RemoveMeta \/ RemoveFiles
  BY <1>0, <1>5 DEF RemoveMeta, RemoveFiles, LockType, PlaceInv, Tasks, Readable, WebInv,
     Removing, Renaming, CardType
<1>6. CASE RemoveDir
  BY <1>0, <1>6 DEF RemoveDir, LockType, PlaceInv, Tasks, Readable, Renaming
<1>7. CASE ClearCur
  BY <1>0, <1>7 DEF ClearCur, LockType, PlaceInv, Tasks, Readable, Renaming
<1>8. CASE ReadMeta
  BY <1>0, <1>8 DEF ReadMeta, LockType, PlaceInv, Tasks, Readable
<1>9. CASE OpenMeta \/ FillMeta
  <2>1. at["httpd"] \in Renaming /\ at["button"] = "idle" /\ arg \in dirs
        /\ at["httpd"] \notin Creating \cup Removing /\ buf["httpd"] \in Metas
    BY <1>0, <1>9 DEF OpenMeta, FillMeta, WebInv, PlaceInv, Renaming, Creating, Removing
  <2>2. CASE OpenMeta
    BY <1>0, <2>1, <2>2 DEF OpenMeta, LockType, PlaceInv, Tasks, Readable
  <2>3. CASE FillMeta
    BY <1>0, <2>1, <2>3 DEF FillMeta, LockType, PlaceInv, Tasks, Readable
  <2> QED
    BY <1>9, <2>2, <2>3
<1>10. CASE CountTurn \/ EndTask
  BY <1>0, <1>10 DEF CountTurn, EndTask, LockType, PlaceInv, Tasks, Readable
<1>11. CASE SavePlan \/ PrintPlan \/ OpenPlan \/ FillPlan
  BY <1>0, <1>11 DEF SavePlan, PrintPlan, OpenPlan, FillPlan, LockType, PlaceInv, Tasks, Readable, Renaming
<1>12. CASE Append \/ FillTraj
  BY <1>0, <1>12 DEF Append, FillTraj, LockType, PlaceInv, Tasks, Readable, Renaming
<1>13. CASE SetSteps
  <2>1. agent /\ at["httpd"] \in Renaming \cup {"idle", "readMeta"}
    BY <1>0, <1>13 DEF SetSteps, PlaceInv
  <2>2. cur \in dirs => CurMeta(count).id = cur
    BY <1>0 DEF CurMeta
  <2> QED
    BY <1>0, <1>13, <2>1, <2>2 DEF SetSteps, LockType, PlaceInv, Tasks, Readable, Renaming
<1>14. CASE FillSteps
  BY <1>0, <1>14 DEF FillSteps, Filled, LockType, PlaceInv, Tasks, Readable, TurnInv,
     Renaming
<1>15. CASE Crash
  <2>1. crashes' # 0
    BY <1>0, <1>15 DEF Crash, CardType
  <2> QED
    BY <2>1, <1>15 DEF Crash, Booting, Tasks
<1>16. CASE UNCHANGED vars
  BY <1>0, <1>16 DEF vars, Readable
<1>17. CASE DropPlan \/ ReadPlan
  BY <1>0, <1>17 DEF DropPlan, ReadPlan, Proceed, LockType, PlaceInv, Tasks, Readable
<1> QED
  BY <1>1, <1>2, <1>3, <1>4, <1>5, <1>6, <1>7, <1>8, <1>9, <1>10, <1>11, <1>12, <1>13, <1>14,
     <1>15, <1>16, <1>17 DEF Next, Httpd, Button, Loop

(* No record gets ahead of the trajectory.                                 *)
LEMMA StepsStep == Known /\ AloneInv /\ StepsInv /\ [Next]_vars => StepsInv'
<1> SUFFICES ASSUME Known, AloneInv, StepsInv, [Next]_vars, ~pressed' PROVE StepsInv'
  BY DEF StepsInv
<1> USE NotRecords DEF StepsInv, Trims, Go, Done, Tasks, Renaming, Creating, Loading,
        cardVars, curVars, planVars, runVars, webVars, loopVars, pastVars
<1>0. /\ TypeOK /\ NewInv /\ WebInv /\ TurnInv /\ LockType /\ PlaceInv /\ CurOwn
      /\ ~pressed /\ NoId \notin Ids /\ dirs \subseteq Ids /\ StepsInv /\ AloneInv
      /\ meta = [s \in Ids |-> meta[s]] /\ buf = [t \in Tasks |-> buf[t]]
      /\ traj = [s \in Ids |-> traj[s]] /\ MutexReturned /\ OwnMeta
      /\ \A m \in Metas : m.steps \in 0 .. MaxSteps
  <2>1. ~pressed
    BY NotYetPressed
  <2> QED
    BY <2>1, StoreAssumption, MetaFields
       DEF Known, MetaInv, MetaType, CardInv, CardType, LockInv
<1>1. CASE StartNew \/ StartOld \/ Delete \/ Rename \/ Press
  BY <1>0, <1>1 DEF StartNew, StartOld, Delete, Rename, Request, Press, LockType, PlaceInv,
     Readable
<1>2. ASSUME NEW t \in {"httpd", "button"},
             \/ MakeDir(t) \/ OpenNewMeta(t) \/ FillNewMeta(t) \/ NewPlan(t)
             \/ Begin(t)
      PROVE  StepsInv'
  <2>0. t = "httpd"
    BY <1>0, <1>2 DEF MakeDir, OpenNewMeta, FillNewMeta, NewPlan, Begin, PlaceInv
  <2>1. CASE MakeDir(t)
    BY <1>0, <2>0, <2>1 DEF MakeDir, NoSession, LockType, PlaceInv, Readable, TypeOK
  <2>2. CASE OpenNewMeta(t)
    BY <1>0, <2>0, <2>2 DEF OpenNewMeta, LockType, PlaceInv, Readable
  <2>3. CASE FillNewMeta(t)
    <3>1. CurMeta(0).steps = 0 /\ traj[cur] \in Nat
      BY <1>0, <2>0, <2>3 DEF CurMeta, FillNewMeta, NewInv, TypeOK
    <3> QED
      BY <1>0, <2>0, <2>3, <3>1 DEF FillNewMeta, LockType, PlaceInv, Readable
  <2>4. CASE Begin(t)
    BY <1>0, <2>0, <2>4 DEF Begin, LockType, PlaceInv, Readable, TypeOK
  <2>5. CASE NewPlan(t)
    BY <1>0, <2>0, <2>5 DEF NewPlan, Proceed, LockType, PlaceInv, Readable
  <2> QED
    BY <1>2, <2>1, <2>2, <2>3, <2>4, <2>5
<1>3. CASE Load
  <2>1. at["loop"] = "rest" /\ ~agent
    BY <1>0, <1>3 DEF Load, PlaceInv
  <2>2. CASE Readable(arg)
    <3>1. cur' = arg /\ curSteps' = meta[arg].steps /\ curSteps' \in Nat
      BY <1>0, <1>3, <2>2
         DEF Load, Adopt, Readable, OwnMeta, Known, MetaInv, ArgOwn, Named
    <3> QED
      BY <1>0, <1>3, <2>1, <2>2, <3>1 DEF Load, LockType, PlaceInv, Readable
  <2>3. CASE ~Readable(arg)
    BY <1>0, <1>3, <2>1, <2>3 DEF Load, LockType, Readable
  <2> QED
    BY <2>2, <2>3
<1>4. CASE Fallback
  BY <1>0, <1>4 DEF Fallback, LockType, PlaceInv, Readable
<1>5. CASE RemoveMeta \/ RemoveFiles
  BY <1>0, <1>5 DEF RemoveMeta, RemoveFiles, LockType, PlaceInv, Readable, AloneInv
<1>6. CASE RemoveDir
  BY <1>0, <1>6 DEF RemoveDir, LockType, PlaceInv, Readable
<1>7. CASE ClearCur
  BY <1>0, <1>7 DEF ClearCur, LockType, PlaceInv, Readable
<1>8. CASE ReadMeta
  BY <1>0, <1>8, RetitledType DEF ReadMeta, LockType, PlaceInv, Readable, WebInv
<1>9. CASE OpenMeta
  BY <1>0, <1>9 DEF OpenMeta, LockType, PlaceInv, Readable
<1>10. CASE FillMeta
  BY <1>0, <1>10 DEF FillMeta, LockType, PlaceInv, Readable
<1>11. CASE CountTurn \/ EndTask
  BY <1>0, <1>11 DEF CountTurn, EndTask, LockType, PlaceInv, Readable, TypeOK
<1>12. CASE SavePlan \/ PrintPlan \/ OpenPlan \/ FillPlan
  BY <1>0, <1>12 DEF SavePlan, PrintPlan, OpenPlan, FillPlan, LockType, PlaceInv, Readable
<1>13. CASE Append
  BY <1>0, <1>13 DEF Append, LockType, PlaceInv, Readable, TypeOK, WebInv
<1>14. CASE FillTraj
  BY <1>0, <1>14 DEF FillTraj, LockType, PlaceInv, Readable, TypeOK, WebInv, TurnInv
<1>15. CASE SetSteps
  <2>1. agent /\ at["httpd"] \in Renaming \cup {"idle", "readMeta"}
    BY <1>0, <1>15 DEF SetSteps, PlaceInv
  <2>2. CASE cur \in dirs
    <3>1. /\ CurMeta(count).steps = count /\ count \in Nat /\ curSteps \in Nat
          /\ curSteps <= count /\ traj[cur] = count
      BY <1>0, <1>15, <2>1, <2>2 DEF CurMeta, TypeOK, SetSteps
    <3>2. at["httpd"] \in Renaming => buf["httpd"].steps \in Nat
      BY <1>0 DEF WebInv
    <3> QED
      BY <1>0, <1>15, <2>1, <2>2, <3>1, <3>2 DEF SetSteps, LockType, Readable
  <2>3. CASE cur \notin dirs
    BY <1>0, <1>15, <2>1, <2>3 DEF SetSteps, LockType, Readable
  <2> QED
    BY <2>2, <2>3
<1>16. CASE FillSteps
  <2>1. agent /\ at["httpd"] \in Renaming \cup {"idle", "readMeta"} /\ count \in Nat
    BY <1>0, <1>16 DEF FillSteps, PlaceInv, TypeOK
  <2>2. buf["loop"] \in Metas /\ buf["loop"].id = cur /\ buf["loop"].steps = count
        /\ traj[cur] = count /\ curSteps = count /\ meta[cur] # NoFile
    BY <1>0, <1>16 DEF FillSteps, TurnInv, AloneInv
  <2> QED
    BY <1>0, <1>16, <2>1, <2>2 DEF FillSteps, Filled, LockType, Readable
<1>17. CASE Crash
  BY <1>0, <1>17, StoreAssumption DEF Crash, Booting, Readable, TypeOK, TurnInv
<1>18. CASE UNCHANGED vars
  BY <1>0, <1>18 DEF vars, Readable
<1>19. CASE DropPlan \/ ReadPlan
  BY <1>0, <1>19 DEF DropPlan, ReadPlan, Proceed, LockType, PlaceInv, Readable
<1> QED
  BY <1>1, <1>2, <1>3, <1>4, <1>5, <1>6, <1>7, <1>8, <1>9, <1>10, <1>11, <1>12, <1>13, <1>14,
     <1>15, <1>16, <1>17, <1>18, <1>19 DEF Next, Httpd, Button, Loop

(* Without the button, no plan gets into another session's directory.      *)
LEMMA PlanStep == Known /\ PlanInv /\ [Next]_vars => PlanInv'
<1> SUFFICES ASSUME Known, PlanInv, [Next]_vars, ~pressed' PROVE PlanInv'
  BY DEF PlanInv
<1> USE DEF PlanInv, Go, Done, Tasks, Loading, Renaming, cardVars, curVars, planVars, runVars,
        webVars, loopVars, pastVars
<1>0. /\ TypeOK /\ LockType /\ PlaceInv /\ OwnMeta /\ ArgOwn /\ NoFile \notin Ids /\ NewInv
      /\ Torn \notin Ids /\ plan = [s \in Ids |-> plan[s]] /\ TurnInv /\ ~pressed
      /\ dirs \subseteq Ids
  BY NotYetPressed, StoreAssumption DEF Known, LockInv, MetaInv, MetaType, CardInv, CardType
<1>1. CASE StartNew \/ StartOld \/ Delete \/ Rename \/ Press
  BY <1>0, <1>1 DEF StartNew, StartOld, Delete, Rename, Request, Press, LockType
<1>2. ASSUME NEW t \in {"httpd", "button"},
             \/ MakeDir(t) \/ OpenNewMeta(t) \/ FillNewMeta(t) \/ NewPlan(t)
             \/ Begin(t)
      PROVE  PlanInv'
  <2>0. t = "httpd" /\ at["loop"] \in {"rest", at'["loop"]} /\ at'["loop"] = at["loop"]
    BY <1>0, <1>2 DEF MakeDir, NoSession, OpenNewMeta, FillNewMeta, NewPlan, Begin, Proceed,
                      PlaceInv, LockType
  <2>1. CASE MakeDir(t)
    BY <1>0, <2>0, <2>1 DEF MakeDir, NoSession, LockType
  <2>2. CASE OpenNewMeta(t) \/ Begin(t)
    BY <1>0, <2>0, <2>2 DEF OpenNewMeta, Begin, LockType
  <2>3. CASE FillNewMeta(t)
    <3>1. at["loop"] = "rest" /\ cur \in Ids
      BY <1>0, <2>0, <2>3 DEF FillNewMeta, PlaceInv, NewInv, Creating
    <3> QED BY <1>0, <2>0, <2>3, <3>1 DEF FillNewMeta, LockType
  <2>4. CASE NewPlan(t)
    <3>1. /\ at["httpd"] = "newPlan" /\ cur \in Ids /\ planDir = cur
          /\ planMem' = cur /\ UNCHANGED <<planDir, plan, file, planBuf, cur>>
      BY <1>0, <2>0, <2>4, StoreAssumption DEF NewPlan
    <3>2. at'["httpd"] \in {"beginNew", "beginOld", "idle"}
      BY <1>0, <2>0, <2>4 DEF NewPlan, Proceed, LockType
    <3>3. at["loop"] = "rest" /\ at'["loop"] = "rest"
      BY <1>0, <2>0, <3>1 DEF PlaceInv
    <3> QED BY <1>0, <3>1, <3>2, <3>3
  <2> QED
    BY <1>2, <2>1, <2>2, <2>3, <2>4
<1>3. CASE Load
  <2>1. at["loop"] = "rest"
    BY <1>0, <1>3 DEF Load, PlaceInv
  <2>2. Readable(arg) => meta[arg].id = arg /\ arg \in Ids
    BY <1>0, <1>3 DEF Load, OwnMeta, ArgOwn, Named
  <2> QED
    BY <1>0, <1>3, <2>1, <2>2 DEF Load, LockType
<1>4. CASE Fallback \/ RemoveMeta \/ RemoveFiles \/ RemoveDir \/ ClearCur
  BY <1>0, <1>4 DEF Fallback, RemoveMeta, RemoveFiles, RemoveDir, ClearCur, LockType
<1>5. CASE ReadMeta \/ OpenMeta \/ FillMeta
  BY <1>0, <1>5 DEF ReadMeta, OpenMeta, FillMeta, LockType
<1>6. CASE CountTurn \/ EndTask
  BY <1>0, <1>6 DEF CountTurn, EndTask, LockType
<1>7. CASE SavePlan \/ PrintPlan
  <2>1. at["httpd"] \in Renaming \cup {"idle", "readMeta"}
    BY <1>0, <1>7 DEF SavePlan, PrintPlan, PlaceInv
  <2> QED
    BY <1>0, <1>7, <2>1 DEF SavePlan, PrintPlan, LockType
<1>8. CASE OpenPlan \/ FillPlan
  BY <1>0, <1>8 DEF OpenPlan, FillPlan, Filled, LockType, TurnInv
<1>9. CASE Append \/ FillTraj \/ SetSteps \/ FillSteps
  BY <1>0, <1>9 DEF Append, FillTraj, SetSteps, FillSteps, LockType
<1>10. CASE DropPlan
  BY <1>0, <1>10 DEF DropPlan, LockType
<1>11. CASE ReadPlan
  <2>1. planDir \in Ids /\ plan[planDir] \in {planDir, NoFile, Torn}
    BY <1>0, <1>11 DEF ReadPlan
  <2> QED
    BY <1>0, <1>11, <2>1 DEF ReadPlan, Proceed, LockType, PlaceInv
<1>12. CASE Crash
  BY <1>0, <1>12 DEF Crash, Booting
<1>13. CASE UNCHANGED vars
  BY <1>0, <1>13 DEF vars
<1> QED
  BY <1>1, <1>2, <1>3, <1>4, <1>5, <1>6, <1>7, <1>8, <1>9, <1>10, <1>11, <1>12, <1>13
     DEF Next, Httpd, Button, Loop

-----------------------------------------------------------------------------
LEMMA StoreInit == Init => UsableInv /\ StepsInv /\ PlanInv
BY NotRecords, StoreAssumption
   DEF Init, Booting, Tasks, UsableInv, AloneInv, Loadable, StepsInv, PlanInv, Renaming,
       Creating, Loading, Trims, Readable

LEMMA UsableAlone == UsableInv => AloneInv
BY DEF UsableInv

(* The card stays usable: the current session is on it, and without a loss *)
(* of power or a press of START every session can be read, except the one  *)
(* that is being written or deleted.                                       *)
THEOREM CardAlwaysUsable == Spec => []CardUsable
<1>1. Known /\ UsableInv => CardUsable
  BY DEF Known, CardInv, CardType, UsableInv, CardUsable
<1> QED
  BY <1>1, KnownInit, KnownStep, StoreInit, UsableStep, PTL DEF Spec

(* Without the button, no step counter on the card is ahead of the turns   *)
(* recorded with it, through renames, trims and losses of power            *)
(* (agent_record_turn, session_mgr_rename).                                *)
THEOREM StepsNeverAhead == Spec => []StepsHaveTurns
<1>1. StepsInv => StepsHaveTurns
  BY DEF StepsInv, StepsHaveTurns, Trims
<1> QED
  BY <1>1, KnownInit, KnownStep, StoreInit, UsableStep, UsableAlone, StepsStep, PTL DEF Spec

(* Without the button, a plan.json is that of the session it lies with     *)
(* (plan_mgr_load, _save).                                                 *)
THEOREM PlansBelong == Spec => [](~pressed => PlanBelongs)
<1>1. PlanInv => (~pressed => PlanBelongs)
  BY DEF PlanInv, PlanBelongs
<1> QED
  BY <1>1, KnownInit, KnownStep, StoreInit, PlanStep, PTL DEF Spec

(* However sessions are switched, created, renamed and deleted, and        *)
(* whenever power is lost, a record on the card is that of its session,    *)
(* and so is a plan as long as START was not pressed (session_manager.c,   *)
(* plan_manager.c).                                                        *)
THEOREM FilesAlwaysBelong == Spec => []FilesBelong
<1>1. OwnMeta /\ (~pressed => PlanBelongs) => FilesBelong
  BY DEF FilesBelong
<1> QED
  BY <1>1, MetaOwned, PlansBelong, PTL

-----------------------------------------------------------------------------
(* StorePromise.  Without the button: the session a task works on can be       *)
(* listed, the turns counted are those in memory, one ahead of them from the   *)
(* count to the record, what a rename writes back is not ahead of what is      *)
(* there, and a session that is new or being trimmed has no turns.             *)
Ahead == {"savePlan", "printPlan", "openPlan", "fillPlan", "append", "fillTraj", "setSteps"}
KeepInv ==
  ~pressed =>
    /\ agent \/ at["httpd"] \in Loading \cup {"newPlan", "beginNew", "beginOld"}
         => cur \in Listed
    /\ agent => count = IF at["loop"] \in Ahead THEN curSteps + 1 ELSE curSteps
    /\ at["httpd"] \in Renaming /\ Readable(arg) => buf["httpd"].steps <= meta[arg].steps
    /\ at["httpd"] = "openMeta" => arg \in Listed
    /\ at["httpd"] \in Creating => traj[cur] = 0
    /\ at["loop"] = "fillTraj" => traj[file] = 0

LEMMA KeepStep == Known /\ AloneInv /\ StepsInv /\ KeepInv /\ [Next]_vars => KeepInv'
<1> SUFFICES ASSUME Known, AloneInv, StepsInv, KeepInv, [Next]_vars, ~pressed' PROVE KeepInv'
  BY DEF KeepInv
<1> USE NotRecords DEF KeepInv, Ahead, Go, Done, Tasks, Renaming, Creating, Loading, Listed,
        SavesSteps, Retitles, cardVars, curVars, planVars, runVars, webVars, loopVars, pastVars
<1>0. /\ TypeOK /\ NewInv /\ WebInv /\ TurnInv /\ LockType /\ PlaceInv /\ CurOwn
      /\ ~pressed /\ NoId \notin Ids /\ dirs \subseteq Ids /\ StepsInv /\ AloneInv
      /\ meta = [s \in Ids |-> meta[s]] /\ buf = [t \in Tasks |-> buf[t]]
      /\ traj = [s \in Ids |-> traj[s]] /\ MutexReturned /\ OwnMeta
      /\ \A m \in Metas : m.steps \in 0 .. MaxSteps
  BY NotYetPressed, StoreAssumption, MetaFields
     DEF Known, MetaInv, MetaType, CardInv, CardType, LockInv
<1>1. CASE StartNew \/ StartOld \/ Delete \/ Rename \/ Press
  BY <1>0, <1>1 DEF StartNew, StartOld, Delete, Rename, Request, Press, LockType, PlaceInv,
     Readable
<1>2. ASSUME NEW t \in {"httpd", "button"},
             \/ MakeDir(t) \/ OpenNewMeta(t) \/ FillNewMeta(t) \/ NewPlan(t)
             \/ Begin(t)
      PROVE  KeepInv'
  <2>0. t = "httpd"
    BY <1>0, <1>2 DEF MakeDir, OpenNewMeta, FillNewMeta, NewPlan, Begin, PlaceInv
  <2>1. CASE MakeDir(t)
    BY <1>0, <2>0, <2>1 DEF MakeDir, NoSession, LockType, PlaceInv, Readable, TypeOK
  <2>2. CASE OpenNewMeta(t)
    BY <1>0, <2>0, <2>2 DEF OpenNewMeta, LockType, PlaceInv, Readable, NewInv
  <2>3. CASE FillNewMeta(t)
    <3>1. cur \in dirs /\ cur \in Ids
      BY <1>0, <2>0, <2>3 DEF FillNewMeta, NewInv
    <3>2. CurMeta(0) \in Metas
      BY <1>0, <3>1, CurMetaType, StoreAssumption DEF CurOwn
    <3> QED
      BY <1>0, <2>0, <2>3, <3>1, <3>2 DEF FillNewMeta, LockType, PlaceInv, Readable
  <2>4. CASE Begin(t)
    BY <1>0, <2>0, <2>4 DEF Begin, LockType, PlaceInv, Readable, StepsInv, TypeOK
  <2>5. CASE NewPlan(t)
    BY <1>0, <2>0, <2>5 DEF NewPlan, Proceed, LockType, PlaceInv, Readable
  <2> QED
    BY <1>2, <2>1, <2>2, <2>3, <2>4, <2>5
<1>3. CASE Load
  <2>1. at["loop"] = "rest" /\ ~agent
    BY <1>0, <1>3 DEF Load, PlaceInv
  <2>2. CASE Readable(arg)
    <3>1. arg \in Ids /\ cur' = arg /\ arg \in dirs
      BY <1>0, <1>3, <2>2, OnCard
         DEF Load, Adopt, Readable, OwnMeta, Known, MetaInv, ArgOwn, Named
    <3> QED
      BY <1>0, <1>3, <2>1, <2>2, <3>1 DEF Load, LockType, PlaceInv, Readable
  <2>3. CASE ~Readable(arg)
    BY <1>0, <1>3, <2>1, <2>3 DEF Load, LockType, Readable
  <2> QED
    BY <2>2, <2>3
<1>4. CASE Fallback
  BY <1>0, <1>4 DEF Fallback, LockType, PlaceInv, Readable
<1>5. CASE RemoveMeta \/ RemoveFiles \/ RemoveDir \/ ClearCur
  BY <1>0, <1>5 DEF RemoveMeta, RemoveFiles, RemoveDir, ClearCur, LockType, PlaceInv, Readable
<1>6. CASE ReadMeta
  BY <1>0, <1>6, RetitledType DEF ReadMeta, LockType, PlaceInv, Readable, WebInv
<1>7. CASE OpenMeta
  BY <1>0, <1>7 DEF OpenMeta, LockType, PlaceInv, Readable, WebInv
<1>8. CASE FillMeta
  BY <1>0, <1>8 DEF FillMeta, LockType, PlaceInv, Readable, WebInv
<1>9. CASE CountTurn \/ EndTask
  BY <1>0, <1>9 DEF CountTurn, EndTask, LockType, PlaceInv, Readable, TypeOK
<1>10. CASE SavePlan \/ PrintPlan \/ OpenPlan \/ FillPlan
  BY <1>0, <1>10 DEF SavePlan, PrintPlan, OpenPlan, FillPlan, LockType, PlaceInv, Readable
<1>11. CASE Append
  BY <1>0, <1>11 DEF Append, LockType, PlaceInv, Readable, TypeOK, WebInv
<1>12. CASE FillTraj
  BY <1>0, <1>12 DEF FillTraj, LockType, PlaceInv, Readable, TypeOK, WebInv, TurnInv
<1>13. CASE SetSteps
  <2>1. /\ agent /\ at["httpd"] \in Renaming \cup {"idle", "readMeta"}
        /\ cur \in dirs /\ cur \in Ids
    BY <1>0, <1>13 DEF SetSteps, PlaceInv
  <2>2. CurMeta(count).id = cur
    BY DEF CurMeta
  <2> QED
    BY <1>0, <1>13, <2>1, <2>2 DEF SetSteps, LockType, Readable, WebInv, TypeOK
<1>14. CASE FillSteps
  <2>1. agent /\ at["httpd"] \in Renaming \cup {"idle", "readMeta"} /\ count \in Nat
    BY <1>0, <1>14 DEF FillSteps, PlaceInv, TypeOK
  <2>2. /\ buf["loop"] \in Metas /\ buf["loop"].id = cur /\ buf["loop"].steps = count
        /\ curSteps = count /\ meta[cur] # NoFile /\ cur \in dirs
        /\ at["httpd"] \in Renaming /\ arg = cur => buf["httpd"].steps <= curSteps
    BY <1>0, <1>14 DEF FillSteps, TurnInv, AloneInv, StepsInv
  <2>3. /\ at \in [Tasks -> Places] /\ buf = [t \in Tasks |-> buf[t]]
        /\ meta = [s \in Ids |-> meta[s]] /\ dirs \subseteq Ids /\ cur \in Ids /\ at["loop"] = "fillSteps"
    BY <1>0, <1>14, <2>2 DEF FillSteps, LockType
  <2>4. /\ meta' = [meta EXCEPT ![cur] = buf["loop"]]
        /\ at' = [at EXCEPT !["loop"] = "rest"] /\ buf' = [buf EXCEPT !["loop"] = NoFile]
        /\ UNCHANGED <<dirs, traj, cur, curSteps, agent, count, arg, pressed>>
    BY <1>14, <2>2, <2>3 DEF FillSteps, Filled
  <2>5. /\ meta'[cur] = buf["loop"] /\ \A s \in Ids : s # cur => meta'[s] = meta[s]
        /\ at'["httpd"] = at["httpd"] /\ at'["loop"] = "rest" /\ buf'["httpd"] = buf["httpd"]
    BY <2>3, <2>4
  <2>6. cur' \in Listed'
    BY <2>2, <2>4, <2>5 DEF Readable
  <2>7. at'["httpd"] \in Renaming /\ Readable(arg)' => buf'["httpd"].steps <= meta'[arg'].steps
    <3>1. CASE arg = cur
      BY <2>2, <2>4, <2>5, <3>1
    <3>2. CASE arg # cur /\ at["httpd"] \in Renaming
      <4>1. arg \in Ids
        BY <1>0, <2>3, <3>2 DEF WebInv
      <4>2. meta'[arg] = meta[arg]
        BY <2>5, <3>2, <4>1
      <4> QED BY <1>0, <2>4, <2>5, <3>2, <4>2 DEF Readable
    <3> QED BY <2>5, <3>1, <3>2
  <2>8. at'["httpd"] = "openMeta" => arg' \in Listed'
    <3>1. CASE arg = cur
      BY <2>4, <2>6, <3>1
    <3>2. CASE arg # cur /\ at["httpd"] = "openMeta"
      <4>1. arg \in dirs /\ Readable(arg)
        BY <1>0, <2>2, <3>2
      <4>2. meta'[arg] = meta[arg]
        BY <2>3, <2>5, <3>2, <4>1
      <4> QED BY <2>4, <4>1, <4>2 DEF Readable
    <3> QED BY <2>5, <3>1, <3>2
  <2>9. at'["httpd"] \notin Creating \cup Loading \cup {"newPlan"}
    BY <2>1, <2>5
  <2>10. agent' /\ at'["httpd"] \notin {"beginNew", "beginOld"} /\ count' = curSteps'
    BY <2>1, <2>2, <2>4, <2>5
  <2> QED
    BY <2>4, <2>5, <2>6, <2>7, <2>8, <2>9, <2>10
<1>15. CASE Crash
  BY <1>0, <1>15, StoreAssumption DEF Crash, Booting, Readable, TypeOK
<1>16. CASE UNCHANGED vars
  BY <1>0, <1>16 DEF vars, Readable
<1>17. CASE DropPlan \/ ReadPlan
  BY <1>0, <1>17 DEF DropPlan, ReadPlan, Proceed, LockType, PlaceInv, Readable
<1> QED
  BY <1>1, <1>2, <1>3, <1>4, <1>5, <1>6, <1>7, <1>8, <1>9, <1>10, <1>11, <1>12, <1>13, <1>14,
     <1>15, <1>16, <1>17 DEF Next, Httpd, Button, Loop

-----------------------------------------------------------------------------
(* Every step of the files is a step of StorePromise, or cannot be seen there. *)
Unseen == UNCHANGED <<Listed, Counters, Turns, Current, Reached, Saving, Retitling>>

\* What the lemmas below assume: all that is known without the button.
Alone == Known /\ AloneInv /\ StepsInv /\ KeepInv /\ ~pressed

LEMMA AloneFacts ==
  ASSUME Alone
  PROVE  /\ TypeOK /\ NewInv /\ WebInv /\ TurnInv /\ LockType /\ PlaceInv /\ CurOwn /\ ArgOwn
         /\ NoId \notin Ids /\ dirs \subseteq Ids /\ StepsInv /\ AloneInv /\ KeepInv
         /\ meta = [s \in Ids |-> meta[s]] /\ buf = [t \in Tasks |-> buf[t]]
         /\ traj = [s \in Ids |-> traj[s]] /\ OwnMeta
         /\ \A m \in Metas : m.steps \in 0 .. MaxSteps
BY StoreAssumption, MetaFields DEF Alone, Known, MetaInv, MetaType, CardInv, CardType, LockInv

(* What StorePromise sees of httpd and of the loop is where they write. *)
LEMMA NothingSeen ==
  ASSUME UNCHANGED <<dirs, meta, traj, kept, cur, curSteps>>,
         \/ UNCHANGED <<at["loop"], buf["loop"], file, count>>
         \/ {at["loop"], at'["loop"]} \cap {"fillTraj", "setSteps", "fillSteps"} = {},
         \/ UNCHANGED <<at["httpd"], buf["httpd"], arg>>
         \/ "fillMeta" \notin {at["httpd"], at'["httpd"]}
  PROVE  Unseen
<1> USE DEF SavesSteps, Retitles, Trims, StepsOf, Readable
<1>1. Listed' = Listed
  BY DEF Listed
<1>2. ASSUME NEW s \in Ids, s \in Listed
      PROVE  /\ StepsOf(s)' = StepsOf(s)
             /\ (IF Trims(s) THEN kept ELSE traj[s])' = (IF Trims(s) THEN kept ELSE traj[s])
  BY <1>2 DEF Listed
<1>3. Counters' = Counters /\ Turns' = Turns
  BY <1>1, <1>2, Zenon DEF Counters, Turns
<1>4. Current' = Current
  BY <1>1 DEF Current
<1>5. Reached' = Reached /\ Saving' = Saving /\ Retitling' = Retitling
  BY <1>4 DEF Reached, Saving, Retitling
<1> QED BY <1>1, <1>3, <1>4, <1>5 DEF Unseen

LEMMA PlacesUnseen ==
  ASSUME Alone, StartNew \/ StartOld \/ Delete \/ Rename \/ Fallback \/ Begin("httpd")
                \/ NewPlan("httpd") \/ DropPlan \/ ReadPlan \/ ReadMeta \/ CountTurn
                \/ SavePlan \/ PrintPlan \/ OpenPlan \/ FillPlan \/ EndTask
  PROVE  Unseen
<1> USE AloneFacts DEF LockType, Tasks, Go, Done, cardVars, curVars, runVars, loopVars, webVars
<1>1. UNCHANGED <<dirs, meta, traj, kept, cur, curSteps>>
  BY DEF StartNew, StartOld, Delete, Rename, Request, Fallback, Begin, NewPlan, DropPlan,
         ReadPlan, Proceed, ReadMeta, CountTurn, SavePlan, PrintPlan, OpenPlan, FillPlan, EndTask
<1>2. \/ UNCHANGED <<at["loop"], buf["loop"], file, count>>
      \/ {at["loop"], at'["loop"]} \cap {"fillTraj", "setSteps", "fillSteps"} = {}
  <2>1. CASE StartNew \/ StartOld \/ Delete \/ Rename
    BY <2>1 DEF StartNew, StartOld, Delete, Rename, Request
  <2>2. CASE Fallback \/ ReadMeta
    BY <2>2 DEF Fallback, ReadMeta
  <2>3. CASE Begin("httpd") \/ NewPlan("httpd") \/ DropPlan \/ ReadPlan
    <3>1. at["loop"] = "rest" /\ at'["loop"] = "rest"
      BY <2>3 DEF Begin, NewPlan, DropPlan, ReadPlan, Proceed, PlaceInv, Renaming, Alone
    <3> QED BY <3>1
  <2>4. CASE CountTurn \/ SavePlan \/ PrintPlan \/ OpenPlan \/ FillPlan \/ EndTask
    BY <2>4 DEF CountTurn, SavePlan, PrintPlan, OpenPlan, FillPlan, EndTask
  <2> QED BY <2>1, <2>2, <2>3, <2>4
<1>3. \/ UNCHANGED <<at["httpd"], buf["httpd"], arg>>
      \/ "fillMeta" \notin {at["httpd"], at'["httpd"]}
  <2>1. CASE StartNew \/ StartOld \/ Delete \/ Rename
    BY <2>1 DEF StartNew, StartOld, Delete, Rename, Request
  <2>2. CASE Fallback \/ ReadMeta \/ Begin("httpd")
    BY <2>2 DEF Fallback, ReadMeta, Begin
  <2>4. CASE NewPlan("httpd") \/ DropPlan \/ ReadPlan
    BY <2>4 DEF NewPlan, DropPlan, ReadPlan, Proceed
  <2>3. CASE CountTurn \/ SavePlan \/ PrintPlan \/ OpenPlan \/ FillPlan \/ EndTask
    BY <2>3 DEF CountTurn, SavePlan, PrintPlan, OpenPlan, FillPlan, EndTask
  <2> QED BY <2>1, <2>2, <2>3, <2>4
<1> QED BY <1>1, <1>2, <1>3, NothingSeen

(* What StorePromise sees of each session, and that nothing else distinguishes *)
(* two states of its counters or of its turns.                                 *)
SeenAs ==
  /\ Counters = [s \in Ids |-> Counters[s]] /\ Turns = [s \in Ids |-> Turns[s]]
  /\ Listed = {s \in dirs : \/ meta[s] \in Metas
                            \/ at["loop"] = "fillSteps" /\ buf["loop"].id = s
                            \/ at["httpd"] = "fillMeta" /\ arg = s}
  /\ \A s \in Ids : Counters[s] =
       IF s \notin Listed THEN 0
       ELSE IF at["loop"] = "fillSteps" /\ buf["loop"].id = s THEN buf["loop"].steps
       ELSE IF meta[s] \in Metas THEN meta[s].steps ELSE buf["httpd"].steps
  /\ \A s \in Ids : Turns[s] =
       IF s \notin Listed THEN 0
       ELSE IF at["loop"] = "fillTraj" /\ file = s THEN kept ELSE traj[s]
  /\ Current = IF cur \in Listed THEN cur ELSE NoId
  /\ Reached = IF Current = NoId THEN 0
               ELSE IF at["loop"] = "setSteps" THEN count ELSE curSteps
  /\ Saving = IF at["loop"] = "fillTraj" THEN file
              ELSE IF at["loop"] = "fillSteps" THEN buf["loop"].id ELSE NoId
  /\ Retitling = IF at["httpd"] = "fillMeta" THEN arg ELSE NoId

LEMMA Seen == SeenAs
<1>1. Listed = {s \in dirs : \/ meta[s] \in Metas
                             \/ at["loop"] = "fillSteps" /\ buf["loop"].id = s
                             \/ at["httpd"] = "fillMeta" /\ arg = s}
  BY DEF Listed, Readable, SavesSteps, Retitles
<1>2. ASSUME NEW s \in Ids
      PROVE  /\ Counters[s] =
                  IF s \notin Listed THEN 0
                  ELSE IF at["loop"] = "fillSteps" /\ buf["loop"].id = s THEN buf["loop"].steps
                  ELSE IF meta[s] \in Metas THEN meta[s].steps ELSE buf["httpd"].steps
             /\ Turns[s] =
                  IF s \notin Listed THEN 0
                  ELSE IF at["loop"] = "fillTraj" /\ file = s THEN kept ELSE traj[s]
  BY DEF Counters, Turns, StepsOf, SavesSteps, Readable, Trims
<1>3. Counters = [s \in Ids |-> Counters[s]] /\ Turns = [s \in Ids |-> Turns[s]]
  BY DEF Counters, Turns
<1>4. /\ Current = IF cur \in Listed THEN cur ELSE NoId
      /\ Reached = IF Current = NoId THEN 0
                   ELSE IF at["loop"] = "setSteps" THEN count ELSE curSteps
      /\ Saving = IF at["loop"] = "fillTraj" THEN file
                  ELSE IF at["loop"] = "fillSteps" THEN buf["loop"].id ELSE NoId
      /\ Retitling = IF at["httpd"] = "fillMeta" THEN arg ELSE NoId
  BY DEF Current, Reached, Saving, Retitling
<1> QED BY <1>1, <1>2, <1>3, <1>4 DEF SeenAs

LEMMA SeenNext == SeenAs'
BY Seen, PTL

(* While no file that counts is being written, StorePromise is what the files say. *)
Resting == /\ at["loop"] \notin {"fillTraj", "setSteps", "fillSteps"}
           /\ at["httpd"] # "fillMeta"
RestingView ==
  /\ Listed = {s \in dirs : meta[s] \in Metas}
  /\ Counters = [s \in Ids |-> IF s \in Listed THEN meta[s].steps ELSE 0]
  /\ Turns = [s \in Ids |-> IF s \in Listed THEN traj[s] ELSE 0]
  /\ Current = IF cur \in Listed THEN cur ELSE NoId
  /\ Reached = IF Current = NoId THEN 0 ELSE curSteps
  /\ Saving = NoId /\ Retitling = NoId

LEMMA RestingSeen == Resting => RestingView
<1> SUFFICES ASSUME Resting PROVE RestingView
  OBVIOUS
<1>1. Listed = {s \in dirs : meta[s] \in Metas}
  BY Seen DEF SeenAs, Resting
<1>2. Counters = [s \in Ids |-> IF s \in Listed THEN meta[s].steps ELSE 0]
  BY <1>1, Seen DEF SeenAs, Resting
<1>3. Turns = [s \in Ids |-> IF s \in Listed THEN traj[s] ELSE 0]
  BY Seen DEF SeenAs, Resting
<1> QED BY <1>1, <1>2, <1>3, Seen DEF SeenAs, Resting, RestingView

LEMMA RestingNext == Resting' => RestingView'
BY RestingSeen, PTL

\* The page's requests, but for a new title, come while the loop rests.
LEMMA PageRests ==
  ASSUME Alone, MakeDir("httpd") \/ OpenNewMeta("httpd") \/ FillNewMeta("httpd") \/ Load
                \/ RemoveMeta \/ RemoveFiles \/ RemoveDir \/ ClearCur
  PROVE  /\ RestingView /\ RestingView'
         /\ at["loop"] = "rest" /\ ~agent
<1>1. at["loop"] = "rest" /\ at'["loop"] = "rest" /\ ~agent
      /\ "fillMeta" \notin {at["httpd"], at'["httpd"]}
  BY AloneFacts DEF Alone, MakeDir, NoSession, OpenNewMeta, FillNewMeta, Load, RemoveMeta,
     RemoveFiles, RemoveDir, ClearCur, Proceed, Done, Go, PlaceInv, Renaming, LockType, Tasks
<1> QED BY <1>1, RestingSeen, RestingNext DEF Resting

LEMMA SameRecords ==
  ASSUME RestingView, RestingView',
         \A s \in Ids : (IF s \in Listed THEN meta[s].steps ELSE 0)
                        = (IF s \in Listed' THEN meta'[s].steps ELSE 0),
         \A s \in Ids : (IF s \in Listed THEN traj[s] ELSE 0)
                        = (IF s \in Listed' THEN traj'[s] ELSE 0)
  PROVE  UNCHANGED <<Counters, Turns, Saving, Retitling>>
<1>1. Counters' = Counters
  BY Zenon DEF RestingView
<1>2. Turns' = Turns
  BY Zenon DEF RestingView
<1>3. Saving' = Saving /\ Retitling' = Retitling
  BY DEF RestingView
<1> QED BY <1>1, <1>2, <1>3

LEMMA RemovalUnseen ==
  ASSUME Alone, RemoveFiles \/ RemoveDir \/ ClearCur \/ OpenNewMeta("httpd")
  PROVE  Unseen
<1> USE AloneFacts
<1>1. RestingView /\ RestingView'
  BY PageRests
<1>2. /\ Listed' = Listed
      /\ cur' = cur \/ (cur \notin Listed /\ cur' \notin Listed)
      /\ curSteps' = curSteps
      /\ \A s \in Listed : meta'[s] = meta[s] /\ traj'[s] = traj[s]
  <2>0. Listed = {s \in dirs : meta[s] \in Metas} /\ Listed' = {s \in dirs' : meta'[s] \in Metas}
    BY <1>1 DEF RestingView
  <2>1. CASE RemoveFiles
    <3>1. arg \in dirs /\ meta[arg] = NoFile /\ traj' = [traj EXCEPT ![arg] = 0]
          /\ UNCHANGED <<dirs, meta, cur, curSteps>>
      BY <2>1 DEF RemoveFiles, AloneInv, Alone, curVars, WebInv, Removing
    <3> QED BY <2>0, <3>1, NotRecords
  <2>2. CASE RemoveDir
    <3>1. arg \in dirs /\ meta[arg] = NoFile /\ dirs' \in {dirs, dirs \ {arg}}
          /\ UNCHANGED <<meta, traj, cur, curSteps>>
      BY <2>2 DEF RemoveDir, AloneInv, Alone, curVars, WebInv, Removing
    <3> QED BY <2>0, <3>1, NotRecords
  <2>3. CASE ClearCur
    <3>1. arg \in Ids \ dirs /\ cur' = (IF cur = arg THEN NoId ELSE cur)
          /\ UNCHANGED <<dirs, meta, traj, curSteps>>
      BY <2>3 DEF ClearCur, WebInv, cardVars
    <3> QED BY <2>0, <3>1
  <2>4. CASE OpenNewMeta("httpd")
    <3>1. cur \in dirs /\ meta[cur] \notin Metas /\ meta' = [meta EXCEPT ![cur] = Torn]
          /\ UNCHANGED <<dirs, traj, cur, curSteps>>
      BY <2>4 DEF OpenNewMeta, NewInv, Creating, Readable, curVars, Tasks
    <3> QED BY <2>0, <3>1, NotRecords
  <2> QED BY <2>1, <2>2, <2>3, <2>4
<1>3. UNCHANGED <<Counters, Turns, Saving, Retitling>>
  <2>1. \A s \in Ids : (IF s \in Listed THEN meta[s].steps ELSE 0)
                       = (IF s \in Listed' THEN meta'[s].steps ELSE 0)
    BY <1>2
  <2>2. \A s \in Ids : (IF s \in Listed THEN traj[s] ELSE 0)
                       = (IF s \in Listed' THEN traj'[s] ELSE 0)
    BY <1>2
  <2> QED BY <1>1, <2>1, <2>2, SameRecords
<1>4. Current' = Current /\ Reached' = Reached
  BY <1>1, <1>2 DEF RestingView
<1> QED BY <1>2, <1>3, <1>4 DEF Unseen

(* The requests of the page. *)
LEMMA MakeDirLeaves ==
  ASSUME Alone, MakeDir("httpd")
  PROVE  Promise!Leave \/ Unseen
<1> USE AloneFacts
<1>1. RestingView /\ RestingView' /\ UNCHANGED <<meta, traj>>
  BY PageRests DEF MakeDir
<1>2. Listed = {s \in dirs : meta[s] \in Metas} /\ Listed' = {s \in dirs' : meta'[s] \in Metas}
  BY <1>1 DEF RestingView
<1>3. \/ dirs' = dirs /\ cur' = cur /\ curSteps' = curSteps
      \/ cur' \in Ids \ dirs /\ dirs' = dirs \cup {cur'}
  BY DEF MakeDir, NoSession, curVars
<1>4. Listed' = Listed
  BY <1>1, <1>2, <1>3, NotRecords DEF TypeOK
<1>5. UNCHANGED <<Counters, Turns, Saving, Retitling>>
  BY <1>1, <1>4, SameRecords
<1>6. CASE dirs' = dirs /\ cur' = cur /\ curSteps' = curSteps
  <2>1. Current' = Current /\ Reached' = Reached
    BY <1>1, <1>4, <1>6 DEF RestingView
  <2> QED BY <1>4, <1>5, <2>1 DEF Unseen
<1>7. CASE cur' \in Ids \ dirs /\ dirs' = dirs \cup {cur'}
  <2>1. cur' \notin Listed'
    BY <1>2, <1>4, <1>7
  <2>2. Current' = NoId /\ Reached' = 0
    BY <1>1, <2>1 DEF RestingView
  <2> QED BY <1>4, <1>5, <2>2 DEF Promise!Leave
<1> QED BY <1>3, <1>6, <1>7

LEMMA NewMetaCreates ==
  ASSUME Alone, FillNewMeta("httpd")
  PROVE  \E s \in Ids : Promise!Create(s)
<1> USE AloneFacts
<1>1. RestingView /\ RestingView' /\ UNCHANGED <<dirs, traj, cur, curSteps>>
      /\ meta' = [meta EXCEPT ![cur] = CurMeta(0)]
  BY PageRests DEF FillNewMeta, curVars
<1>2. Listed = {s \in dirs : meta[s] \in Metas} /\ Listed' = {s \in dirs' : meta'[s] \in Metas}
  BY <1>1 DEF RestingView
<1>3. /\ cur \in dirs /\ meta[cur] \notin Metas
      /\ traj[cur] = 0 /\ curSteps = 0
  BY DEF FillNewMeta, NewInv, KeepInv, StepsInv, Alone, Creating, Readable, Tasks
<1>4. CurMeta(0) \in Metas /\ CurMeta(0).steps = 0
  BY <1>3, StoreAssumption DEF CurMeta, Metas, CurOwn
<1>5. Listed' = Listed \cup {cur} /\ cur \notin Listed
  BY <1>1, <1>2, <1>3, <1>4
<1>6. UNCHANGED <<Counters, Turns, Saving, Retitling>>
  <2>1. \A s \in Ids : (IF s \in Listed THEN meta[s].steps ELSE 0)
                       = (IF s \in Listed' THEN meta'[s].steps ELSE 0)
    BY <1>1, <1>4, <1>5
  <2>2. \A s \in Ids : (IF s \in Listed THEN traj[s] ELSE 0)
                       = (IF s \in Listed' THEN traj'[s] ELSE 0)
    BY <1>1, <1>3, <1>5
  <2> QED BY <1>1, <2>1, <2>2, SameRecords
<1>7. Current = NoId /\ Current' = cur /\ Reached' = 0
  BY <1>1, <1>3, <1>5 DEF RestingView
<1> QED BY <1>3, <1>5, <1>6, <1>7 DEF Promise!Create

LEMMA LoadContinues ==
  ASSUME Alone, Load
  PROVE  (\E s \in Ids : Promise!Continue(s)) \/ Unseen
<1> USE AloneFacts
<1>1. RestingView /\ RestingView' /\ UNCHANGED <<dirs, meta, traj>>
  BY PageRests DEF Load, cardVars
<1>2. Listed = {s \in dirs : meta[s] \in Metas} /\ Listed' = {s \in dirs' : meta'[s] \in Metas}
  BY <1>1 DEF RestingView
<1>3. Listed' = Listed
  BY <1>1, <1>2
<1>4. UNCHANGED <<Counters, Turns, Saving, Retitling>>
  BY <1>1, <1>3, SameRecords
<1>5. CASE Readable(arg)
  <2>1. arg \in Listed /\ meta[arg].id = arg
    BY <1>2, <1>5, NotRecords DEF OwnMeta, Readable, TypeOK, ArgOwn, Load, Named
  <2>2. cur' = arg /\ curSteps' = meta[arg].steps
    BY <1>5, <2>1 DEF Load, Adopt
  <2>3. Current' = arg /\ Reached' = Counters[arg]
    BY <1>1, <1>2, <1>3, <2>1, <2>2 DEF RestingView
  <2> QED BY <1>2, <1>3, <1>4, <2>1, <2>3 DEF Promise!Continue
<1>6. CASE ~Readable(arg)
  <2>1. cur' = cur /\ curSteps' = curSteps
    BY <1>6 DEF Load, curVars
  <2>2. Current' = Current /\ Reached' = Reached
    BY <1>1, <1>3, <2>1 DEF RestingView
  <2> QED BY <1>3, <1>4, <2>2 DEF Unseen
<1> QED BY <1>5, <1>6

LEMMA RemoveMetaDeletes ==
  ASSUME Alone, RemoveMeta
  PROVE  (\E s \in Ids : Promise!Delete(s)) \/ Unseen
<1> USE AloneFacts
<1>1. RestingView /\ RestingView' /\ UNCHANGED <<dirs, traj, cur, curSteps>>
      /\ meta' = [meta EXCEPT ![arg] = NoFile] /\ arg \in dirs
  BY PageRests DEF RemoveMeta, curVars, WebInv, Removing
<1>2. Listed = {s \in dirs : meta[s] \in Metas} /\ Listed' = {s \in dirs' : meta'[s] \in Metas}
  BY <1>1 DEF RestingView
<1>3. Listed' = Listed \ {arg} /\ UNCHANGED <<Saving, Retitling>>
  BY <1>1, <1>2, NotRecords DEF RestingView
<1>4. CASE arg \in Listed
  <2>1. \A s \in Ids : (IF s \in Listed' THEN meta'[s].steps ELSE 0)
                       = (IF s = arg THEN 0 ELSE IF s \in Listed THEN meta[s].steps ELSE 0)
    BY <1>1, <1>3
  <2>2. Counters' = [Counters EXCEPT ![arg] = 0]
    <3>1. Counters' = [s \in Ids |-> IF s = arg THEN 0 ELSE
                                     IF s \in Listed THEN meta[s].steps ELSE 0]
      BY <1>1, <2>1, Zenon DEF RestingView
    <3> QED BY <1>1, <3>1 DEF RestingView
  <2>3. \A s \in Ids : (IF s \in Listed' THEN traj'[s] ELSE 0)
                       = (IF s = arg THEN 0 ELSE IF s \in Listed THEN traj[s] ELSE 0)
    BY <1>1, <1>3
  <2>4. Turns' = [Turns EXCEPT ![arg] = 0]
    <3>1. Turns' = [s \in Ids |-> IF s = arg THEN 0 ELSE
                                  IF s \in Listed THEN traj[s] ELSE 0]
      BY <1>1, <2>3, Zenon DEF RestingView
    <3> QED BY <1>1, <3>1 DEF RestingView
  <2>5. IF arg = Current THEN Current' = NoId /\ Reached' = 0
                         ELSE Current' = Current /\ Reached' = Reached
    BY <1>1, <1>3, <1>4 DEF RestingView
  <2>6. arg \in Ids /\ arg \in Listed \ {Saving, Retitling}
    BY <1>1, <1>4 DEF RestingView
  <2> QED BY <1>3, <2>2, <2>4, <2>5, <2>6 DEF Promise!Delete
<1>5. CASE arg \notin Listed
  <2>1. Listed' = Listed
    BY <1>3, <1>5
  <2>2. Current' = Current /\ Reached' = Reached
    BY <1>1, <2>1 DEF RestingView
  <2>3. \A s \in Ids : (IF s \in Listed THEN meta[s].steps ELSE 0)
                       = (IF s \in Listed' THEN meta'[s].steps ELSE 0)
    BY <1>1, <1>5, <2>1
  <2>4. \A s \in Ids : (IF s \in Listed THEN traj[s] ELSE 0)
                       = (IF s \in Listed' THEN traj'[s] ELSE 0)
    BY <1>1, <2>1
  <2> QED BY <1>1, <2>1, <2>2, <2>3, <2>4, SameRecords DEF Unseen
<1> QED BY <1>4, <1>5

LEMMA OpenMetaRetitles ==
  ASSUME Alone, OpenMeta
  PROVE  \E s \in Ids : Promise!Retitle(s)
<1> USE AloneFacts
<1>1. SeenAs /\ SeenAs'
  BY Seen, SeenNext
<1>2. /\ at["httpd"] = "openMeta" /\ at'["httpd"] = "fillMeta" /\ at'["loop"] = at["loop"]
      /\ meta' = [meta EXCEPT ![arg] = Torn]
      /\ UNCHANGED <<dirs, traj, cur, curSteps, count, arg, file, kept, buf>>
  BY DEF OpenMeta, Go, LockType, Tasks, curVars, runVars, webVars, loopVars
<1>3. /\ arg \in Listed /\ arg \in Ids
      /\ buf["httpd"] \in Metas
      /\ meta[arg] \in Metas => buf["httpd"].steps <= meta[arg].steps
  BY <1>1, <1>2 DEF KeepInv, Alone, WebInv, Renaming, Readable, SeenAs
<1>4. Listed' = Listed
  BY <1>1, <1>2, <1>3, NotRecords DEF SeenAs
<1>5. Turns' = Turns
  <2>1. \A s \in Ids : Turns'[s] = Turns[s]
    BY <1>1, <1>2, <1>4 DEF SeenAs
  <2> QED BY <1>1, <2>1 DEF SeenAs
<1>6. UNCHANGED <<Current, Reached, Saving>>
  BY <1>1, <1>2, <1>4 DEF SeenAs
<1>7. Retitling = NoId /\ Retitling' = arg
  BY <1>1, <1>2 DEF SeenAs
<1>8. Counters'[arg] \in 0 .. Counters[arg]
  BY <1>1, <1>2, <1>3, <1>4, NotRecords DEF SeenAs, TurnInv
<1>9. Counters' = [Counters EXCEPT ![arg] = Counters'[arg]]
  <2>1. \A s \in Ids : Counters'[s] = [Counters EXCEPT ![arg] = Counters'[arg]][s]
    BY <1>1, <1>2, <1>4 DEF SeenAs
  <2> QED BY <1>1, <2>1 DEF SeenAs
<1> QED BY <1>3, <1>4, <1>5, <1>6, <1>7, <1>8, <1>9 DEF Promise!Retitle, Promise!PutBack

LEMMA FillMetaRetitled ==
  ASSUME Alone, FillMeta
  PROVE  \E s \in Ids : Promise!Retitled(s)
<1> USE AloneFacts
<1>1. SeenAs /\ SeenAs'
  BY Seen, SeenNext
<1>2. /\ at["httpd"] = "fillMeta" /\ at'["httpd"] = "idle" /\ at'["loop"] = at["loop"]
      /\ meta' = [meta EXCEPT ![arg] = buf["httpd"]]
      /\ buf'["loop"] = buf["loop"]
      /\ UNCHANGED <<dirs, traj, cur, curSteps, count, file, kept>>
  BY DEF FillMeta, Done, Go, LockType, Tasks, curVars, runVars, loopVars
<1>3. /\ arg \in dirs /\ buf["httpd"] \in Metas
      /\ meta[arg] \in Metas => buf["httpd"].steps <= meta[arg].steps
  BY <1>2 DEF KeepInv, Alone, WebInv, Renaming, Readable
<1>4. Listed' = Listed /\ arg \in Listed /\ arg \in Ids
  BY <1>1, <1>2, <1>3 DEF SeenAs
<1>5. Turns' = Turns
  <2>1. \A s \in Ids : Turns'[s] = Turns[s]
    BY <1>1, <1>2, <1>4 DEF SeenAs
  <2> QED BY <1>1, <2>1 DEF SeenAs
<1>6. UNCHANGED <<Current, Reached, Saving>>
  BY <1>1, <1>2, <1>4 DEF SeenAs
<1>7. Retitling = arg /\ Retitling' = NoId
  BY <1>1, <1>2 DEF SeenAs
<1>8. Counters'[arg] \in 0 .. Counters[arg]
  BY <1>1, <1>2, <1>3, <1>4 DEF SeenAs, TurnInv
<1>9. Counters' = [Counters EXCEPT ![arg] = Counters'[arg]]
  <2>1. \A s \in Ids : Counters'[s] = [Counters EXCEPT ![arg] = Counters'[arg]][s]
    BY <1>1, <1>2, <1>4 DEF SeenAs
  <2> QED BY <1>1, <2>1 DEF SeenAs
<1> QED BY <1>4, <1>5, <1>6, <1>7, <1>8, <1>9 DEF Promise!Retitled, Promise!PutBack

(* The agent loop, whose turn is that of a session that can be listed. *)
LEMMA LoopKnows ==
  ASSUME Alone, at["loop"] # "rest"
  PROVE  /\ cur \in Listed /\ cur \in dirs /\ cur \in Ids /\ cur # NoId
         /\ curSteps \in 0 .. MaxSteps /\ count \in 0 .. MaxSteps
         /\ at["loop"] \in {"append", "fillTraj", "setSteps"} => count = curSteps + 1
<1> USE AloneFacts
<1>1. agent
  BY DEF PlaceInv
<1> QED BY <1>1 DEF KeepInv, Alone, Listed, Ahead, TypeOK

LEMMA AppendRecords ==
  ASSUME Alone, Append
  PROVE  Promise!Trim \/ Promise!Record
<1> USE AloneFacts
<1>1. SeenAs /\ SeenAs'
  BY Seen, SeenNext
<1>2. /\ at["loop"] = "append" /\ at'["httpd"] = at["httpd"]
      /\ UNCHANGED <<dirs, meta, cur, curSteps, count, arg, buf>>
  BY DEF Append, Go, LockType, Tasks, curVars, runVars, webVars
<1>3. cur \in Listed /\ cur \in dirs /\ cur \in Ids /\ cur # NoId /\ count = curSteps + 1
  BY <1>2, LoopKnows
<1>4. at'["loop"] \in {"fillTraj", "setSteps"}
  BY DEF Append, Go, LockType, Tasks
<1>5. Listed' = Listed
  BY <1>1, <1>2, <1>4 DEF SeenAs
<1>6. Counters' = Counters
  <2>1. \A s \in Ids : Counters'[s] = Counters[s]
    BY <1>1, <1>2, <1>4, <1>5 DEF SeenAs
  <2> QED BY <1>1, <2>1 DEF SeenAs
<1>7. Current' = cur /\ Current = cur /\ Saving = NoId /\ Retitling' = Retitling
      /\ Reached = curSteps
  BY <1>1, <1>2, <1>3, <1>5 DEF SeenAs
<1>8. CASE /\ traj' = [traj EXCEPT ![cur] = 0]
           /\ file' = cur /\ kept' = traj[cur]
           /\ at'["loop"] = "fillTraj"
  <2>1. \A s \in Ids : Turns'[s] = Turns[s]
    BY <1>1, <1>2, <1>3, <1>5, <1>8 DEF SeenAs
  <2>2. Turns' = Turns
    BY <1>1, <2>1 DEF SeenAs
  <2>3. Saving' = cur /\ Reached' = curSteps
    BY <1>1, <1>2, <1>3, <1>7, <1>8 DEF SeenAs
  <2> QED BY <1>3, <1>5, <1>6, <1>7, <2>2, <2>3 DEF Promise!Trim
<1>9. CASE /\ traj' = [s \in Ids |-> IF s = cur /\ s \in dirs THEN count ELSE traj[s]]
           /\ at'["loop"] = "setSteps"
  <2>1. \A s \in Ids : Turns'[s] = [Turns EXCEPT ![cur] = count][s]
    BY <1>1, <1>2, <1>3, <1>5, <1>9 DEF SeenAs
  <2>2. Turns' = [Turns EXCEPT ![cur] = count]
    BY <1>1, <2>1 DEF SeenAs
  <2>3. Saving' = NoId /\ Reached' = count
    BY <1>1, <1>2, <1>3, <1>7, <1>9 DEF SeenAs
  <2> QED BY <1>3, <1>5, <1>6, <1>7, <2>2, <2>3 DEF Promise!Record
<1> QED BY <1>8, <1>9 DEF Append, Go, LockType, Tasks

LEMMA FillTrajRecords ==
  ASSUME Alone, FillTraj
  PROVE  Promise!Record
<1> USE AloneFacts
<1>1. SeenAs /\ SeenAs'
  BY Seen, SeenNext
<1>2. /\ at["loop"] = "fillTraj" /\ at'["loop"] = "setSteps" /\ at'["httpd"] = at["httpd"]
      /\ UNCHANGED <<dirs, meta, cur, curSteps, count, arg, buf>>
      /\ traj' = IF file \in dirs THEN [traj EXCEPT ![file] = count] ELSE traj
  BY DEF FillTraj, Go, LockType, Tasks, curVars, runVars, webVars
<1>3. cur \in Listed /\ cur \in dirs /\ cur \in Ids /\ cur # NoId /\ count = curSteps + 1
      /\ file = cur
  BY <1>2, LoopKnows DEF StepsInv, Alone
<1>4. Listed' = Listed
  BY <1>1, <1>2 DEF SeenAs
<1>5. Counters' = Counters
  <2>1. \A s \in Ids : Counters'[s] = Counters[s]
    BY <1>1, <1>2, <1>4 DEF SeenAs
  <2> QED BY <1>1, <2>1 DEF SeenAs
<1>6. Current' = cur /\ Current = cur /\ Saving = cur /\ Retitling' = Retitling
      /\ Reached = curSteps /\ Reached' = count /\ Saving' = NoId
  BY <1>1, <1>2, <1>3, <1>4 DEF SeenAs
<1>7. Turns' = [Turns EXCEPT ![cur] = count]
  <2>1. \A s \in Ids : Turns'[s] = [Turns EXCEPT ![cur] = count][s]
    BY <1>1, <1>2, <1>3, <1>4 DEF SeenAs
  <2> QED BY <1>1, <2>1 DEF SeenAs
<1> QED BY <1>3, <1>4, <1>5, <1>6, <1>7 DEF Promise!Record

LEMMA SetStepsCounts ==
  ASSUME Alone, SetSteps
  PROVE  Promise!Count
<1> USE AloneFacts
<1>1. SeenAs /\ SeenAs'
  BY Seen, SeenNext
<1>2. at["loop"] = "setSteps"
  BY DEF SetSteps
<1>3. cur \in Listed /\ cur \in dirs /\ cur \in Ids /\ cur # NoId /\ count = curSteps + 1
  BY <1>2, LoopKnows
<1>4. /\ at'["loop"] = "fillSteps" /\ at'["httpd"] = at["httpd"]
      /\ meta' = [meta EXCEPT ![cur] = Torn] /\ curSteps' = count
      /\ buf'["loop"].id = cur /\ buf'["loop"].steps = count /\ buf'["httpd"] = buf["httpd"]
      /\ UNCHANGED <<dirs, traj, cur, count, arg, file, kept>>
  BY <1>3 DEF SetSteps, CurMeta, Go, LockType, Tasks, runVars, webVars, loopVars
<1>5. Listed' = Listed
  BY <1>1, <1>2, <1>3, <1>4, NotRecords DEF SeenAs
<1>6. Turns' = Turns
  <2>1. \A s \in Ids : Turns'[s] = Turns[s]
    BY <1>1, <1>2, <1>4, <1>5 DEF SeenAs
  <2> QED BY <1>1, <2>1 DEF SeenAs
<1>7. Current' = cur /\ Current = cur /\ Saving = NoId /\ Retitling' = Retitling
      /\ Reached = count /\ Reached' = count /\ Saving' = cur
  BY <1>1, <1>2, <1>3, <1>4, <1>5 DEF SeenAs
<1>8. Counters' = [Counters EXCEPT ![cur] = count]
  <2>1. \A s \in Ids : Counters'[s] = [Counters EXCEPT ![cur] = count][s]
    BY <1>1, <1>2, <1>3, <1>4, <1>5 DEF SeenAs
  <2> QED BY <1>1, <2>1 DEF SeenAs
<1> QED BY <1>3, <1>5, <1>6, <1>7, <1>8 DEF Promise!Count

LEMMA FillStepsSaved ==
  ASSUME Alone, FillSteps
  PROVE  Promise!Saved
<1> USE AloneFacts
<1>1. SeenAs /\ SeenAs'
  BY Seen, SeenNext
<1>2. /\ at["loop"] = "fillSteps"
      /\ at'["loop"] = "rest" /\ at'["httpd"] = at["httpd"]
      /\ buf'["httpd"] = buf["httpd"]
      /\ meta' = [meta EXCEPT ![buf["loop"].id] = Filled(meta[buf["loop"].id], buf["loop"])]
      /\ UNCHANGED <<dirs, traj, cur, curSteps, count, arg, file, kept>>
  BY DEF FillSteps, Go, LockType, Tasks, curVars, runVars, webVars, loopVars
<1>3. /\ cur \in dirs /\ cur \in Ids /\ cur # NoId
      /\ buf["loop"].id = cur /\ meta[cur] # NoFile /\ buf["loop"] \in Metas
  BY <1>2, LoopKnows DEF AloneInv, Alone, TurnInv
<1>4. meta' = [meta EXCEPT ![cur] = buf["loop"]]
  BY <1>2, <1>3 DEF Filled
<1>5. Listed' = Listed
  BY <1>1, <1>2, <1>3, <1>4 DEF SeenAs
<1>6. Turns' = Turns
  <2>1. \A s \in Ids : Turns'[s] = Turns[s]
    BY <1>1, <1>2, <1>5 DEF SeenAs
  <2> QED BY <1>1, <2>1 DEF SeenAs
<1>7. Counters' = Counters
  <2>1. \A s \in Ids : Counters'[s] = Counters[s]
    BY <1>1, <1>2, <1>3, <1>4, <1>5 DEF SeenAs
  <2> QED BY <1>1, <2>1 DEF SeenAs
<1>8. UNCHANGED <<Current, Reached, Retitling>> /\ Saving' = NoId
  BY <1>1, <1>2, <1>5 DEF SeenAs
<1> QED BY <1>5, <1>6, <1>7, <1>8 DEF Promise!Saved

(* A loss of power: what was being written is what StorePromise allows to lose. *)
LEMMA CrashRestarts ==
  ASSUME Alone, Crash
  PROVE  Promise!Restart
<1> USE AloneFacts
<1>1. SeenAs /\ RestingView'
  <2>1. Resting'
    BY DEF Crash, Booting, Resting, Tasks
  <2> QED BY <2>1, Seen, RestingNext
<1>2. cur' = NoId /\ UNCHANGED <<dirs, meta, traj>>
  BY DEF Crash, cardVars
<1>3. Listed' = {s \in dirs : meta[s] \in Metas} /\ Listed' \subseteq Listed
  BY <1>1, <1>2 DEF RestingView, SeenAs
<1>4. Current' = NoId /\ Reached' = 0 /\ Saving' = NoId /\ Retitling' = NoId
  BY <1>1, <1>2, <1>3 DEF RestingView
<1>5. \A s \in Listed \ Listed' : s = Saving \/ s = Retitling
  BY <1>1, <1>3 DEF SeenAs
<1>6. Counters' = [s \in Ids |-> IF s \in Listed' THEN meta[s].steps ELSE 0]
      /\ Turns' = [s \in Ids |-> IF s \in Listed' THEN traj[s] ELSE 0]
  BY <1>1, <1>2 DEF RestingView
<1>7. ASSUME NEW s \in Ids
      PROVE  /\ Counters'[s] \in Nat /\ Turns'[s] \in Nat
             /\ Turns'[s] \in {Turns[s], 0}
             /\ Counters'[s] <= Counters[s]
             /\ s \notin Listed \ Listed' /\ s # Saving
                  => Turns'[s] = Turns[s] /\ Counters'[s] = Counters[s]
  <2>1. CASE s \notin Listed
    BY <1>1, <1>3, <1>6, <2>1 DEF SeenAs
  <2>2. CASE s \in Listed \ Listed'
    <3>1. Counters'[s] = 0 /\ Turns'[s] = 0
      BY <1>6, <2>2
    <3>2. meta[s] \notin Metas
      BY <1>1, <1>3, <2>2 DEF SeenAs
    <3>3. Counters[s] \in Nat
      BY <1>1, <2>2, <3>2, StoreAssumption DEF SeenAs, TurnInv, WebInv, Renaming
    <3> QED BY <2>2, <3>1, <3>3
  <2>3. CASE s \in Listed'
    <3>1. s \in Listed /\ meta[s] \in Metas /\ Counters'[s] = meta[s].steps /\ Turns'[s] = traj[s]
      BY <1>3, <1>6, <2>3
    <3>2. meta[s].steps \in Nat /\ traj[s] \in Nat
      BY <3>1, StoreAssumption DEF TypeOK
    <3>3. Turns[s] = traj[s] \/ (traj[s] = 0 /\ Saving = s)
      <4>1. CASE at["loop"] = "fillTraj" /\ file = s
        BY <1>1, <4>1 DEF SeenAs, KeepInv, Alone
      <4>2. CASE ~(at["loop"] = "fillTraj" /\ file = s)
        BY <1>1, <3>1, <4>2 DEF SeenAs
      <4> QED BY <4>1, <4>2
    <3>4. Counters[s] = meta[s].steps \/ (Saving = s /\ meta[s].steps <= Counters[s])
      <4>1. CASE at["loop"] = "fillSteps" /\ buf["loop"].id = s
        <5>1. s = cur /\ meta[cur].steps <= curSteps /\ curSteps = buf["loop"].steps
          BY <3>1, <4>1 DEF AloneInv, StepsInv, Alone, Readable
        <5> QED BY <1>1, <3>1, <4>1, <5>1 DEF SeenAs
      <4>2. CASE ~(at["loop"] = "fillSteps" /\ buf["loop"].id = s)
        BY <1>1, <3>1, <4>2 DEF SeenAs
      <4> QED BY <4>1, <4>2
    <3> QED BY <3>1, <3>2, <3>3, <3>4
  <2> QED BY <1>3, <2>1, <2>2, <2>3
<1>8. Counters' \in [Ids -> Nat] /\ Turns' \in [Ids -> Nat]
  BY <1>6, <1>7
<1> QED BY <1>3, <1>4, <1>5, <1>7, <1>8 DEF Promise!Restart, Promise!Lost

LEMMA StoreStep ==
  Known /\ AloneInv /\ StepsInv /\ KeepInv /\ [Next]_vars
    => [pressed' \/ Promise!Next]_(Promise!vars)
<1> SUFFICES ASSUME Alone, [Next]_vars, ~pressed' PROVE Promise!Next \/ Unseen
  BY NotYetPressed DEF Alone, Unseen, Promise!vars
<1> USE DEF Promise!Next
<1>1. CASE StartNew \/ StartOld \/ Delete \/ Rename \/ Fallback \/ Begin("httpd")
           \/ NewPlan("httpd") \/ DropPlan \/ ReadPlan \/ ReadMeta \/ CountTurn
           \/ SavePlan \/ PrintPlan \/ OpenPlan \/ FillPlan \/ EndTask
  BY <1>1, PlacesUnseen
<1>2. CASE RemoveFiles \/ RemoveDir \/ ClearCur \/ OpenNewMeta("httpd")
  BY <1>2, RemovalUnseen
<1>3. CASE MakeDir("httpd")
  BY <1>3, MakeDirLeaves
<1>4. CASE FillNewMeta("httpd")
  BY <1>4, NewMetaCreates
<1>5. CASE Load
  BY <1>5, LoadContinues
<1>6. CASE RemoveMeta
  BY <1>6, RemoveMetaDeletes
<1>7. CASE OpenMeta
  BY <1>7, OpenMetaRetitles
<1>8. CASE FillMeta
  BY <1>8, FillMetaRetitled
<1>9. CASE Append
  BY <1>9, AppendRecords
<1>10. CASE FillTraj
  BY <1>10, FillTrajRecords
<1>11. CASE SetSteps
  BY <1>11, SetStepsCounts
<1>12. CASE FillSteps
  BY <1>12, FillStepsSaved
<1>13. CASE Crash
  BY <1>13, CrashRestarts
<1>14. CASE Press \/ Button
  <2>1. ~Press
    BY DEF Press
  <2>2. ~Button
    BY AloneFacts DEF Button, MakeDir, OpenNewMeta, FillNewMeta, NewPlan, Begin, PlaceInv, Alone
  <2> QED BY <1>14, <2>1, <2>2
<1>15. CASE UNCHANGED vars
  BY <1>15, NothingSeen DEF vars, cardVars, curVars, loopVars, runVars, webVars
<1> QED
  BY <1>1, <1>2, <1>3, <1>4, <1>5, <1>6, <1>7, <1>8, <1>9, <1>10, <1>11, <1>12, <1>13, <1>14,
     <1>15 DEF Next, Httpd, Loop

LEMMA StoreBegins == Init => KeepInv /\ Promise!Init
<1> SUFFICES ASSUME Init PROVE KeepInv /\ Promise!Init
  OBVIOUS
<1>1. RestingView
  BY RestingSeen DEF Init, Resting, Booting, Tasks
<1>2. Listed = {} /\ Current = NoId /\ Reached = 0 /\ Saving = NoId /\ Retitling = NoId
  BY <1>1 DEF RestingView, Init
<1>3. Counters = [s \in Ids |-> 0] /\ Turns = [s \in Ids |-> 0]
  BY <1>1, <1>2 DEF RestingView
<1>4. KeepInv
  BY DEF Init, KeepInv, Booting, Tasks, Renaming, Creating, Loading
<1> QED BY <1>2, <1>3, <1>4 DEF Promise!Init

(* Until START is pressed the files of all sessions implement StorePromise, for *)
(* any number of sessions, turns and losses of power, in whatever order httpd   *)
(* and the loop write, and lose power between, their files (session_manager.c). *)
THEOREM StoreRefines == Spec => KeepsStore
<1>1. Init => Known /\ AloneInv /\ UsableInv /\ StepsInv
  BY KnownInit, StoreInit, UsableAlone
<1>2. Known /\ UsableInv /\ StepsInv /\ KeepInv /\ [Next]_vars
        => Known' /\ UsableInv' /\ StepsInv' /\ KeepInv'
           /\ [pressed' \/ Promise!Next]_(Promise!vars)
  BY KnownStep, UsableStep, UsableAlone, StepsStep, KeepStep, StoreStep
<1> QED
  BY <1>1, <1>2, StoreBegins, PTL DEF Spec, KeepsStore
=============================================================================
