-------------------------------- MODULE Boot --------------------------------
(* A life of the device: app_main (main/main.c) brings the components up   *)
(* in order, and returns on the failures it takes for fatal; the web page  *)
(* may then start a task, edit files of the card and restart the device;   *)
(* power may go at any moment. Composes WifiManager and Knowledge.         *)
EXTENDS WifiManager, Knowledge

CONSTANTS Configs,      \* config.json: [ssid : BOOLEAN, len : Nat]
          DefaultLen,   \* history_max_len without a config.json
          Budgets       \* bounds: how often the radio changes its mind, the
                        \* loop turns, the page edits, the device restarts

ASSUME BootAssumption ==
  /\ Configs \subseteq [ssid : BOOLEAN, len : Nat] /\ DefaultLen \in Nat \ {0}
  /\ Budgets \subseteq [air : Nat, turns : Nat, edits : Nat, lives : Nat]

VARIABLES step,         \* what app_main does next; "up" or "returned"
          config,       \* config.json on the card: a Config, or NoFile
          prompt,       \* full.txt is there
          editing,      \* the file fs_write_handler has truncated
          ssid,         \* cfg.wifi_ssid
          ready,        \* components initialized since power-on
          task,         \* "none", "accepted" (agent_start) or "taken"
          turn,         \* where the loop is in its iteration
          rebooting,    \* handle_api_reboot has answered
          turns, edits, lives   \* what is left of the budget

lifeVars == <<step, ssid, ready, task, turn, rebooting>>
cardVars == <<config, prompt, editing>>
countVars == <<turns, edits, lives>>
vars == <<wifiVars, knowledgeVars, lifeVars, cardVars, countVars>>

Order == <<"sd", "config", "uvc", "wifi", "wifiWait", "sntp", "prompts",
           "sessions", "stm", "cloud", "hid", "agent", "buttons", "web", "loop">>

Settled == {"up", "returned"}

NextStep(s) == LET i == CHOOSE k \in DOMAIN Order : Order[k] = s
               IN  IF i = Len(Order) THEN "up" ELSE Order[i + 1]

PowerOn ==
  /\ step = "sd" /\ ssid = FALSE /\ ready = {} /\ task = "none"
  /\ turn = "build" /\ rebooting = FALSE

Init ==
  /\ WifiInit /\ KnowledgeInit /\ PowerOn
  /\ config \in Configs \cup {NoFile} /\ prompt \in BOOLEAN
  /\ editing = NoFile
  /\ \E b \in Budgets : /\ airLeft = b.air /\ turns = b.turns
                       /\ edits = b.edits /\ lives = b.lives

-----------------------------------------------------------------------------
(* app_main. *)

RestOfLife == UNCHANGED <<task, turn, rebooting>>

Proceed(s) == step = s /\ step' = NextStep(s)

Came(c) == ready' = ready \cup {c}

(* A step whose failure ends app_main. *)
Fatal(s) ==
  /\ step = s
  /\ \/ step' = NextStep(s) /\ Came(s)
     \/ step' = "returned" /\ UNCHANGED ready
  /\ UNCHANGED ssid

(* A step whose failure is logged. *)
Optional(s) ==
  /\ Proceed(s) /\ (Came(s) \/ UNCHANGED ready)
  /\ UNCHANGED ssid

(* config_load: a file that is missing, empty or no JSON leaves the        *)
(* defaults, without a network name.                                       *)
LoadConfig ==
  /\ Proceed("config")
  /\ ssid' = (config # NoFile /\ config.ssid)
  /\ Came("config")

(* "Clamp the remaining numeric knobs to sane ranges", of a file that is   *)
(* there.                                                                  *)
HistoryLength ==
  CASE config = NoFile -> DefaultLen
    [] config # NoFile /\ config.len = 0 -> 1
    [] OTHER -> config.len

(* The file cannot have changed since config_load: no editor runs yet.     *)
InitStm ==
  /\ Proceed("stm") /\ Came("stm")
  /\ StmInit(HistoryLength, DefaultLen)
  /\ UNCHANGED <<ssid, entries, overrun, told, forgotten>>

(* wifi_manager_init returns at once without a network name, and with an   *)
(* error when the driver does not start.                                   *)
StartWifi ==
  /\ step = "wifi" /\ UNCHANGED ssid
  /\ \/ ssid /\ step' = "wifiWait" /\ Came("wifi") /\ StartStation
     \/ step' = "sntp" /\ UNCHANGED <<ready, wifiVars>>

(* Mutant: app_main waits for the station without a limit. *)
WaitWifiForEver ==
  /\ Proceed("wifiWait") /\ StationAnswered /\ StationWaited
  /\ UNCHANGED <<ready, ssid>>

(* Answered, or 30 s have passed. *)
WaitWifi ==
  /\ Proceed("wifiWait") /\ StationWaited
  /\ UNCHANGED <<ready, ssid>>

SyncTime ==
  /\ Proceed("sntp") /\ StartSntp /\ UNCHANGED <<ready, ssid>>

(* system_prompts_init needs full.txt; short.txt falls back to it. *)
LoadPrompts ==
  /\ step = "prompts" /\ UNCHANGED ssid
  /\ \/ prompt /\ step' = NextStep(step) /\ Came("prompts")
     \/ step' = "returned" /\ UNCHANGED ready

(* The loop task is created last, when buttons and web page already serve. *)
CreateLoop == Fatal("loop")

OtherSteps ==
  \/ \E s \in {"sd", "uvc", "sessions", "cloud", "agent"} : Fatal(s)
  \/ \E s \in {"hid", "buttons", "web"} : Optional(s)
  \/ LoadConfig \/ LoadPrompts \/ CreateLoop

Main ==
  /\ \/ OtherSteps /\ UNCHANGED <<wifiVars, stmVars>>
     \/ InitStm /\ UNCHANGED wifiVars
     \/ (StartWifi \/ WaitWifi \/ SyncTime) /\ UNCHANGED stmVars
  /\ RestOfLife /\ UNCHANGED <<profileVars, cardVars, countVars>>

-----------------------------------------------------------------------------
(* The services. *)

Serving == "web" \in ready /\ editing = NoFile /\ ~rebooting

(* agent_start of the web page or the START button: it needs the agent,    *)
(* not the loop.                                                           *)
StartTask ==
  /\ "agent" \in ready /\ task = "none"
  /\ Serving \/ "buttons" \in ready
  /\ task' = "accepted"
  /\ UNCHANGED <<wifiVars, knowledgeVars, cardVars, countVars, step, ssid, ready,
                 turn, rebooting>>

(* The agent loop finds the event bit, which waits for it. *)
TakeTask ==
  /\ "loop" \in ready /\ task = "accepted"
  /\ task' = "taken"
  /\ UNCHANGED <<wifiVars, knowledgeVars, cardVars, countVars, step, ssid, ready,
                 turn, rebooting>>

InTurn(from, to) ==
  /\ task = "taken" /\ turn = from /\ turn' = to
  /\ UNCHANGED <<wifiVars, cardVars, step, ssid, ready, task, rebooting,
                 edits, lives>>

(* build_profile_text; the query; then what the answer says of profiles    *)
(* and, with a plan update, of the plan.                                   *)
Build == /\ turns > 0 /\ turns' = turns - 1
         /\ InTurn("build", "cache")
         /\ GetDefault /\ UNCHANGED stmVars
Cache == /\ InTurn("cache", "answer") /\ UNCHANGED <<stmVars, turns>>
         /\ IF reading = NoText THEN UNCHANGED profileVars ELSE CacheDefault
Switch == InTurn("answer", "append") /\ SwitchProfile /\ UNCHANGED <<stmVars, turns>>
Stay == InTurn("answer", "append") /\ UNCHANGED <<knowledgeVars, turns>>
Discover == /\ InTurn("append", "tell") /\ UNCHANGED <<stmVars, turns>>
            /\ (\E l \in Lines : AppendLine(l)) \/ UNCHANGED profileVars
Tell == /\ InTurn("tell", "build") /\ UNCHANGED <<profileVars, turns>>
        /\ StmAdd \/ StmOverrun \/ UNCHANGED stmVars

Turn == (Build \/ Cache \/ Switch \/ Stay \/ Discover \/ Tell) /\ ~overrun

(* fs_write_handler opens the file with "wb", which empties it, and writes *)
(* the content then. An empty full.txt is no prompt, an empty config.json  *)
(* is no configuration.                                                    *)
Editable == Profiles \cup {"config", "prompt"}

Emptied(f) ==
  CASE f = "config" -> config' = NoFile /\ UNCHANGED <<prompt, profileVars>>
    [] f = "prompt" -> prompt' = FALSE /\ UNCHANGED <<config, profileVars>>
    [] OTHER -> /\ WriteProfile(f, <<>>) /\ UNCHANGED <<config, prompt>>

(* handle_api_fs_delete removes it, which is the same for these two.       *)
DeleteFile(f) ==
  CASE f \in Profiles -> WriteProfile(f, NoFile) /\ UNCHANGED <<config, prompt>>
    [] OTHER -> Emptied(f)

EditFrame == UNCHANGED <<wifiVars, stmVars, lifeVars, turns, lives>>

Truncate(f) ==
  /\ Serving /\ edits > 0 /\ edits' = edits - 1
  /\ editing' = f /\ Emptied(f) /\ EditFrame

Fill ==
  /\ editing # NoFile /\ editing' = NoFile
  /\ CASE editing = "config" -> /\ \E c \in Configs : config' = c
                                /\ UNCHANGED <<prompt, profileVars>>
       [] editing = "prompt" -> /\ prompt' = TRUE
                                /\ UNCHANGED <<config, profileVars>>
       [] OTHER -> /\ \E l \in Lines : WriteProfile(editing, <<l>>)
                   /\ UNCHANGED <<config, prompt>>
  /\ EditFrame /\ UNCHANGED edits

Delete(f) ==
  /\ Serving /\ edits > 0 /\ edits' = edits - 1
  /\ DeleteFile(f) /\ UNCHANGED editing /\ EditFrame

AskReboot ==
  /\ Serving /\ lives > 0 /\ rebooting' = TRUE
  /\ UNCHANGED <<wifiVars, knowledgeVars, cardVars, countVars, step, ssid, ready,
                 task, turn>>

(* Power goes, or esp_restart is called: memory is lost, files stay as     *)
(* they are, a file that was being written stays empty.                    *)
Restart ==
  /\ lives > 0 /\ lives' = lives - 1
  /\ Forget
  /\ air' = "off" /\ events' = <<>> /\ ip' = FALSE /\ netBits' = {} /\ retries' = 0
  /\ inited' = FALSE /\ sntp' = FALSE /\ losses' = 0
  /\ step' = "sd" /\ ssid' = FALSE /\ ready' = {} /\ task' = "none"
  /\ turn' = "build" /\ rebooting' = FALSE
  /\ editing' = NoFile
  /\ UNCHANGED <<airLeft, config, prompt, turns, edits>>

Air == Network /\ UNCHANGED <<knowledgeVars, lifeVars, cardVars, countVars>>

Next == \/ Main \/ StartTask \/ TakeTask \/ Turn
        \/ \E f \in Editable : Truncate(f) \/ Delete(f)
        \/ Fill \/ AskReboot \/ Restart \/ Air

(* Every call of app_main returns, the wait for the station after 30 s;    *)
(* the scheduler runs the loop task. Nobody has to press anything.         *)
Spec == /\ Init /\ [][Next]_vars
        /\ WF_vars(Main) /\ WF_vars(TakeTask)

-----------------------------------------------------------------------------
TypeOK ==
  /\ WifiTypeOK /\ KnowledgeTypeOK
  /\ step \in {Order[i] : i \in DOMAIN Order} \cup Settled
  /\ config \in Configs \cup {NoFile} /\ prompt \in BOOLEAN
  /\ editing \in Editable \cup {NoFile}
  /\ ready \subseteq {Order[i] : i \in DOMAIN Order}
  /\ task \in {"none", "accepted", "taken"}
  /\ turn \in {"build", "cache", "answer", "append", "tell"}
  /\ ssid \in BOOLEAN /\ rebooting \in BOOLEAN

(* Whatever fails and whatever the network does, app_main gets to its end, *)
(* or to the return of a failure it takes for fatal, after every restart.  *)
BootEnds == step \notin Settled ~> step \in Settled

(* A task that the page or a button could start is taken up by the loop,   *)
(* also if it is started before there is a loop; only the one failure that *)
(* leaves the services without a loop, or a restart, leaves it waiting.    *)
TaskTakenUp == task = "accepted" ~> task # "accepted" \/ step = "returned"

DeviceServes == BootEnds /\ TaskTakenUp
=============================================================================
