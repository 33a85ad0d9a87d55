----------------------------- MODULE HidExecutor -----------------------------
(* The action executor of the agent loop and the USB HID device under it: a   *)
(* batch of actions becomes keyboard and mouse reports that go one at a time  *)
(* through the interrupt endpoint to the target machine, while httpd may      *)
(* release everything for an emergency, the cable may be pulled and the       *)
(* target's Num Lock LED is reported back.  A script is the sequence of calls *)
(* a task still has to make; one step of a task is one call of a send         *)
(* function, one look at the endpoint, or one end of such a call.             *)
EXTENDS Naturals, Sequences

CONSTANTS
  Texts,          \* what a type action may type: sequences over Symbols
  Tries,          \* how often a mouse report is tried: 5 in the code
  MaxActions,     \* how many actions the loop executes
  MaxDisturbances \* how often httpd calls an emergency or the cable is pulled

Tasks == {"loop", "httpd"}

\* A letter, a digit of the main row and the same digit of the keypad.
Chars == {"a", "1", "kp1"}

\* What a text consists of: the letter, the digit and a character without a key.
Symbols == {"a", "1", "none"}

\* A release that is tried only once is lost when httpd takes the endpoint first.
ASSUME BoundAssumption ==
  /\ Texts \subseteq Seq(Symbols)
  /\ Tries \in Nat /\ Tries >= 2 /\ MaxActions \in Nat /\ MaxDisturbances \in Nat

VARIABLES
  mounted,     \* tud_mounted
  endpoint,    \* the report the interrupt endpoint holds until the target polls it
  held,        \* s_last_buttons
  ledSeen,     \* s_led_seen
  led,         \* s_led_state, its Num Lock bit
  leds,        \* LED reports of the target on their way
  pc,          \* the loop: "idle", "batch" (between two actions) or "action"
  script,      \* by task: the calls still to make
  call,        \* by task: the report being sent
  emergency,   \* the EMERGENCY bit of the agent
  typing,      \* the type action: its text, hid_type_result_t and the next character
  target,      \* the target machine: keys and buttons down, text received, Num Lock
  actions,     \* history: how many actions were executed
  disturbances,\* history: how many emergencies and pulled cables there were
  dropped,     \* history: a report was given up since the last undisturbed abort
  stale,       \* history: what of the device's view of the target outlived a pulled cable
  gaveUp       \* history: hid_ensure_num_lock stopped waiting for the LED report

deviceVars == <<mounted, endpoint, held, ledSeen, led, leds>>
taskVars == <<pc, script, call, emergency, typing>>
histVars == <<actions, disturbances, stale, gaveUp>>
vars == <<deviceVars, taskVars, target, histVars, dropped>>

Keys(s)  == [kind |-> "keys", down |-> s]
Mouse(s) == [kind |-> "mouse", down |-> s]
NoReport == [kind |-> "none", down |-> {}]
NoCall   == [report |-> NoReport, phase |-> "none", tries |-> 0]

NoText == [text |-> <<>>, len |-> 0, at |-> 0, queued |-> 0, keypad |-> FALSE, done |-> FALSE]

FreshTarget == [keys |-> {}, buttons |-> {}, text |-> <<>>, numLock |-> FALSE]

Init ==
  /\ mounted = TRUE /\ endpoint = NoReport /\ held = {}
  /\ ledSeen = FALSE /\ led = FALSE /\ leds = <<>>
  /\ pc = "idle" /\ emergency = FALSE /\ typing = NoText
  /\ script = [t \in Tasks |-> <<>>]
  /\ call = [t \in Tasks |-> NoCall]
  /\ target = FreshTarget
  /\ actions = 0 /\ disturbances = 0 /\ dropped = FALSE /\ stale = {} /\ gaveUp = FALSE

-----------------------------------------------------------------------------
(* Scripts. *)

Do(op, arg) == [op |-> op, arg |-> arg]

\* hid_release_all.
ReleaseAll == <<Do("keys", {}), Do("set", {})>>

\* execute_single, without its delays.  A drag moves eight times with the button
\* down; one move stands for them.
Script(action) ==
  CASE action = "click"  -> <<Do("move", {}), Do("click", {"left"})>>
    [] action = "double" -> <<Do("click", {"left"}), Do("click", {"left"})>>
    [] action = "drag"   -> <<Do("move", {}), Do("add", {"left"}), Do("move", {}),
                              Do("sub", {"left"})>>
    [] action = "release" -> <<Do("sub", {"left"})>>
    [] action = "press"  -> <<Do("press", {"enter"})>>
    [] action = "run"    -> <<Do("press", {"win", "r"}), Do("press", {"ctrl", "a"}),
                              Do("type", {}), Do("press", {"enter"}), Do("retry", {"enter"})>>
    [] action = "type"   -> <<Do("type", {}), Do("report", {})>>
    [] action = "keypad" -> <<Do("numlock", {}), Do("type", {}), Do("report", {})>>

Actions == {"click", "double", "drag", "release", "press", "run", "type", "keypad"}

\* hid_type_string: the digits go to the keypad only when the action asked for it
\* and Num Lock was confirmed.
Channel(c) == IF c = "1" /\ typing.keypad THEN "kp1" ELSE c

\* Mutant of Stroke: no key-up between the characters.
StrokeWithoutUp(c) == <<Do("char", {Channel(c)})>>

\* A character without a key is skipped.
Stroke(c) == IF c \in Chars THEN <<Do("char", {Channel(c)}), Do("charUp", {})>> ELSE <<>>

-----------------------------------------------------------------------------
(* Sending a report. *)

Ready == mounted /\ endpoint = NoReport

\* Send functions return at once when the device is not mounted.
Send(t, report) ==
  call' = [call EXCEPT ![t] = IF mounted
                              THEN [report |-> report, phase |-> "wait", tries |-> 0]
                              ELSE [report |-> report, phase |-> "failed", tries |-> 0]]

\* hid_wait_ready sees a free endpoint.
SeesReady(t) ==
  /\ call[t].phase = "wait" /\ Ready
  /\ call' = [call EXCEPT ![t].phase = "claim"]
  /\ UNCHANGED <<deviceVars, pc, script, emergency, typing, target, histVars, dropped>>

\* A mouse report is tried Tries times in all, a keyboard report once.
Retried(c) ==
  IF c.report.kind = "mouse" /\ c.tries + 1 < Tries THEN [c EXCEPT !.phase = "wait", !.tries = @ + 1]
  ELSE [c EXCEPT !.phase = "failed"]

\* hid_wait_ready gives up: the target does not poll, or is gone.  The tries of a
\* mouse report are not told apart here: each waits for the same endpoint.
TimesOut(t) ==
  /\ call[t].phase = "wait" /\ ~Ready
  /\ call' = [call EXCEPT ![t].phase = "failed"]
  /\ dropped' = TRUE
  /\ UNCHANGED <<deviceVars, pc, script, emergency, typing, target, histVars>>

\* TinyUSB takes the report if the endpoint is still free; another task may have
\* taken it since it was seen ready.
Claims(t) ==
  /\ call[t].phase = "claim"
  /\ IF Ready
     THEN /\ endpoint' = call[t].report
          /\ call' = [call EXCEPT ![t].phase = "sent"]
     ELSE /\ call' = [call EXCEPT ![t] = Retried(@)]
          /\ UNCHANGED endpoint
  /\ UNCHANGED <<mounted, held, ledSeen, led, leds, pc, script, emergency, typing, target,
                 histVars, dropped>>

-----------------------------------------------------------------------------
(* The calls of a script. *)

Head1(t) == Head(script[t])
Busy(t)  == call[t].phase # "none"
Advance(t) == script' = [script EXCEPT ![t] = Tail(@)]
Replace(t, s) == script' = [script EXCEPT ![t] = s \o Tail(@)]

\* The buttons a mouse call leaves in s_last_buttons: hid_release_all and the two
\* halves of a click overwrite them, down and up add and remove one.
HeldAfter(i) ==
  CASE i.op = "set" -> i.arg
    [] i.op = "add" -> held \cup i.arg
    [] i.op = "sub" -> held \ i.arg
    [] OTHER        -> held

\* Mutant of MouseCall: the report is built from the buttons before the call.
MouseCallTooEarly(t) ==
  /\ script[t] # <<>> /\ ~Busy(t)
  /\ Head1(t).op \in {"move", "set", "add", "sub"}
  /\ held' = HeldAfter(Head1(t)) /\ Send(t, Mouse(held))
  /\ UNCHANGED <<mounted, endpoint, ledSeen, led, leds, pc, script, emergency, typing, target,
                 histVars, dropped>>

\* hid_mouse_move_abs, hid_mouse_down and hid_mouse_up do nothing unmounted.
MouseCall(t) ==
  /\ script[t] # <<>> /\ ~Busy(t)
  /\ Head1(t).op \in {"move", "set", "add", "sub"}
  /\ IF Head1(t).op # "set" /\ ~mounted
     THEN Advance(t) /\ UNCHANGED <<held, call>>
     ELSE /\ held' = HeldAfter(Head1(t))
          /\ Send(t, Mouse(held'))
          /\ UNCHANGED script
  /\ UNCHANGED <<mounted, endpoint, ledSeen, led, leds, pc, emergency, typing, target,
                 histVars, dropped>>

KeyCall(t) ==
  /\ script[t] # <<>> /\ ~Busy(t)
  /\ Head1(t).op \in {"keys", "char", "again", "charUp"}
  /\ Send(t, Keys(Head1(t).arg))
  /\ UNCHANGED <<deviceVars, pc, script, emergency, typing, target, histVars, dropped>>

\* hid_key_press returns unless the endpoint is ready, hid_mouse_click unless the
\* device is mounted.
Expand ==
  /\ script["loop"] # <<>> /\ ~Busy("loop")
  /\ LET i == Head1("loop")
     IN \/ /\ i.op = "click"
           /\ Replace("loop", IF mounted THEN <<Do("set", i.arg), Do("set", {})>> ELSE <<>>)
        \/ /\ i.op = "press"
           /\ Replace("loop", IF Ready THEN <<Do("keys", i.arg), Do("keys", {})>> ELSE <<>>)
        \/ /\ i.op = "retry"   \* run: the screen did not change after the first Enter
           /\ Replace("loop", <<>>) \/ Replace("loop", <<Do("press", i.arg)>>)
  /\ UNCHANGED <<deviceVars, pc, call, emergency, typing, target, histVars, dropped>>

\* Mutant of Type: the length is left for the end.
TypeUncounted ==
  /\ script["loop"] # <<>> /\ ~Busy("loop") /\ Head1("loop").op = "type"
  /\ Replace("loop", IF mounted THEN <<Do("next", {})>> ELSE <<>>)
  /\ UNCHANGED <<deviceVars, pc, call, emergency, typing, target, histVars, dropped>>

\* hid_type_string counts the length of the text only when the device is mounted.
Type ==
  /\ script["loop"] # <<>> /\ ~Busy("loop") /\ Head1("loop").op = "type"
  /\ Replace("loop", IF mounted THEN <<Do("next", {})>> ELSE <<>>)
  /\ typing' = [typing EXCEPT !.len = IF mounted THEN Len(typing.text) ELSE 0]
  /\ UNCHANGED <<deviceVars, pc, call, emergency, target, histVars, dropped>>

\* Its loop over the characters.
NextChar ==
  /\ script["loop"] # <<>> /\ ~Busy("loop") /\ Head1("loop").op = "next"
  /\ IF typing.at < Len(typing.text)
     THEN /\ Replace("loop", Stroke(typing.text[typing.at + 1]) \o <<Do("next", {})>>)
          /\ typing' = [typing EXCEPT !.at = @ + 1]
     ELSE Advance("loop") /\ UNCHANGED typing
  /\ UNCHANGED <<deviceVars, pc, call, emergency, target, histVars, dropped>>

\* Mutant of NumLock: the LED is not needed.
NumLockBlind ==
  /\ script["loop"] # <<>> /\ ~Busy("loop") /\ Head1("loop").op \in {"numlock", "confirm"}
  /\ Advance("loop") /\ typing' = [typing EXCEPT !.keypad = TRUE]
  /\ UNCHANGED <<deviceVars, pc, call, emergency, target, histVars, dropped>>

\* hid_ensure_num_lock refuses to guess; when the LED is off it presses the key
\* and waits for the target to report the LED, or gives up after 600 ms.
NumLock ==
  /\ script["loop"] # <<>> /\ ~Busy("loop")
  /\ \/ /\ Head1("loop").op = "numlock"
        /\ IF ~ledSeen THEN Advance("loop") /\ UNCHANGED typing
           ELSE IF led THEN Advance("loop") /\ typing' = [typing EXCEPT !.keypad = TRUE]
           ELSE /\ Replace("loop", <<Do("press", {"numlock"}), Do("confirm", {})>>)
                /\ UNCHANGED typing
        /\ UNCHANGED gaveUp
     \/ /\ Head1("loop").op = "confirm"
        /\ \E confirmed \in {led, FALSE} :
             /\ typing' = [typing EXCEPT !.keypad = confirmed]
             /\ gaveUp' = (gaveUp \/ ~confirmed)
        /\ Advance("loop")
  /\ UNCHANGED <<deviceVars, pc, call, emergency, target, actions, disturbances, stale, dropped>>

\* The end of a send.  A refused key-down is tried once more and then skipped with
\* its key-up; the other results are not looked at.
Returns(t) ==
  /\ call[t].phase \in {"sent", "failed"}
  /\ call' = [call EXCEPT ![t] = NoCall]
  /\ LET i == Head1(t)
         ok == call[t].phase = "sent"
     IN /\ CASE i.op = "char" /\ ~ok  -> Replace(t, <<Do("again", i.arg)>>)
             [] i.op = "again" /\ ~ok -> script' = [script EXCEPT ![t] = Tail(Tail(@))]
             [] OTHER                 -> Advance(t)
        /\ typing' = IF ok /\ i.op \in {"char", "again"} THEN [typing EXCEPT !.queued = @ + 1]
                     ELSE typing
        /\ dropped' = (dropped \/ (~ok /\ pc = "action" /\ t = "loop"
                                       /\ i.op \in {"keys", "charUp"}))
  /\ UNCHANGED <<deviceVars, pc, emergency, target, histVars>>

-----------------------------------------------------------------------------
(* The loop: batches of actions, and the unwinding of an emergency. *)

StartAction ==
  /\ pc = "batch" /\ actions < MaxActions
  /\ actions' = actions + 1
  /\ \E action \in Actions, text \in Texts \cup {<<>>} :
       /\ (text # <<>>) = (action \in {"run", "type", "keypad"})
       /\ script' = [script EXCEPT !["loop"] = Script(action)]
       /\ typing' = [NoText EXCEPT !.text = text]
  /\ stale' = stale \ {"text"}
  /\ target' = [target EXCEPT !.text = <<>>]
  /\ pc' = "action"
  /\ UNCHANGED <<deviceVars, call, emergency, disturbances, gaveUp, dropped>>

\* s_last_type_report: what the device queued of the text.
Report ==
  /\ script["loop"] # <<>> /\ Head1("loop").op = "report"
  /\ typing' = [typing EXCEPT !.done = TRUE]
  /\ Advance("loop")
  /\ UNCHANGED <<deviceVars, pc, call, emergency, target, histVars, dropped>>

EndAction ==
  /\ pc = "action" /\ script["loop"] = <<>>
  /\ pc' = "batch" /\ typing' = NoText
  /\ target' = [target EXCEPT !.text = <<>>]   \* only the current text is looked at
  /\ UNCHANGED <<deviceVars, script, call, emergency, histVars, dropped>>

\* The batch ends; what an emergency does to the rest of it is nothing.
EndBatch ==
  /\ pc = "batch"
  /\ pc' = "idle"
  /\ UNCHANGED <<deviceVars, script, call, emergency, typing, target, histVars, dropped>>

\* Mutant of AbortScript: the release of httpd is relied on.
AbortWithoutRelease == <<>>

\* agent_abort_to_idle releases everything again.
AbortScript == ReleaseAll

LoopTop ==
  /\ pc = "idle" /\ script["loop"] = <<>>
  /\ \/ /\ emergency
        /\ script' = [script EXCEPT !["loop"] = AbortScript]
        /\ emergency' = FALSE
        /\ dropped' = (dropped /\ script["httpd"] # <<>>)
        /\ UNCHANGED pc
     \/ /\ ~emergency /\ pc' = "batch" /\ UNCHANGED <<script, emergency, dropped>>
  /\ UNCHANGED <<deviceVars, call, typing, target, histVars>>

\* agent_emergency, called by httpd: the bit first, then the release.
Emergency ==
  /\ script["httpd"] = <<>> /\ disturbances < MaxDisturbances
  /\ disturbances' = disturbances + 1
  /\ emergency' = TRUE
  /\ script' = [script EXCEPT !["httpd"] = ReleaseAll]
  /\ UNCHANGED <<deviceVars, pc, call, typing, target, actions, stale, gaveUp, dropped>>

-----------------------------------------------------------------------------
(* The target machine. *)

\* A report of the endpoint reaches the target.  A key counts when it goes down;
\* without Num Lock the keypad digit is an arrow.
Symbol(key) == IF key = "kp1" THEN (IF target.numLock THEN "1" ELSE "arrow") ELSE key

Poll ==
  /\ mounted /\ endpoint # NoReport
  /\ endpoint' = NoReport
  /\ IF endpoint.kind = "mouse"
     THEN target' = [target EXCEPT !.buttons = endpoint.down] /\ UNCHANGED leds
     ELSE LET new     == endpoint.down \ target.keys
              toggled == "numlock" \in new
          IN /\ target' = [target EXCEPT
                  !.keys = endpoint.down,
                  !.text = IF new \cap Chars # {} /\ endpoint.down \subseteq Chars
                           THEN Append(@, Symbol(CHOOSE c \in new : TRUE)) ELSE @,
                  !.numLock = IF toggled THEN ~@ ELSE @]
             /\ leds' = IF toggled THEN Append(leds, ~target.numLock) ELSE leds
  /\ UNCHANGED <<mounted, held, ledSeen, led, taskVars, histVars, dropped>>

\* tud_hid_set_report_cb.
LedReport ==
  /\ mounted /\ leds # <<>>
  /\ led' = Head(leds) /\ ledSeen' = TRUE
  /\ leds' = Tail(leds)
  /\ UNCHANGED <<mounted, endpoint, held, taskVars, target, histVars, dropped>>

\* The target reports its LED when it configures the keyboard.
Configure ==
  /\ mounted /\ ~ledSeen /\ leds = <<>>
  /\ leds' = <<target.numLock>>
  /\ UNCHANGED <<mounted, endpoint, held, ledSeen, led, taskVars, target, histVars, dropped>>

Unplug ==
  /\ mounted /\ disturbances < MaxDisturbances
  /\ mounted' = FALSE /\ endpoint' = NoReport /\ leds' = <<>>
  /\ disturbances' = disturbances + 1
  /\ stale' = stale \cup (IF held # {} THEN {"buttons"} ELSE {})
                   \cup (IF ledSeen THEN {"led"} ELSE {})
                   \cup (IF pc = "action" THEN {"text"} ELSE {})
  /\ target' = FreshTarget
  /\ UNCHANGED <<held, ledSeen, led, taskVars, dropped, actions, gaveUp>>

Replug ==
  /\ ~mounted
  /\ mounted' = TRUE
  /\ UNCHANGED <<endpoint, held, ledSeen, led, leds, taskVars, target, histVars, dropped>>

Sending(t) == SeesReady(t) \/ TimesOut(t) \/ Claims(t) \/ MouseCall(t) \/ KeyCall(t) \/ Returns(t)

Loop == Sending("loop") \/ Expand \/ Type \/ NextChar \/ NumLock \/ StartAction \/ Report \/ EndAction
          \/ EndBatch \/ LoopTop

Target == Poll \/ LedReport \/ Configure \/ Unplug \/ Replug

Next == Loop \/ Sending("httpd") \/ Emergency \/ Target

Spec == Init /\ [][Next]_vars
-----------------------------------------------------------------------------
(* Properties. *)

TypeOK ==
  /\ mounted \in BOOLEAN /\ ledSeen \in BOOLEAN /\ led \in BOOLEAN
  /\ endpoint.kind \in {"none", "keys", "mouse"}
  /\ held \subseteq {"left"}
  /\ pc \in {"idle", "batch", "action"}
  /\ \A t \in Tasks : call[t].phase \in {"none", "wait", "claim", "sent", "failed"}
  /\ typing.queued <= typing.len

\* No task has a call left to make and nothing is on the way to the target.
Quiet ==
  /\ pc = "idle" /\ ~emergency
  /\ \A t \in Tasks : script[t] = <<>>
  /\ endpoint = NoReport

\* When the loop rests, the target has no key and no button down, however the
\* release of an emergency in httpd raced the batch and the release of the abort
\* -- unless a report was given up since, or the cable was pulled in a drag.
NothingHeld ==
  Quiet /\ ~dropped /\ "buttons" \notin stale => target.keys = {} /\ target.buttons = {}

\* The device lets go of everything it pressed.
LetsGo == TypeOK /\ NothingHeld

\* s_last_buttons, which every later mouse report repeats and the status text
\* shows, agrees with the target when the loop rests.
ButtonsAgree == Quiet /\ ~dropped /\ "buttons" \notin stale => held = target.buttons

\* "device queued ALL": what s_last_type_report tells the model.
AllQueued == typing.done /\ typing.queued = typing.len

\* No key-up was lost, the cable was not pulled while the text was typed, and the
\* view of Num Lock is that of this target.
Undisturbed == ~dropped /\ mounted /\ ~gaveUp /\ stale \cap {"text", "led"} = {}

\* A text of which the device reports as many strokes queued as there are is what
\* the target received, key by key and on either channel, if nothing disturbed it
\* -- but for a report of 0 of 0, which is that of a target that was not there.
TypedInFull == AllQueued /\ typing.len # 0 /\ Undisturbed => target.text = typing.text

\* The same with the report of 0 of 0, as components/hid_device/README.md has it:
\* "When `queued == len` the device put every keystroke on the wire".
QueuedAll == AllQueued /\ Undisturbed => target.text = typing.text

\* The keypad never moves the cursor instead of typing a digit: it is used only
\* while Num Lock is on (hid_ensure_num_lock), unless an earlier wait for the LED
\* gave up or the LED belongs to another target.
KeypadConfirmed ==
  ~gaveUp /\ "led" \notin stale => \A i \in DOMAIN target.text : target.text[i] # "arrow"

\* The same without the first exception, as the code promises it: "Never used
\* unless Num Lock was confirmed on -- otherwise the keypad emits arrows."
KeypadTypesDigits ==
  "led" \notin stale => \A i \in DOMAIN target.text : target.text[i] # "arrow"
=============================================================================
