------------------------- MODULE HidExecutor_proofs -------------------------
(***************************************************************************)
(* Proofs about HidExecutor, for any texts, any number of actions,         *)
(* emergencies and pulled cables, and at least two tries for a mouse       *)
(* report: what is pressed is released, the record of the device agrees    *)
(* with the target, a text that counts as queued is on the target, and the *)
(* keypad types digits.                                                    *)
(***************************************************************************)
EXTENDS HidExecutor, SequenceTheorems, TLAPS

Left     == {"left"}
Keyboard == {"enter", "win", "r", "ctrl", "numlock"} \cup Chars
Chords   == {{"enter"}, {"win", "r"}, {"ctrl", "a"}, {"numlock"}}
KeyOps   == {"keys", "char", "again", "charUp"}
MouseOps == {"move", "set", "add", "sub"}
Ops      == KeyOps \cup MouseOps \cup
              {"click", "press", "type", "next", "report", "numlock", "confirm", "retry"}

(* What a call does to the target: it presses, it releases.                *)
Strike(c)  == c.op \in {"char", "again"}
Down(c)    == Strike(c) \/ (c.op = "keys" /\ c.arg # {})
Up(c)      == c.op = "charUp" \/ (c.op = "keys" /\ c.arg = {})
Release(c) == c.op = "sub" \/ (c.op = "set" /\ c.arg = {})

(* Calls that are made as soon as they are in the script.                  *)
First(c) == \/ Down(c) \/ (c.op = "set" /\ c.arg # {})
            \/ (c.op = "press" /\ "numlock" \in c.arg) \/ c.op = "numlock"
Typed(c) == c.op \in {"type", "next", "char", "again", "charUp"}

Fitting(c) ==
  /\ Strike(c) => \E k \in Chars : c.arg = {k}
  /\ c.op = "keys" /\ c.arg # {} => c.arg \in Chords
  /\ c.op = "press" => c.arg \in Chords
  /\ c.op \in {"add", "sub", "click"} => c.arg = Left
  /\ c.op = "set" => c.arg \subseteq Left
  /\ c.op \in {"move", "charUp", "type", "next", "report", "numlock", "confirm"} => c.arg = {}
  /\ c.op = "retry" => c.arg = {"enter"}
Steps == {c \in [op : Ops, arg : SUBSET (Keyboard \cup Left)] : Fitting(c)}

(* A script: the call at hand, and the calls after it.                     *)
NoStep   == Do("none", {})
Now(s)   == IF s = <<>> THEN NoStep ELSE s[1]
Rest(s)  == {s[i] : i \in 2 .. Len(s)}
Items(s) == {s[i] : i \in 1 .. Len(s)}
Has(S, op) == \E c \in S : c.op = op
Frees(S)   == \E c \in S : Release(c)

(* What comes before what.                                                 *)
Before(a, b) == /\ a.op # "report" /\ ~First(b)
                /\ Typed(a) => b.op # "type"
                /\ a.op = "sub" => b.op # "add"
Ordered(s) == \A i, j \in 1 .. Len(s) : i < j => Before(s[i], s[j])

(* What is pressed is released by the next call, or in a drag later on.    *)
Paired(s) ==
  /\ Strike(Now(s)) => Len(s) > 1 /\ s[2].op = "charUp" /\ Has(Rest(s), "next")
  /\ Down(Now(s)) /\ ~Strike(Now(s)) => Len(s) > 1 /\ Up(s[2])
  /\ Now(s).op = "set" /\ Now(s).arg # {} => Len(s) > 1 /\ s[2] = Do("set", {})
  /\ Now(s).op = "add" \/ Has(Rest(s), "add") => Has(Rest(s), "sub")
  /\ "numlock" \in Now(s).arg => Has(Rest(s), "confirm")
  /\ Now(s).op = "numlock" => ~Has(Rest(s), "confirm")

Good(s) == s \in Seq(Steps) /\ Ordered(s) /\ Paired(s)

(* The two scripts, the call each is at, and what a report may be.         *)
L == script["loop"]
H == script["httpd"]
Releasing == {<<>>, ReleaseAll, <<Do("set", {})>>}

Phases  == {"none", "wait", "claim", "sent", "failed"}
Reports == {r \in [kind : {"none", "keys", "mouse"}, down : SUBSET (Keyboard \cup Left)] :
              r.kind = "none" => r.down = {}}
Calls   == [report : Reports, phase : Phases, tries : Nat]
Marks   == Keyboard \cup {"arrow"}
Targets == [keys : SUBSET (Keyboard \cup Left), buttons : SUBSET (Keyboard \cup Left),
            text : Seq(Marks), numLock : BOOLEAN]
Typings == [text : Seq(Symbols), len : Nat, at : Nat, queued : Nat,
            keypad : BOOLEAN, done : BOOLEAN]

TypeInv ==
  /\ mounted \in BOOLEAN /\ ledSeen \in BOOLEAN /\ led \in BOOLEAN /\ leds \in Seq(BOOLEAN)
  /\ endpoint \in Reports /\ held \subseteq Left
  /\ pc \in {"idle", "batch", "action"} /\ emergency \in BOOLEAN
  /\ script \in [Tasks -> Seq(Steps)] /\ call \in [Tasks -> Calls]
  /\ target \in Targets /\ typing \in Typings
  /\ dropped \in BOOLEAN /\ gaveUp \in BOOLEAN

ScriptInv ==
  /\ Good(L) /\ H \in Releasing
  /\ pc = "idle" => L \in Releasing
  /\ pc = "batch" => L = <<>>

(* The report of a call is that of the call at hand; two tasks that both   *)
(* found the endpoint free have not used it; an unplugged target has       *)
(* nothing down.                                                           *)
Fits(c, r) == \/ c.op \in KeyOps /\ r = Keys(c.arg)
              \/ c.op \in MouseOps /\ r.kind = "mouse" /\ (Release(c) => r.down = {})
CallInv ==
  /\ \A t \in Tasks : call[t].phase # "none" => Fits(Now(script[t]), call[t].report)
  /\ call["loop"].phase = "claim" /\ call["httpd"].phase = "claim" => endpoint = NoReport
  /\ ~mounted => endpoint = NoReport /\ target.keys = {} /\ target.buttons = {}

Basic == TypeInv /\ ScriptInv /\ CallInv

-----------------------------------------------------------------------------
(* Sequences.                                                              *)

(* What is left of a script. *)
LEMMA TailFacts ==
  ASSUME NEW S, NEW s \in Seq(S), s # <<>>
  PROVE  /\ Tail(s) \in Seq(S) /\ Len(Tail(s)) = Len(s) - 1 /\ Len(s) \in Nat \ {0}
         /\ \A i \in 1 .. Len(s) - 1 : Tail(s)[i] = s[i + 1]
         /\ Items(Tail(s)) = Rest(s) /\ Items(s) = {s[1]} \cup Rest(s)
         /\ Tail(s) = <<>> <=> Len(s) = 1
         /\ Tail(s) # <<>> => /\ Len(s) > 1 /\ Tail(s)[1] = s[2]
                              /\ Rest(s) = {s[2]} \cup Rest(Tail(s))
         /\ Tail(s) = <<>> => Rest(s) = {}
<1> DEFINE t == Tail(s)
<1>1. t \in Seq(S) /\ Len(t) = Len(s) - 1 /\ Len(s) \in Nat \ {0}
      /\ \A i \in 1 .. Len(s) - 1 : t[i] = s[i + 1]
  OBVIOUS
<1>2. t = <<>> <=> Len(t) = 0
  BY <1>1, SMTT(40)
<1> HIDE DEF t
<1>3. \A n \in Nat : /\ \A i \in 2 .. n : i - 1 \in 1 .. n - 1 /\ (i - 1) + 1 = i
                     /\ \A i \in 1 .. n - 1 : i + 1 \in 2 .. n
                     /\ \A i \in 1 .. n : i = 1 \/ i \in 2 .. n
                     /\ 2 .. n \subseteq 1 .. n
  OBVIOUS
<1>4. Items(t) = Rest(s)
  <2>1. ASSUME NEW c \in Items(t) PROVE c \in Rest(s)
    BY <1>1, <1>3 DEF Items, Rest
  <2>2. ASSUME NEW c \in Rest(s) PROVE c \in Items(t)
    <3>1. PICK i \in 2 .. Len(s) : c = s[i]
      BY DEF Rest
    <3>2. i - 1 \in 1 .. Len(t) /\ t[i - 1] = s[i]
      BY <1>1, <1>3
    <3>3. QED
      BY <3>1, <3>2 DEF Items
  <2>3. QED
    BY <2>1, <2>2
<1>5. \A q \in Seq(S) : Len(q) > 0 => Items(q) = {q[1]} \cup Rest(q)
  <2>1. ASSUME NEW q \in Seq(S), Len(q) > 0 PROVE Items(q) = {q[1]} \cup Rest(q)
    <3>1. Len(q) \in Nat /\ 1 \in 1 .. Len(q)
      BY <2>1
    <3>2. QED
      BY <3>1, <1>3 DEF Items, Rest
  <2>2. QED
    BY <2>1
<1>6. t # <<>> => Len(s) > 1 /\ t[1] = s[2] /\ Rest(s) = {s[2]} \cup Rest(t)
  <2>1. ASSUME t # <<>> PROVE Len(s) > 1 /\ t[1] = s[2]
    BY <2>1, <1>1, <1>2
  <2>2. t # <<>> => Len(t) > 0
    BY <1>1, <1>2
  <2>3. QED
    BY <2>1, <2>2, <1>1, <1>4, <1>5
<1>7. Len(s) = 1 => Rest(s) = {}
  BY DEF Rest
<1>8. QED
  BY <1>1, <1>2, <1>4, <1>5, <1>6, <1>7 DEF t

(* A script without its first call is another script. *)
LEMMA Shorter == ASSUME NEW S, NEW s \in Seq(S), s # <<>> PROVE Tail(s) # s
<1> DEFINE t == Tail(s)
<1>1. Len(t) = Len(s) - 1 /\ Len(s) \in Nat
  BY TailFacts
<1> HIDE DEF t
<1>2. t # s
  BY <1>1
<1>3. QED
  BY <1>2 DEF t

(* What is put before the rest of a script. *)
LEMMA PutOne ==
  ASSUME NEW S, NEW a \in S, NEW t \in Seq(S)
  PROVE  /\ <<a>> \o t \in Seq(S) /\ Len(<<a>> \o t) = 1 + Len(t)
         /\ (<<a>> \o t)[1] = a /\ Tail(<<a>> \o t) = t /\ <<a>> \o t # <<>>
  OBVIOUS

(* Two calls before the rest of a script are put one after the other. *)
LEMMA PutTwo ==
  ASSUME NEW S, NEW a \in S, NEW b \in S, NEW t \in Seq(S)
  PROVE  <<a, b>> \o t = <<a>> \o (<<b>> \o t)
<1>1. <<a>> \in Seq(S) /\ <<b>> \in Seq(S) /\ Len(<<a>>) = 1 /\ Len(<<b>>) = 1
  OBVIOUS
<1>2. /\ <<a>> \o <<b>> \in Seq(S) /\ Len(<<a>> \o <<b>>) = 2
      /\ (<<a>> \o <<b>>)[1] = a /\ (<<a>> \o <<b>>)[2] = b
  BY <1>1, ConcatProperties
<1>3. <<a, b>> \in Seq(S) /\ Len(<<a, b>>) = 2 /\ <<a, b>>[1] = a /\ <<a, b>>[2] = b
  OBVIOUS
<1>4. \A i \in 1 .. 2 : i = 1 \/ i = 2
  OBVIOUS
<1>5. <<a, b>> = <<a>> \o <<b>>
  <2> DEFINE u == <<a, b>>
             v == <<a>> \o <<b>>
  <2>1. u \in Seq(S) /\ v \in Seq(S) /\ Len(u) = Len(v) /\ \A i \in 1 .. Len(u) : u[i] = v[i]
    BY <1>2, <1>3, <1>4
  <2> HIDE DEF u, v
  <2>2. u = v
    BY <2>1, SeqEqual
  <2>3. QED
    BY <2>2 DEF u, v
<1>6. QED
  BY <1>1, <1>5, ConcatAssociative

-----------------------------------------------------------------------------
(* Scripts.                                                                *)

(* So are three. *)
LEMMA PutThree ==
  ASSUME NEW a \in Steps, NEW b \in Steps, NEW c \in Steps, NEW t \in Seq(Steps)
  PROVE  (<<a, b>> \o <<c>>) \o t = <<a>> \o (<<b>> \o (<<c>> \o t))
<1>1. <<a, b>> \in Seq(Steps) /\ <<c>> \in Seq(Steps) /\ <<c>> \o t \in Seq(Steps)
  OBVIOUS
<1>2. (<<a, b>> \o <<c>>) \o t = <<a, b>> \o (<<c>> \o t)
  BY <1>1, ConcatAssociative
<1> DEFINE w == <<c>> \o t
<1>3. w \in Seq(Steps)
  BY <1>1
<1> HIDE DEF w
<1>4. <<a, b>> \o w = <<a>> \o (<<b>> \o w)
  BY <1>3, PutTwo
<1>5. QED
  BY <1>2, <1>4 DEF w

(* An empty script has no call. *)
LEMMA EmptyGood == Good(<<>>) /\ Items(<<>>) = {} /\ Rest(<<>>) = {} /\ Now(<<>>) = NoStep
<1>1. Len(<<>>) = 0 /\ <<>> \in Seq(Steps) /\ 1 .. 0 = {} /\ 2 .. 0 = {}
  OBVIOUS
<1>2. Items(<<>>) = {} /\ Rest(<<>>) = {}
  BY <1>1 DEF Items, Rest
<1>3. Now(<<>>) = NoStep /\ NoStep.op = "none" /\ NoStep.arg = {}
  BY DEF Now, NoStep, Do
<1>4. ~Strike(NoStep) /\ ~Down(NoStep)
  BY <1>3 DEF Strike, Down
<1>5. Ordered(<<>>)
  BY <1>1 DEF Ordered
<1>6. QED
  BY <1>1, <1>2, <1>3, <1>4, <1>5 DEF Good, Paired, Has

(* What is left of a script has no call that must be at hand. *)
LEMMA Advanced ==
  ASSUME NEW s, Good(s), s # <<>>
  PROVE  /\ Good(Tail(s)) /\ Items(Tail(s)) = Rest(s)
         /\ \A c \in Rest(s) : Before(s[1], c)
         /\ \/ Tail(s) = <<>> /\ Rest(s) = {} /\ Len(s) = 1 /\ Now(Tail(s)) = NoStep
            \/ /\ Tail(s) # <<>> /\ Len(s) > 1 /\ Now(Tail(s)) = s[2]
               /\ s[2] \in Rest(s) /\ Rest(s) = {s[2]} \cup Rest(Tail(s))
<1> DEFINE t == Tail(s)
<1>1. /\ t \in Seq(Steps) /\ Len(t) = Len(s) - 1 /\ Len(s) \in Nat \ {0}
      /\ \A i \in 1 .. Len(s) - 1 : t[i] = s[i + 1]
      /\ Items(t) = Rest(s) /\ Items(s) = {s[1]} \cup Rest(s)
      /\ t = <<>> <=> Len(s) = 1
      /\ t # <<>> => Len(s) > 1 /\ t[1] = s[2] /\ Rest(s) = {s[2]} \cup Rest(t)
      /\ t = <<>> => Rest(s) = {}
  BY TailFacts DEF Good
<1> HIDE DEF t
<1>2. \A n \in Nat \ {0} : /\ \A i, j \in 1 .. n - 1 : i < j => i + 1 \in 1 .. n /\ j + 1 \in 1 .. n /\ i + 1 < j + 1
                           /\ 1 \in 1 .. n /\ \A i \in 2 .. n : i \in 1 .. n /\ 1 < i
  OBVIOUS
<1>3. Ordered(t)
  BY <1>1, <1>2 DEF Ordered, Good
<1>4. \A c \in Rest(s) : Before(s[1], c)
  BY <1>1, <1>2 DEF Ordered, Good, Rest
<1>5. CASE t = <<>>
  BY <1>1, <1>4, <1>5, EmptyGood DEF t, Now
<1>6. CASE t # <<>>
  <2>1. Now(t) = s[2] /\ s[2] \in Rest(s) /\ Now(s) = s[1]
    BY <1>1, <1>6 DEF Now
  <2>2. ~First(s[2])
    BY <2>1, <1>4 DEF Before
  <2>3. Has(Rest(s), "add") => Has(Rest(s), "sub")
    BY DEF Good, Paired
  <2>4. ASSUME s[2].op = "add" \/ Has(Rest(t), "add") PROVE Has(Rest(t), "sub")
    <3>1. Has(Rest(s), "add")
      BY <2>1, <2>4, <1>1, <1>6 DEF Has
    <3>2. Has(Rest(s), "sub")
      BY <3>1, <2>3
    <3>3. PICK c \in Rest(s) : c.op = "sub"
      BY <3>2 DEF Has
    <3>4. CASE c \in Rest(t)
      BY <3>3, <3>4 DEF Has
    <3>5. CASE c = s[2]
      <4>1. PICK d \in Rest(t) : d.op = "add"
        BY <2>4, <3>3, <3>5 DEF Has
      <4>2. t \in Seq(Steps) /\ t # <<>> /\ 1 \in 1 .. Len(t)
        BY <1>1, <1>2, <1>6
      <4>3. PICK j \in 2 .. Len(t) : d = t[j]
        BY <4>1 DEF Rest
      <4>4. 1 < j /\ j \in 1 .. Len(t)
        BY <4>2, <4>3, <1>1
      <4>5. Before(t[1], d)
        BY <4>2, <4>3, <4>4, <1>3 DEF Ordered
      <4>6. t[1] = s[2]
        BY <1>1, <1>6
      <4>7. FALSE
        BY <4>1, <4>5, <4>6, <3>3, <3>5 DEF Before
      <4>8. QED
        BY <4>7
    <3>6. QED
      BY <3>3, <3>4, <3>5, <1>1, <1>6
  <2>5. "numlock" \notin s[2].arg
    <3>1. s[2] \in Steps /\ Fitting(s[2])
      <4>1. s[2] \in Steps
        BY <1>1, <1>6 DEF Good
      <4>2. QED
        BY <4>1 DEF Steps
    <3>2. s[2].op \in Ops
      BY <3>1 DEF Steps
    <3>3. "numlock" \notin Left /\ "numlock" \notin {"enter"} /\ "numlock" \notin Chars
      BY DEF Left, Chars
    <3>4. QED
      BY <2>2, <3>1, <3>2, <3>3 DEF First, Down, Strike, Fitting, Ops, KeyOps, MouseOps
  <2>6. Paired(t)
    BY <2>1, <2>2, <2>4, <2>5 DEF Paired, First, Down
  <2>7. QED
    BY <1>1, <1>3, <1>4, <1>6, <2>1, <2>6 DEF Good, t
<1>7. QED
  BY <1>5, <1>6

(* What may be put before a script. *)
LEMMA Put ==
  ASSUME NEW t, Good(t), NEW a \in Steps,
         \A c \in Items(t) : Before(a, c),
         Strike(a) => Now(t).op = "charUp" /\ Has(Items(t), "next"),
         Down(a) /\ ~Strike(a) => Up(Now(t)),
         a.op = "set" /\ a.arg # {} => Now(t) = Do("set", {}),
         a.op = "add" => Has(Items(t), "sub"),
         "numlock" \in a.arg => Has(Items(t), "confirm"),
         a.op = "numlock" => ~Has(Items(t), "confirm")
  PROVE  LET s == <<a>> \o t
         IN  Good(s) /\ s # <<>> /\ Now(s) = a /\ Rest(s) = Items(t) /\ Items(s) = {a} \cup Items(t)
<1> DEFINE s == <<a>> \o t
<1>1. /\ s \in Seq(Steps) /\ Len(s) = 1 + Len(t) /\ s[1] = a /\ Tail(s) = t /\ s # <<>>
      /\ t \in Seq(Steps) /\ Len(t) \in Nat
  BY PutOne DEF Good
<1> HIDE DEF s
<1>2. Rest(s) = Items(t) /\ Items(s) = {a} \cup Items(t) /\ Now(s) = a
      /\ \A i \in 1 .. Len(s) - 1 : t[i] = s[i + 1]
      /\ (t = <<>> <=> Len(s) = 1) /\ (t # <<>> => t[1] = s[2])
  BY <1>1, TailFacts DEF Now
<1>3. Ordered(s)
  <2>1. ASSUME NEW i \in 1 .. Len(s), NEW j \in 1 .. Len(s), i < j PROVE Before(s[i], s[j])
    <3>1. \A n \in Nat : \A k, l \in 1 .. 1 + n : k < l =>
            /\ l \in 2 .. 1 + n /\ l - 1 \in 1 .. n /\ (l - 1) + 1 = l
            /\ k = 1 \/ (k - 1 \in 1 .. n /\ (k - 1) + 1 = k /\ k - 1 < l - 1)
      OBVIOUS
    <3>2. /\ j \in 2 .. Len(s) /\ j - 1 \in 1 .. Len(t) /\ (j - 1) + 1 = j
          /\ i = 1 \/ (i - 1 \in 1 .. Len(t) /\ (i - 1) + 1 = i /\ i - 1 < j - 1)
      BY <2>1, <3>1, <1>1
    <3>3. CASE i = 1
      <4>1. s[j] \in Items(t)
        BY <3>2, <1>2 DEF Rest
      <4>2. QED
        BY <3>3, <4>1, <1>1
    <3>4. CASE i - 1 \in 1 .. Len(t) /\ (i - 1) + 1 = i /\ i - 1 < j - 1
      <4>1. Len(s) - 1 = Len(t)
        BY <1>1
      <4>2. t[i - 1] = s[i] /\ t[j - 1] = s[j]
        BY <3>2, <3>4, <4>1, <1>2
      <4>3. QED
        BY <3>2, <3>4, <4>2 DEF Good, Ordered
    <3>5. QED
      BY <3>2, <3>3, <3>4
  <2>2. QED
    BY <2>1 DEF Ordered
<1>4. Has(Items(t), "add") => Has(Items(t), "sub")
  <2>1. CASE t = <<>>
    BY <2>1, EmptyGood DEF Has
  <2>2. CASE t # <<>>
    <3>1. Items(t) = {Now(t)} \cup Rest(t)
      BY <2>2, <1>1, TailFacts DEF Now
    <3>2. QED
      BY <3>1 DEF Has, Good, Paired
  <2>3. QED
    BY <2>1, <2>2
<1>5. /\ t = <<>> => Now(t).op = "none" /\ Now(t).arg = {}
      /\ t # <<>> => Len(s) > 1 /\ s[2] = Now(t)
  BY <1>1, <1>2 DEF Now, NoStep, Do
<1>6. Paired(s)
  <2>1. Up(Now(t)) => t # <<>>
    BY <1>5 DEF Up
  <2>2. Now(t) = Do("set", {}) => t # <<>>
    BY <1>5 DEF Do
  <2>3. QED
    BY <1>2, <1>4, <1>5, <2>1, <2>2 DEF Paired
<1>7. QED
  BY <1>1, <1>2, <1>3, <1>6 DEF Good, s

(* The head of a script is the call at hand. *)
LEMMA HeadNow == \A s \in Seq(Steps) : s # <<>> => Head(s) = Now(s) /\ Now(s) = s[1] /\ Now(s) \in Steps
BY DEF Now

(* A call is in the set of calls. *)
LEMMA StepSet ==
  /\ \A op \in {"move", "type", "next", "report", "numlock", "confirm", "charUp", "keys", "set"} :
       Do(op, {}) \in Steps
  /\ \A op \in {"click", "set", "add", "sub"} : Do(op, {"left"}) \in Steps
  /\ \A op \in {"keys", "press"} : \A k \in Chords : Do(op, k) \in Steps
  /\ \A op \in {"char", "again"} : \A c \in Chars : Do(op, {c}) \in Steps
  /\ Do("retry", {"enter"}) \in Steps
<1>1. ASSUME NEW op \in {"move", "type", "next", "report", "numlock", "confirm", "charUp", "keys", "set"}
      PROVE  Do(op, {}) \in Steps
  BY <1>1 DEF Do, Steps, Fitting, Strike, Ops, KeyOps, MouseOps
<1>2. ASSUME NEW op \in {"click", "set", "add", "sub"}
      PROVE  Do(op, {"left"}) \in Steps
  BY <1>2 DEF Do, Steps, Fitting, Strike, Ops, KeyOps, MouseOps, Left
<1>3. \A k \in Chords : k \subseteq Keyboard \cup Left
  BY DEF Chords, Keyboard, Chars
<1>4. ASSUME NEW op \in {"keys", "press"}, NEW k \in Chords
      PROVE  Do(op, k) \in Steps
  BY <1>3, <1>4 DEF Do, Steps, Fitting, Strike, Ops, KeyOps, MouseOps
<1>5. ASSUME NEW op \in {"char", "again"}, NEW c \in Chars
      PROVE  Do(op, {c}) \in Steps
  BY <1>5 DEF Do, Steps, Fitting, Strike, Ops, KeyOps, MouseOps, Keyboard
<1>6. Do("retry", {"enter"}) \in Steps
  BY DEF Do, Steps, Fitting, Strike, Ops, KeyOps, MouseOps, Keyboard
<1>7. QED
  BY <1>1, <1>2, <1>4, <1>5, <1>6

(* What a call can be, by its operation. *)
LEMMA StepFacts ==
  ASSUME NEW c \in Steps
  PROVE  /\ c.op \in Ops /\ c = Do(c.op, c.arg) /\ c.arg \in SUBSET (Keyboard \cup Left)
         /\ Fitting(c)
BY DEF Steps, Do

(* What the release of an emergency is at. *)
LEMMA ReleasingFacts ==
  ASSUME NEW s \in Releasing
  PROVE  /\ Good(s)
         /\ \/ s = <<>> /\ Now(s) = NoStep /\ Rest(s) = {}
            \/ /\ s # <<>> /\ Now(s) = Do("keys", {}) /\ Rest(s) = {Do("set", {})}
               /\ Tail(s) = <<Do("set", {})>>
            \/ s # <<>> /\ Now(s) = Do("set", {}) /\ Rest(s) = {} /\ Tail(s) = <<>>
<1> DEFINE r == Do("set", {})
           k == Do("keys", {})
<1>1. r \in Steps /\ k \in Steps /\ r.op = "set" /\ r.arg = {} /\ k.op = "keys" /\ k.arg = {}
  BY StepSet DEF Do
<1> HIDE DEF r, k
<1>2. Before(k, r) /\ ~Strike(k) /\ ~Strike(r) /\ ~Down(k) /\ ~Down(r)
  BY <1>1 DEF Before, First, Down, Strike, Typed
<1>3. /\ <<r>> \o <<>> = <<r>> /\ <<k>> \o <<r>> = <<k, r>>
      /\ Tail(<<r>>) = <<>> /\ Tail(<<k, r>>) = <<r>>
  <2>1. <<>> \in Seq(Steps) /\ <<r>> \in Seq(Steps) /\ <<k, r>> \in Seq(Steps)
    BY <1>1
  <2>2. <<r>> \o <<>> = <<r>> /\ <<k, r>> \o <<>> = <<k, r>>
    BY <2>1, ConcatEmptySeq
  <2>3. <<k, r>> \o <<>> = <<k>> \o (<<r>> \o <<>>)
    BY <2>1, <1>1, PutTwo
  <2>4. \A a \in Steps : \A t \in Seq(Steps) : Tail(<<a>> \o t) = t
    BY PutOne
  <2>5. Tail(<<r>> \o <<>>) = <<>> /\ Tail(<<k>> \o <<r>>) = <<r>>
    BY <2>1, <2>4, <1>1
  <2>6. QED
    BY <2>2, <2>3, <2>5
<1>4. Good(<<r>>) /\ <<r>> # <<>> /\ Now(<<r>>) = r /\ Rest(<<r>>) = {} /\ Items(<<r>>) = {r}
  <2>1. \A c \in Items(<<>>) : Before(r, c)
    BY EmptyGood
  <2>2. LET q == <<r>> \o <<>>
        IN  Good(q) /\ q # <<>> /\ Now(q) = r /\ Rest(q) = Items(<<>>) /\ Items(q) = {r} \cup Items(<<>>)
    BY <1>1, <1>2, <2>1, EmptyGood, Put
  <2>3. QED
    BY <2>2, <1>3, EmptyGood
<1>5. Good(<<k, r>>) /\ <<k, r>> # <<>> /\ Now(<<k, r>>) = k /\ Rest(<<k, r>>) = {r}
  <2>1. \A c \in Items(<<r>>) : Before(k, c)
    BY <1>2, <1>4
  <2> DEFINE t == <<r>>
             q == <<k>> \o t
  <2>2. Good(t) /\ Now(t) = r /\ Items(t) = {r} /\ Rest(t) = {}
    BY <1>4
  <2>3. \A c \in Items(t) : Before(k, c)
    BY <2>1
  <2>4. q = <<k, r>>
    BY <1>3
  <2> HIDE DEF t, q
  <2>5. Good(<<k>> \o t) /\ <<k>> \o t # <<>> /\ Now(<<k>> \o t) = k /\ Rest(<<k>> \o t) = Items(t)
    BY <1>1, <1>2, <2>2, <2>3, Put
  <2>6. QED
    BY <2>2, <2>4, <2>5 DEF q
<1>6. s = <<>> \/ s = <<r>> \/ s = <<k, r>>
  BY DEF Releasing, ReleaseAll, r, k
<1>7. QED
  BY <1>3, <1>4, <1>5, <1>6, EmptyGood DEF r, k

(* A release under way stays one when its call at hand is done. *)
LEMMA ReleasingTail ==
  ASSUME NEW s \in Releasing, s # <<>>
  PROVE  Tail(s) \in Releasing
BY ReleasingFacts DEF Releasing

(* What a task is given to do is a good script. *)
LEMMA ScriptGood ==
  ASSUME NEW action \in Actions
  PROVE  /\ Good(Script(action)) /\ Script(action) # <<>>
         /\ ~First(Now(Script(action))) \/ Now(Script(action)) = Do("numlock", {})
         /\ ~Has(Items(Script(action)), "next") /\ ~Has(Items(Script(action)), "confirm")
<1> DEFINE Fine(s) == /\ Good(s) /\ s # <<>>
                      /\ ~First(Now(s)) \/ Now(s) = Do("numlock", {})
                      /\ ~Has(Items(s), "next") /\ ~Has(Items(s), "confirm")
<1>1. ASSUME NEW s \in Seq(Steps), s # <<>>, Ordered(s),
             \A i \in 1 .. Len(s) : s[i].op \notin {"next", "confirm"} /\ "numlock" \notin s[i].arg,
             ~First(s[1]) \/ s[1] = Do("numlock", {}),
             \A i \in 1 .. Len(s) : s[i].op = "add" => \E j \in 2 .. Len(s) : s[j].op = "sub"
      PROVE  Fine(s)
  <2>1. Now(s) = s[1] /\ Len(s) \in Nat \ {0} /\ 1 \in 1 .. Len(s)
        /\ \A i \in 2 .. Len(s) : i \in 1 .. Len(s)
    BY <1>1 DEF Now
  <2>2. ~Has(Items(s), "next") /\ ~Has(Items(s), "confirm") /\ ~Has(Rest(s), "confirm")
        /\ "numlock" \notin s[1].arg
    BY <1>1, <2>1 DEF Has, Items, Rest
  <2>3. ~Strike(s[1]) /\ ~Down(s[1]) /\ ~(s[1].op = "set" /\ s[1].arg # {})
    BY <1>1 DEF First, Down, Strike, Do
  <2>4. s[1].op = "add" \/ Has(Rest(s), "add") => Has(Rest(s), "sub")
    BY <1>1, <2>1 DEF Has, Rest
  <2>5. QED
    BY <1>1, <2>1, <2>2, <2>3, <2>4 DEF Good, Paired
<1> DEFINE mv == Do("move", {})
           ck == Do("click", {"left"})
           ad == Do("add", {"left"})
           sb == Do("sub", {"left"})
           en == Do("press", {"enter"})
           wr == Do("press", {"win", "r"})
           ca == Do("press", {"ctrl", "a"})
           ty == Do("type", {})
           rt == Do("retry", {"enter"})
           rp == Do("report", {})
           nl == Do("numlock", {})
<1>2. /\ mv \in Steps /\ ck \in Steps /\ ad \in Steps /\ sb \in Steps /\ en \in Steps /\ wr \in Steps
      /\ ca \in Steps /\ ty \in Steps /\ rt \in Steps /\ rp \in Steps /\ nl \in Steps
  BY StepSet DEF Chords
<1>3. /\ mv.op = "move" /\ ck.op = "click" /\ ad.op = "add" /\ sb.op = "sub" /\ en.op = "press"
      /\ wr.op = "press" /\ ca.op = "press" /\ ty.op = "type" /\ rt.op = "retry" /\ rp.op = "report"
      /\ nl.op = "numlock"
  BY DEF Do
<1>4. \A c \in {mv, ck, ad, sb, en, wr, ca, ty, rt, rp, nl} : "numlock" \notin c.arg
  BY DEF Do
<1> HIDE DEF mv, ck, ad, sb, en, wr, ca, ty, rt, rp, nl
<1>5. \A c \in {mv, ck, ad, sb, en, wr, ca, ty, rt, rp} : ~First(c)
  BY <1>3, <1>4 DEF First, Down, Strike
<1>6. \A a \in {mv, ck, ad, en, wr, ca, nl} : \A b \in {mv, ck, ad, sb, en, wr, ca, ty, rt, rp} : Before(a, b)
  BY <1>3, <1>5 DEF Before, Typed
<1>7. \A b \in {en, rt, rp} : Before(ty, b)
  BY <1>3, <1>5 DEF Before, Typed
<1> HIDE DEF Fine
<1>8. Fine(<<mv, ck>>)
  <2> DEFINE s == <<mv, ck>>
  <2>1. s \in Seq(Steps) /\ s # <<>> /\ Len(s) = 2 /\ s[1] = mv /\ s[2] = ck
    BY <1>2
  <2> HIDE DEF s
  <2>2. Ordered(s)
    BY <2>1, <1>6 DEF Ordered
  <2>3. \A i \in 1 .. 2 : i = 1 \/ i = 2
    OBVIOUS
  <2>4. s[1].op # "add" /\ 1 .. Len(s) = 1 .. 2
    BY <2>1, <1>3
  <2>5. QED
    BY <2>1, <2>2, <2>3, <2>4, <1>1, <1>3, <1>4, <1>5 DEF s
<1>9. Fine(<<ck, ck>>)
  <2> DEFINE s == <<ck, ck>>
  <2>1. s \in Seq(Steps) /\ s # <<>> /\ Len(s) = 2 /\ s[1] = ck /\ s[2] = ck
    BY <1>2
  <2> HIDE DEF s
  <2>2. Ordered(s)
    BY <2>1, <1>6 DEF Ordered
  <2>3. \A i \in 1 .. 2 : i = 1 \/ i = 2
    OBVIOUS
  <2>4. s[1].op # "add" /\ 1 .. Len(s) = 1 .. 2
    BY <2>1, <1>3
  <2>5. QED
    BY <2>1, <2>2, <2>3, <2>4, <1>1, <1>3, <1>4, <1>5 DEF s
<1>10. Fine(<<mv, ad, mv, sb>>)
  <2> DEFINE s == <<mv, ad, mv, sb>>
  <2>1. s \in Seq(Steps) /\ s # <<>> /\ Len(s) = 4 /\ s[1] = mv /\ s[2] = ad /\ s[3] = mv /\ s[4] = sb
    BY <1>2
  <2> HIDE DEF s
  <2>2. \A i \in 1 .. 4 : i = 1 \/ i = 2 \/ i = 3 \/ i = 4
    OBVIOUS
  <2>3. Ordered(s)
    BY <2>1, <2>2, <1>6 DEF Ordered
  <2>4. 4 \in 2 .. Len(s) /\ s[4].op = "sub"
    BY <2>1, <1>3
  <2>5. QED
    BY <2>1, <2>2, <2>3, <2>4, <1>1, <1>3, <1>4, <1>5 DEF s
<1>11. \A a \in {sb, en} : Fine(<<a>>)
  <2> SUFFICES ASSUME NEW a \in {sb, en} PROVE Fine(<<a>>)
    OBVIOUS
  <2> DEFINE s == <<a>>
  <2>1. s \in Seq(Steps) /\ s # <<>> /\ Len(s) = 1 /\ s[1] = a
    BY <1>2
  <2> HIDE DEF s
  <2>2. Ordered(s)
    BY <2>1 DEF Ordered
  <2>3. \A i \in 1 .. 1 : i = 1
    OBVIOUS
  <2>4. s[1].op # "add" /\ 1 .. Len(s) = 1 .. 1
    BY <2>1, <1>3
  <2>5. QED
    BY <2>1, <2>2, <2>3, <2>4, <1>1, <1>3, <1>4, <1>5 DEF s
<1>12. Fine(<<wr, ca, ty, en, rt>>)
  <2> DEFINE s == <<wr, ca, ty, en, rt>>
  <2>1. s \in Seq(Steps) /\ s # <<>> /\ Len(s) = 5 /\ s[1] = wr /\ s[2] = ca /\ s[3] = ty
        /\ s[4] = en /\ s[5] = rt
    BY <1>2
  <2> HIDE DEF s
  <2>2. \A i \in 1 .. 5 : i = 1 \/ i = 2 \/ i = 3 \/ i = 4 \/ i = 5
    OBVIOUS
  <2>3. Ordered(s)
    BY <2>1, <2>2, <1>6, <1>7 DEF Ordered
  <2>4. QED
    BY <2>1, <2>2, <2>3, <1>1, <1>3, <1>4, <1>5, ZenonT(40) DEF s
<1>13. Fine(<<ty, rp>>)
  <2> DEFINE s == <<ty, rp>>
  <2>1. s \in Seq(Steps) /\ s # <<>> /\ Len(s) = 2 /\ s[1] = ty /\ s[2] = rp
    BY <1>2
  <2> HIDE DEF s
  <2>2. Ordered(s)
    BY <2>1, <1>7 DEF Ordered
  <2>3. \A i \in 1 .. 2 : i = 1 \/ i = 2
    OBVIOUS
  <2>4. s[1].op # "add" /\ 1 .. Len(s) = 1 .. 2
    BY <2>1, <1>3
  <2>5. QED
    BY <2>1, <2>2, <2>3, <2>4, <1>1, <1>3, <1>4, <1>5 DEF s
<1>14. Fine(<<nl, ty, rp>>)
  <2> DEFINE s == <<nl, ty, rp>>
  <2>1. s \in Seq(Steps) /\ s # <<>> /\ Len(s) = 3 /\ s[1] = nl /\ s[2] = ty /\ s[3] = rp
    BY <1>2
  <2> HIDE DEF s
  <2>2. \A i \in 1 .. 3 : i = 1 \/ i = 2 \/ i = 3
    OBVIOUS
  <2>3. Ordered(s)
    BY <2>1, <2>2, <1>6, <1>7 DEF Ordered
  <2>4. nl = Do("numlock", {})
    BY DEF nl
  <2>5. QED
    BY <2>1, <2>2, <2>3, <2>4, <1>1, <1>3, <1>4, <1>5, ZenonT(40) DEF s
<1>15. Fine(Script(action))
  <2> USE DEF Script, mv, ck, ad, sb, en, wr, ca, ty, rt, rp, nl
  <2>1. CASE action = "click"
    BY <2>1, <1>8
  <2>2. CASE action = "double"
    BY <2>2, <1>9
  <2>3. CASE action = "drag"
    BY <2>3, <1>10
  <2>4. CASE action = "release"
    BY <2>4, <1>11
  <2>5. CASE action = "press"
    BY <2>5, <1>11
  <2>6. CASE action = "run"
    BY <2>6, <1>12
  <2>7. CASE action = "type"
    BY <2>7, <1>13
  <2>8. CASE action = "keypad"
    BY <2>8, <1>14
  <2>9. QED
    BY <2>1, <2>2, <2>3, <2>4, <2>5, <2>6, <2>7, <2>8 DEF Actions
<1>16. QED
  BY <1>15 DEF Fine

-----------------------------------------------------------------------------
(* What the steps of the loop do to its script.                            *)

(* The parts of the state a step can be read from. *)
LEMMA Known ==
  ASSUME Basic
  PROVE  /\ script \in [Tasks -> Seq(Steps)] /\ call \in [Tasks -> Calls]
         /\ L \in Seq(Steps) /\ H \in Seq(Steps) /\ H \in Releasing /\ Good(L) /\ Good(H)
         /\ L # <<>> => Head(L) = Now(L) /\ Now(L) \in Steps /\ Now(L) = L[1]
         /\ H # <<>> => Head(H) = Now(H) /\ Now(H) \in {Do("keys", {}), Do("set", {})}
         /\ L = <<>> => Now(L) = NoStep
         /\ H = <<>> => Now(H) = NoStep
         /\ "loop" \in Tasks /\ "httpd" \in Tasks /\ Tasks = {"loop", "httpd"}
<1>1. /\ script \in [Tasks -> Seq(Steps)] /\ call \in [Tasks -> Calls] /\ H \in Releasing
      /\ Good(L) /\ "loop" \in Tasks /\ "httpd" \in Tasks /\ Tasks = {"loop", "httpd"}
  BY DEF Basic, TypeInv, ScriptInv, Tasks
<1>2. L \in Seq(Steps) /\ H \in Seq(Steps)
  BY <1>1 DEF L, H
<1>3. Good(H) /\ (H # <<>> => Now(H) \in {Do("keys", {}), Do("set", {})})
  BY <1>1, ReleasingFacts
<1>4. QED
  BY <1>1, <1>2, <1>3, HeadNow DEF Now

(* A step of an action is only made in an action. *)
LEMMA InAction ==
  ASSUME Basic, Now(L).op \notin {"none", "keys", "set"}
  PROVE  pc = "action" /\ L # <<>> /\ Now(L) \in Steps
<1>1. L # <<>> /\ Now(L) \in Steps
  BY Known DEF NoStep, Do
<1>2. L \notin Releasing
  BY <1>1, ReleasingFacts DEF Do
<1>3. QED
  BY <1>1, <1>2 DEF Basic, ScriptInv, TypeInv

(* A call of a task belongs to what it is at. *)
LEMMA Calling ==
  ASSUME Basic, NEW t \in Tasks, call[t].phase # "none"
  PROVE  /\ script[t] # <<>> /\ Head1(t) = Now(script[t])
         /\ \/ Now(script[t]).op \in KeyOps /\ call[t].report = Keys(Now(script[t]).arg)
            \/ /\ Now(script[t]).op \in MouseOps /\ call[t].report.kind = "mouse"
               /\ Release(Now(script[t])) => call[t].report.down = {}
<1>1. Fits(Now(script[t]), call[t].report)
  BY DEF Basic, CallInv
<1>2. script[t] # <<>>
  BY <1>1 DEF Fits, Now, NoStep, Do, KeyOps, MouseOps
<1>3. script[t] \in Seq(Steps)
  BY Known
<1>4. QED
  BY <1>1, <1>2, <1>3, HeadNow DEF Fits, Head1

(* Before the rest of a script, what is not the end of anything may be put. *)
LEMMA PutBefore ==
  ASSUME NEW s, Good(s), s # <<>>, NEW a \in Steps,
         a.op \notin {"report", "sub", "add", "numlock"},
         Typed(a) => Typed(Now(s)),
         ~Strike(a), Down(a) => FALSE, a.op = "set" => a.arg = {},
         "numlock" \notin a.arg
  PROVE  LET u == <<a>> \o Tail(s)
         IN  Good(u) /\ u # <<>> /\ Now(u) = a /\ Rest(u) = Rest(s) /\ Items(u) = {a} \cup Rest(s)
<1>1. Good(Tail(s)) /\ Items(Tail(s)) = Rest(s) /\ (\A c \in Rest(s) : Before(s[1], c)) /\ Now(s) = s[1]
  BY Advanced DEF Now
<1>2. \A c \in Items(Tail(s)) : Before(a, c)
  BY <1>1 DEF Before
<1>3. QED
  BY <1>1, <1>2, Put

(* hid_type_string starts with its first character, or not at all. *)
LEMMA TypeScript ==
  ASSUME Basic, Type
  PROVE  /\ Good(L') /\ H' = H /\ pc = "action" /\ pc' = "action"
         /\ L # <<>> /\ Now(L) = Do("type", {}) /\ ~Has(Rest(L), "type")
         /\ \/ L' = Tail(L) /\ ~mounted
            \/ mounted /\ L' # <<>> /\ Now(L') = Do("next", {}) /\ Rest(L') = Rest(L)
<1>1. /\ script["loop"] # <<>> /\ Head1("loop").op = "type" /\ pc' = pc
      /\ script' = [script EXCEPT !["loop"] = (IF mounted THEN <<Do("next", {})>> ELSE <<>>) \o Tail(@)]
  BY DEF Type, Replace
<1>2. L # <<>> /\ Now(L).op = "type" /\ Now(L) \in Steps
  BY <1>1, Known DEF Head1, L
<1>3. Now(L) = Do("type", {}) /\ pc = "action"
  BY <1>2, InAction, StepFacts DEF Fitting, Do
<1>4. /\ H' = H /\ L' = (IF mounted THEN <<Do("next", {})>> ELSE <<>>) \o Tail(L)
  BY <1>1, Known DEF L, H
<1>5. Good(Tail(L)) /\ Items(Tail(L)) = Rest(L) /\ \A c \in Rest(L) : Before(Now(L), c)
  BY <1>2, Known, Advanced DEF Now
<1>6. ~Has(Rest(L), "type")
  BY <1>2, <1>5 DEF Has, Before, Typed
<1>7. CASE mounted
  <2> DEFINE a == Do("next", {})
  <2>1. a \in Steps /\ a.op = "next" /\ a.arg = {}
    BY StepSet DEF Do
  <2> HIDE DEF a
  <2>2. ~Strike(a) /\ ~Down(a)
    BY <2>1 DEF Strike, Down
  <2>3. Typed(Now(L))
    BY <1>2 DEF Typed
  <2>4. LET u == <<a>> \o Tail(L)
        IN  Good(u) /\ u # <<>> /\ Now(u) = a /\ Rest(u) = Rest(L)
    BY <1>2, <2>1, <2>2, <2>3, Known, PutBefore
  <2>5. QED
    BY <1>1, <1>2, <1>3, <1>4, <1>6, <1>7, <2>4 DEF a
<1>8. CASE ~mounted
  <2>1. L' = Tail(L)
    BY <1>4, <1>5, <1>8, ConcatEmptySeq DEF Good
  <2>2. QED
    BY <1>1, <1>2, <1>3, <1>4, <1>5, <1>6, <1>8, <2>1
<1>9. QED
  BY <1>7, <1>8

(* A character with a key becomes a key-down and a key-up. *)
LEMMA NextCharScript ==
  ASSUME Basic, NextChar
  PROVE  /\ Good(L') /\ H' = H /\ pc = "action" /\ pc' = "action"
         /\ L # <<>> /\ Now(L) = Do("next", {}) /\ ~Has(Rest(L), "type")
         /\ \/ L' = Tail(L) /\ ~(typing.at < Len(typing.text)) /\ typing' = typing
            \/ /\ typing.at < Len(typing.text) /\ typing' = [typing EXCEPT !.at = @ + 1]
               /\ L' # <<>>
               /\ LET c == typing.text[typing.at + 1]
                  IN  IF c \in Chars
                      THEN /\ Now(L') = Do("char", {Channel(c)})
                           /\ Rest(L') = {Do("charUp", {}), Do("next", {})} \cup Rest(L)
                      ELSE Now(L') = Do("next", {}) /\ Rest(L') = Rest(L)
<1>1. /\ script["loop"] # <<>> /\ Head1("loop").op = "next" /\ pc' = pc
  BY DEF NextChar
<1>2. L # <<>> /\ Now(L).op = "next" /\ Now(L) \in Steps
  BY <1>1, Known DEF Head1, L
<1>3. Now(L) = Do("next", {}) /\ pc = "action"
  BY <1>2, InAction, StepFacts DEF Fitting, Do
<1>4. Good(Tail(L)) /\ Items(Tail(L)) = Rest(L) /\ \A c \in Rest(L) : Before(Now(L), c)
  BY <1>2, Known, Advanced DEF Now
<1>5. ~Has(Rest(L), "type")
  BY <1>2, <1>4 DEF Has, Before, Typed
<1> DEFINE a == Do("next", {})
           b == Do("charUp", {})
           c == typing.text[typing.at + 1]
<1>6. a \in Steps /\ a.op = "next" /\ a.arg = {} /\ b \in Steps /\ b.op = "charUp" /\ b.arg = {}
  BY StepSet DEF Do
<1>7. ~Strike(a) /\ ~Down(a) /\ ~Strike(b) /\ ~Down(b) /\ Typed(a) /\ Typed(b) /\ Typed(Now(L))
  BY <1>2, <1>6 DEF Strike, Down, Typed
<1> HIDE DEF a, b, c
<1>8. LET u == <<a>> \o Tail(L)
      IN  Good(u) /\ u # <<>> /\ Now(u) = a /\ Rest(u) = Rest(L) /\ Items(u) = {a} \cup Rest(L)
  BY <1>2, <1>6, <1>7, Known, PutBefore
<1>9. CASE ~(typing.at < Len(typing.text))
  <2>1. L' = Tail(L) /\ H' = H /\ typing' = typing
    BY <1>9, Known DEF NextChar, Advance, L, H
  <2>2. QED
    BY <1>1, <1>2, <1>3, <1>4, <1>5, <1>9, <2>1
<1>10. CASE typing.at < Len(typing.text) /\ c \notin Chars
  <2>1. /\ L' = (<<>> \o <<a>>) \o Tail(L) /\ H' = H /\ typing' = [typing EXCEPT !.at = @ + 1]
    BY <1>10, Known DEF NextChar, Replace, Stroke, L, H, a, c
  <2>2. <<>> \o <<a>> = <<a>>
    OBVIOUS
  <2>3. QED
    BY <1>1, <1>2, <1>3, <1>5, <1>8, <1>10, <2>1, <2>2 DEF a, c
<1>11. CASE typing.at < Len(typing.text) /\ c \in Chars
  <2> DEFINE d == Do("char", {Channel(c)})
             u == <<a>> \o Tail(L)
             v == <<b>> \o u
             w == <<d>> \o v
  <2>1. /\ L' = (<<d, b>> \o <<a>>) \o Tail(L) /\ H' = H /\ typing' = [typing EXCEPT !.at = @ + 1]
    BY <1>11, Known DEF NextChar, Replace, Stroke, L, H, a, b, c
  <2>2. Channel(c) \in Chars
    BY <1>11 DEF Channel, Chars
  <2>3. d \in Steps /\ d.op = "char" /\ d.arg = {Channel(c)}
    BY <2>2, StepSet DEF Do
  <2> HIDE DEF d
  <2>4. (<<d, b>> \o <<a>>) \o Tail(L) = w
    <3>1. Tail(L) \in Seq(Steps)
      BY <1>4 DEF Good
    <3>2. QED
      BY <3>1, <2>3, <1>6, PutThree, SMTT(40)
  <2>5. Good(u) /\ Now(u) = a /\ Items(u) = {a} \cup Rest(L)
    BY <1>8
  <2> HIDE DEF u
  <2>6. \A x \in Items(u) : ~First(x) /\ x.op # "type"
    BY <2>5, <1>4, <1>5, <1>6, <1>7 DEF Before, Has, First
  <2>7. \A x \in Items(u) : Before(b, x)
    BY <2>6, <1>6 DEF Before
  <2>8. Good(v) /\ Now(v) = b /\ Items(v) = {b} \cup Items(u)
    BY <2>5, <2>7, <1>6, <1>7, Put
  <2> HIDE DEF v
  <2>9. Strike(d) /\ "numlock" \notin d.arg
    BY <2>2, <2>3 DEF Strike, Chars
  <2>10. \A x \in Items(v) : Before(d, x)
    BY <2>6, <2>8, <2>3, <1>6, <1>7 DEF Before, First
  <2>11. Now(v).op = "charUp" /\ Has(Items(v), "next")
    BY <2>5, <2>8, <1>6 DEF Has
  <2>12. Good(w) /\ w # <<>> /\ Now(w) = d /\ Rest(w) = Items(v)
    BY <2>3, <2>8, <2>9, <2>10, <2>11, Put
  <2>13. Rest(w) = {b, a} \cup Rest(L)
    BY <2>5, <2>8, <2>12
  <2>14. QED
    BY <1>1, <1>2, <1>3, <1>5, <1>11, <2>1, <2>4, <2>12, <2>13 DEF a, b, c, d
<1>12. QED
  BY <1>9, <1>10, <1>11

(* A script without its first call: what that call pressed is released next. *)
LEMMA Passed ==
  ASSUME NEW s, Good(s), s # <<>>
  PROVE  /\ Good(Tail(s)) /\ Items(Tail(s)) = Rest(s) /\ ~First(Now(Tail(s)))
         /\ Tail(s) = <<>> => Now(Tail(s)) = NoStep /\ Rest(s) = {} /\ Rest(Tail(s)) = {}
         /\ Tail(s) # <<>> => /\ Now(Tail(s)) \in Rest(s) /\ Rest(s) = {Now(Tail(s))} \cup Rest(Tail(s))
                              /\ Before(Now(s), Now(Tail(s)))
         /\ Strike(Now(s)) => Now(Tail(s)).op = "charUp" /\ Tail(s) # <<>>
         /\ Down(Now(s)) => Up(Now(Tail(s)))
         /\ Now(s).op = "set" /\ Now(s).arg # {} => Now(Tail(s)) = Do("set", {})
<1>1. Now(s) = s[1]
  BY DEF Now
<1>2. /\ Good(Tail(s)) /\ Items(Tail(s)) = Rest(s)
      /\ \A c \in Rest(s) : Before(s[1], c)
      /\ \/ Tail(s) = <<>> /\ Rest(s) = {} /\ Len(s) = 1 /\ Now(Tail(s)) = NoStep
         \/ /\ Tail(s) # <<>> /\ Len(s) > 1 /\ Now(Tail(s)) = s[2]
            /\ s[2] \in Rest(s) /\ Rest(s) = {s[2]} \cup Rest(Tail(s))
  BY Advanced
<1>3. CASE Tail(s) = <<>>
  <2>1. Now(Tail(s)) = NoStep /\ Rest(s) = {} /\ Len(s) = 1 /\ ~(Len(s) > 1)
    BY <1>2, <1>3
  <2>2. ~First(NoStep)
    BY DEF First, Down, Strike, NoStep, Do
  <2>3. Rest(Tail(s)) = {}
    BY <1>3, EmptyGood
  <2>4. ~Down(Now(s)) /\ ~Strike(Now(s)) /\ ~(Now(s).op = "set" /\ Now(s).arg # {})
    BY <2>1 DEF Good, Paired, Down
  <2>5. QED
    BY <1>2, <1>3, <2>1, <2>2, <2>3, <2>4
<1>4. CASE Tail(s) # <<>>
  <2>1. /\ Now(Tail(s)) = s[2] /\ s[2] \in Rest(s) /\ Rest(s) = {s[2]} \cup Rest(Tail(s))
        /\ Before(Now(s), s[2]) /\ ~First(s[2])
    BY <1>1, <1>2, <1>4 DEF Before
  <2>2. Strike(Now(s)) => s[2].op = "charUp"
    BY DEF Good, Paired
  <2>3. Down(Now(s)) => Up(s[2])
    BY <2>2 DEF Good, Paired, Up
  <2>4. Now(s).op = "set" /\ Now(s).arg # {} => s[2] = Do("set", {})
    BY DEF Good, Paired
  <2>5. QED
    BY <1>2, <1>4, <2>1, <2>2, <2>3, <2>4
<1>5. QED
  BY <1>3, <1>4

(* The end of a call of the loop: the key-down of a character is tried once *)
(* more, and then skipped with its key-up; otherwise the script goes on.    *)
LEMMA LoopReturns ==
  ASSUME Basic, Returns("loop")
  PROVE  /\ Good(L') /\ H' = H /\ pc' = pc /\ L # <<>> /\ Now(L) \in Steps
         /\ call["loop"].phase \in {"sent", "failed"} /\ call' = [call EXCEPT !["loop"] = NoCall]
         /\ pc = "idle" => L' = Tail(L)
         /\ \/ /\ L' = Tail(L) /\ (Strike(Now(L)) => call["loop"].phase = "sent")
            \/ /\ Now(L).op = "char" /\ call["loop"].phase = "failed"
               /\ L' # <<>> /\ Now(L') = Do("again", Now(L).arg) /\ Rest(L') = Rest(L)
            \/ /\ Now(L).op = "again" /\ call["loop"].phase = "failed"
               /\ ~First(Now(L')) /\ \E c \in Steps : c.op = "charUp" /\ Rest(L) = {c} \cup Items(L')
         /\ typing' = IF call["loop"].phase = "sent" /\ Strike(Now(L))
                      THEN [typing EXCEPT !.queued = @ + 1] ELSE typing
<1>1. /\ call["loop"].phase \in {"sent", "failed"} /\ call' = [call EXCEPT !["loop"] = NoCall]
      /\ pc' = pc
  BY DEF Returns
<1>2. /\ L # <<>> /\ Head1("loop") = Now(L) /\ Now(L) \in Steps /\ Good(L)
      /\ script \in [Tasks -> Seq(Steps)] /\ "loop" \in Tasks /\ "httpd" \in Tasks
  BY <1>1, Known, Calling DEF L
<1>3. /\ Good(Tail(L)) /\ Items(Tail(L)) = Rest(L) /\ ~First(Now(Tail(L)))
      /\ Tail(L) # <<>> => Rest(L) = {Now(Tail(L))} \cup Rest(Tail(L))
      /\ Strike(Now(L)) => Now(Tail(L)).op = "charUp" /\ Tail(L) # <<>>
  BY <1>2, Passed
<1>4. typing' = IF call["loop"].phase = "sent" /\ Strike(Now(L))
                THEN [typing EXCEPT !.queued = @ + 1] ELSE typing
  BY <1>2 DEF Returns, Strike
<1>5. pc = "idle" => ~Strike(Now(L))
  BY InAction DEF Strike
<1>6. CASE Now(L).op = "char" /\ call["loop"].phase = "failed"
  <2> DEFINE a == Do("again", Now(L).arg)
  <2>1. L' = <<a>> \o Tail(L) /\ H' = H
    BY <1>2, <1>6 DEF Returns, Replace, L, H
  <2>2. Strike(Now(L))
    BY <1>6 DEF Strike
  <2>3. PICK k \in Chars : Now(L).arg = {k}
    BY <1>2, <2>2, StepFacts DEF Fitting
  <2>4. a \in Steps /\ a.op = "again" /\ a.arg = Now(L).arg
    BY <2>3, StepSet DEF Do
  <2> HIDE DEF a
  <2>5. Strike(a) /\ "numlock" \notin a.arg
    BY <2>3, <2>4 DEF Strike, Chars
  <2>6. /\ Now(Tail(L)).op = "charUp" /\ Has(Items(Tail(L)), "next")
        /\ \A c \in Items(Tail(L)) : Before(a, c)
    <3>1. Has(Rest(L), "next") /\ \A c \in Rest(L) : Before(Now(L), c)
      BY <1>2, <2>2, Advanced DEF Good, Paired, Now
    <3>2. \A c \in Rest(L) : Before(a, c)
      BY <3>1, <1>6, <2>4 DEF Before, Typed
    <3>3. QED
      BY <3>1, <3>2, <1>3, <2>2
  <2>7. LET u == <<a>> \o Tail(L)
        IN  Good(u) /\ u # <<>> /\ Now(u) = a /\ Rest(u) = Items(Tail(L))
    BY <1>3, <2>4, <2>5, <2>6, Put
  <2>8. QED
    BY <1>1, <1>2, <1>3, <1>4, <1>5, <1>6, <2>1, <2>2, <2>7 DEF a
<1>7. CASE Now(L).op = "again" /\ call["loop"].phase = "failed"
  <2>1. L' = Tail(Tail(L)) /\ H' = H
    BY <1>2, <1>7 DEF Returns, L, H
  <2>2. Strike(Now(L)) /\ Tail(L) # <<>> /\ Now(Tail(L)).op = "charUp"
    BY <1>3, <1>7 DEF Strike
  <2>3. Good(Tail(Tail(L))) /\ Items(Tail(Tail(L))) = Rest(Tail(L)) /\ ~First(Now(Tail(Tail(L))))
    BY <1>3, <2>2, Passed
  <2>4. Now(Tail(L)) \in Steps
    BY <1>3, <2>2, HeadNow DEF Good
  <2>5. QED
    BY <1>1, <1>2, <1>3, <1>4, <1>5, <1>7, <2>1, <2>2, <2>3, <2>4
<1>8. CASE ~(Strike(Now(L)) /\ call["loop"].phase = "failed")
  <2>1. L' = Tail(L) /\ H' = H
    BY <1>1, <1>2, <1>8 DEF Returns, Advance, Strike, L, H
  <2>2. Strike(Now(L)) => call["loop"].phase = "sent"
    BY <1>1, <1>8
  <2>3. QED
    BY <1>1, <1>2, <1>3, <1>4, <2>1, <2>2
<1>9. QED
  BY <1>6, <1>7, <1>8 DEF Strike

(* A click and a key press become a call that presses and one that releases. *)
LEMMA ExpandScript ==
  ASSUME Basic, Expand
  PROVE  /\ Good(L') /\ H' = H /\ pc = "action" /\ pc' = "action" /\ call["loop"].phase = "none"
         /\ L # <<>> /\ Now(L).op \in {"click", "press", "retry"} /\ Now(L).arg # {}
         /\ \/ L' = Tail(L)
            \/ /\ Now(L).op = "click" /\ L' # <<>> /\ Now(L') = Do("set", {"left"})
               /\ Rest(L') = {Do("set", {})} \cup Rest(L)
            \/ /\ Now(L).op = "press" /\ Ready /\ L' # <<>> /\ Now(L') = Do("keys", Now(L).arg)
               /\ Rest(L') = {Do("keys", {})} \cup Rest(L)
            \/ /\ Now(L).op = "retry" /\ L' # <<>> /\ Now(L') = Do("press", {"enter"})
               /\ Rest(L') = Rest(L)
<1>1. /\ script["loop"] # <<>> /\ ~Busy("loop") /\ pc' = pc
      /\ Head1("loop").op \in {"click", "press", "retry"}
  BY DEF Expand
<1>2. L # <<>> /\ Head1("loop") = Now(L) /\ Now(L) \in Steps /\ call["loop"].phase = "none" /\ Good(L)
  BY <1>1, Known DEF Head1, L, Busy
<1>3. pc = "action"
  BY <1>1, <1>2, InAction
<1>4. /\ Good(Tail(L)) /\ Items(Tail(L)) = Rest(L) /\ ~First(Now(Tail(L)))
      /\ \A c \in Rest(L) : Before(Now(L), c)
  BY <1>2, Passed, Advanced DEF Now
<1> DEFINE set == Do("set", {})
           up == Do("keys", {})
<1>5. set \in Steps /\ set.op = "set" /\ set.arg = {} /\ up \in Steps /\ up.op = "keys" /\ up.arg = {}
  BY StepSet DEF Do
<1>6. ~Strike(set) /\ ~Down(set) /\ ~Strike(up) /\ ~Down(up) /\ Up(up)
  BY <1>5 DEF Strike, Down, Up
<1>7. ASSUME NEW a \in Steps, NEW b \in Steps, L' = <<a, b>> \o Tail(L)
      PROVE  L' = <<a>> \o (<<b>> \o Tail(L))
  BY <1>4, <1>7, PutTwo, SMTT(40) DEF Good
<1>8. ASSUME NEW b \in {set, up}
      PROVE  LET v == <<b>> \o Tail(L)
             IN  Good(v) /\ v # <<>> /\ Now(v) = b /\ Rest(v) = Rest(L) /\ Items(v) = {b} \cup Rest(L)
  BY <1>1, <1>2, <1>5, <1>6, PutBefore DEF Typed
<1>9. CASE Now(L).op = "click"
  <2>1. \/ mounted /\ L' = <<Do("set", Now(L).arg), set>> \o Tail(L) /\ H' = H
        \/ L' = <<>> \o Tail(L) /\ H' = H
    BY <1>2, <1>9, Known DEF Expand, Replace, L, H
  <2>2. Now(L).arg = {"left"}
    BY <1>2, <1>9, StepFacts DEF Fitting, Left
  <2>3. CASE L' = <<>> \o Tail(L) /\ H' = H
    BY <1>1, <1>2, <1>3, <1>4, <1>9, <2>2, <2>3, ConcatEmptySeq DEF Good
  <2>4. CASE L' = <<Do("set", Now(L).arg), set>> \o Tail(L) /\ H' = H
    <3> DEFINE a == Do("set", {"left"})
               v == <<set>> \o Tail(L)
               u == <<a>> \o v
    <3>1. a \in Steps /\ a.op = "set" /\ a.arg = {"left"}
      BY StepSet DEF Do
    <3>2. L' = <<a, set>> \o Tail(L)
      BY <2>2, <2>4
    <3> HIDE DEF a, set
    <3>3. L' = u
      BY <1>5, <1>7, <3>1, <3>2
    <3>4. Good(v) /\ Now(v) = set /\ Items(v) = {set} \cup Rest(L)
      BY <1>8
    <3> HIDE DEF v
    <3>5. \A c \in Items(v) : Before(a, c)
      BY <1>4, <1>5, <1>6, <3>1, <3>4 DEF Before, First, Typed
    <3>6. ~Strike(a) /\ ~Down(a) /\ a.op = "set" /\ a.op # "add" /\ "numlock" \notin a.arg
      BY <3>1 DEF Strike, Down
    <3>7. Good(u) /\ u # <<>> /\ Now(u) = a /\ Rest(u) = Items(v)
      BY <3>1, <3>4, <3>5, <3>6, Put DEF set
    <3>8. QED
      BY <1>1, <1>2, <1>3, <1>9, <2>2, <2>4, <3>3, <3>4, <3>7 DEF a, set
  <2>5. QED
    BY <2>1, <2>3, <2>4
<1>10. CASE Now(L).op = "press"
  <2>1. \/ Ready /\ L' = <<Do("keys", Now(L).arg), up>> \o Tail(L) /\ H' = H
        \/ L' = <<>> \o Tail(L) /\ H' = H
    BY <1>2, <1>10, Known DEF Expand, Replace, L, H
  <2>2. Now(L).arg # {} /\ Now(L).arg \in Chords
    BY <1>2, <1>10, StepFacts, ZenonT(40) DEF Fitting, Chords
  <2>3. CASE L' = <<>> \o Tail(L) /\ H' = H
    BY <1>1, <1>2, <1>3, <1>4, <1>10, <2>2, <2>3, ConcatEmptySeq DEF Good
  <2>4. CASE Ready /\ L' = <<Do("keys", Now(L).arg), up>> \o Tail(L) /\ H' = H
    <3> DEFINE a == Do("keys", Now(L).arg)
               v == <<up>> \o Tail(L)
               u == <<a>> \o v
    <3>1. a \in Steps /\ a.op = "keys" /\ a.arg = Now(L).arg
      BY <2>2, StepSet DEF Do
    <3>2. L' = <<a, up>> \o Tail(L)
      BY <2>4
    <3> HIDE DEF a, up
    <3>3. L' = u
      BY <1>5, <1>7, <3>1, <3>2
    <3>4. Good(v) /\ Now(v) = up /\ Items(v) = {up} \cup Rest(L)
      BY <1>8
    <3> HIDE DEF v
    <3>5. \A c \in Items(v) : Before(a, c)
      BY <1>4, <1>5, <1>6, <3>1, <3>4 DEF Before, First, Typed
    <3>6. ~Strike(a) /\ a.op \notin {"set", "add", "numlock"}
      BY <3>1 DEF Strike
    <3>7. "numlock" \in a.arg => Has(Items(v), "confirm")
      BY <1>2, <3>1, <3>4 DEF Good, Paired, Has
    <3>8. Good(u) /\ u # <<>> /\ Now(u) = a /\ Rest(u) = Items(v)
      BY <1>6, <3>1, <3>4, <3>5, <3>6, <3>7, Put
    <3>9. QED
      BY <1>1, <1>2, <1>3, <1>10, <2>2, <2>4, <3>3, <3>4, <3>8 DEF a, up
  <2>5. QED
    BY <2>1, <2>3, <2>4
<1>11. CASE Now(L).op = "retry"
  <2>1. \/ L' = <<Do("press", Now(L).arg)>> \o Tail(L) /\ H' = H
        \/ L' = <<>> \o Tail(L) /\ H' = H
    BY <1>2, <1>11, Known DEF Expand, Replace, L, H
  <2>2. Now(L).arg = {"enter"}
    BY <1>2, <1>11, StepFacts DEF Fitting
  <2>3. CASE L' = <<>> \o Tail(L) /\ H' = H
    BY <1>1, <1>2, <1>3, <1>4, <1>11, <2>2, <2>3, ConcatEmptySeq DEF Good
  <2>4. CASE L' = <<Do("press", Now(L).arg)>> \o Tail(L) /\ H' = H
    <3> DEFINE a == Do("press", {"enter"})
    <3>1. a \in Steps /\ a.op = "press" /\ a.arg = {"enter"}
      BY StepSet DEF Do, Chords
    <3>2. L' = <<a>> \o Tail(L)
      BY <2>2, <2>4
    <3> HIDE DEF a
    <3>3. ~Strike(a) /\ ~Down(a) /\ ~Typed(a)
      BY <3>1 DEF Strike, Down, Typed
    <3>4. LET u == <<a>> \o Tail(L)
          IN  Good(u) /\ u # <<>> /\ Now(u) = a /\ Rest(u) = Rest(L)
      BY <1>2, <3>1, <3>3, PutBefore
    <3>5. QED
      BY <1>1, <1>2, <1>3, <1>11, <2>2, <2>4, <3>2, <3>4 DEF a
  <2>5. QED
    BY <2>1, <2>3, <2>4
<1>12. QED
  BY <1>1, <1>2, <1>9, <1>10, <1>11

(* With the LED off the Num Lock key is pressed and confirmed. *)
LEMMA NumLockScript ==
  ASSUME Basic, NumLock
  PROVE  /\ Good(L') /\ H' = H /\ pc = "action" /\ pc' = "action" /\ call["loop"].phase = "none"
         /\ L # <<>> /\ Now(L).op \in {"numlock", "confirm"} /\ Now(L).arg = {}
         /\ Now(L).op = "numlock" => gaveUp' = gaveUp /\ ~Has(Rest(L), "confirm")
         /\ \/ L' = Tail(L) /\ ~ledSeen /\ typing' = typing /\ Now(L).op = "numlock"
            \/ L' = Tail(L) /\ ledSeen /\ led /\ typing' = [typing EXCEPT !.keypad = TRUE]
                 /\ Now(L).op = "numlock"
            \/ /\ ledSeen /\ ~led /\ Now(L).op = "numlock" /\ typing' = typing
               /\ L' # <<>> /\ Now(L') = Do("press", {"numlock"})
               /\ Rest(L') = {Do("confirm", {})} \cup Rest(L)
            \/ /\ L' = Tail(L) /\ Now(L).op = "confirm"
               /\ \/ led /\ gaveUp' = gaveUp /\ typing' = [typing EXCEPT !.keypad = TRUE]
                  \/ gaveUp' = TRUE /\ typing' = [typing EXCEPT !.keypad = FALSE]
<1>1. /\ script["loop"] # <<>> /\ ~Busy("loop") /\ pc' = pc
      /\ Head1("loop").op \in {"numlock", "confirm"}
  BY DEF NumLock
<1>2. L # <<>> /\ Head1("loop") = Now(L) /\ Now(L) \in Steps /\ call["loop"].phase = "none" /\ Good(L)
      /\ script \in [Tasks -> Seq(Steps)] /\ "loop" \in Tasks /\ "httpd" \in Tasks
  BY <1>1, Known DEF Head1, L, Busy
<1>3. pc = "action" /\ Now(L).arg = {}
  BY <1>1, <1>2, InAction, StepFacts DEF Fitting
<1>4. /\ Good(Tail(L)) /\ Items(Tail(L)) = Rest(L) /\ ~First(Now(Tail(L)))
      /\ \A c \in Rest(L) : Before(Now(L), c)
  BY <1>2, Passed, Advanced DEF Now
<1>5. Now(L).op = "numlock" => ~Has(Rest(L), "confirm")
  BY <1>2 DEF Good, Paired
<1>6. CASE Now(L).op = "numlock"
  <2>1. gaveUp' = gaveUp
    BY <1>2, <1>6 DEF NumLock
  <2>2. CASE ~ledSeen
    BY <1>1, <1>2, <1>3, <1>4, <1>5, <1>6, <2>1, <2>2 DEF NumLock, Advance, L, H
  <2>3. CASE ledSeen /\ led
    BY <1>1, <1>2, <1>3, <1>4, <1>5, <1>6, <2>1, <2>3 DEF NumLock, Advance, L, H
  <2>4. CASE ledSeen /\ ~led
    <3> DEFINE a == Do("press", {"numlock"})
               b == Do("confirm", {})
               v == <<b>> \o Tail(L)
               u == <<a>> \o v
    <3>1. /\ L' = <<a, b>> \o Tail(L) /\ H' = H /\ typing' = typing
      BY <1>2, <1>6, <2>4 DEF NumLock, Replace, L, H
    <3>2. /\ a \in Steps /\ a.op = "press" /\ a.arg = {"numlock"}
          /\ b \in Steps /\ b.op = "confirm" /\ b.arg = {}
      BY StepSet DEF Do, Chords
    <3> HIDE DEF a, b
    <3>3. L' = u
      BY <1>4, <3>1, <3>2, PutTwo, SMTT(40) DEF Good
    <3>4. ~Strike(a) /\ ~Down(a) /\ ~Strike(b) /\ ~Down(b) /\ ~Typed(a) /\ ~Typed(b) /\ ~First(b)
      BY <3>2 DEF Strike, Down, Typed, First
    <3>5. Good(v) /\ Items(v) = {b} \cup Rest(L)
      BY <1>2, <3>2, <3>4, PutBefore
    <3> HIDE DEF v
    <3>6. \A c \in Items(v) : Before(a, c)
      BY <1>4, <3>2, <3>4, <3>5 DEF Before
    <3>7. Has(Items(v), "confirm")
      BY <3>2, <3>5 DEF Has
    <3>8. Good(u) /\ u # <<>> /\ Now(u) = a /\ Rest(u) = Items(v)
      BY <3>2, <3>4, <3>5, <3>6, <3>7, Put
    <3>9. QED
      BY <1>1, <1>2, <1>3, <1>5, <1>6, <2>1, <2>4, <3>1, <3>3, <3>5, <3>8 DEF a, b
  <2>5. QED
    BY <2>2, <2>3, <2>4
<1>7. CASE Now(L).op = "confirm"
  <2>1. L' = Tail(L) /\ H' = H
    BY <1>2, <1>7 DEF NumLock, Advance, L, H
  <2>2. PICK confirmed \in {led, FALSE} :
          /\ typing' = [typing EXCEPT !.keypad = confirmed]
          /\ gaveUp' = (gaveUp \/ ~confirmed)
    BY <1>2, <1>7 DEF NumLock
  <2>3. led \in BOOLEAN /\ gaveUp \in BOOLEAN
    BY DEF Basic, TypeInv
  <2>4. \/ led /\ gaveUp' = gaveUp /\ typing' = [typing EXCEPT !.keypad = TRUE]
        \/ gaveUp' = TRUE /\ typing' = [typing EXCEPT !.keypad = FALSE]
    <3>1. CASE confirmed = TRUE
      BY <2>2, <2>3, <3>1
    <3>2. CASE confirmed = FALSE
      BY <2>2, <2>3, <3>2
    <3>3. QED
      BY <2>3, <3>1, <3>2
  <2>5. QED
    BY <1>1, <1>2, <1>3, <1>4, <1>5, <1>7, <2>1, <2>4
<1>8. QED
  BY <1>1, <1>2, <1>6, <1>7

(* The report of a type action is its last call. *)
LEMMA ReportScript ==
  ASSUME Basic, Report
  PROVE  /\ Good(L') /\ H' = H /\ pc = "action" /\ pc' = "action" /\ call["loop"].phase = "none"
         /\ L # <<>> /\ Now(L).op = "report" /\ L' = Tail(L) /\ L' = <<>> /\ Rest(L) = {}
<1>1. script["loop"] # <<>> /\ Head1("loop").op = "report" /\ pc' = pc
  BY DEF Report
<1>2. /\ L # <<>> /\ Head1("loop") = Now(L) /\ Good(L)
      /\ script \in [Tasks -> Seq(Steps)] /\ "loop" \in Tasks /\ "httpd" \in Tasks
  BY <1>1, Known DEF Head1, L
<1>3. pc = "action" /\ call["loop"].phase = "none"
  <2>1. ~Fits(Now(L), call["loop"].report)
    BY <1>1, <1>2 DEF Fits, KeyOps, MouseOps
  <2>2. call["loop"].phase = "none"
    BY <2>1 DEF Basic, CallInv, L, Tasks
  <2>3. QED
    BY <1>1, <1>2, <2>2, InAction
<1>4. /\ Good(Tail(L)) /\ (Tail(L) # <<>> => Before(Now(L), Now(Tail(L))))
      /\ (Tail(L) = <<>> => Rest(L) = {})
  BY <1>2, Passed
<1>5. Tail(L) = <<>>
  BY <1>1, <1>2, <1>4 DEF Before
<1>6. L' = Tail(L) /\ H' = H
  BY <1>2 DEF Report, Advance, L, H
<1>7. QED
  BY <1>1, <1>2, <1>3, <1>4, <1>5, <1>6

(* A mouse call moves, presses or releases; unmounted it is passed over. *)
LEMMA LoopMouse ==
  ASSUME Basic, MouseCall("loop")
  PROVE  /\ Good(L') /\ H' = H /\ pc' = pc /\ L # <<>> /\ Now(L) \in Steps /\ Now(L).op \in MouseOps
         /\ call["loop"].phase = "none" /\ (pc = "idle" => L' = L)
         /\ \/ /\ L' = Tail(L) /\ ~mounted /\ held' = held /\ call' = call /\ Now(L).op # "set"
            \/ /\ L' = L /\ (mounted \/ Now(L).op = "set")
               /\ held' = HeldAfter(Now(L)) /\ Send("loop", Mouse(held'))
<1>1. /\ script["loop"] # <<>> /\ ~Busy("loop") /\ pc' = pc
      /\ Head1("loop").op \in MouseOps
  BY DEF MouseCall, MouseOps
<1>2. /\ L # <<>> /\ Head1("loop") = Now(L) /\ Good(L) /\ Now(L) \in Steps /\ call["loop"].phase = "none"
      /\ script \in [Tasks -> Seq(Steps)] /\ "loop" \in Tasks /\ "httpd" \in Tasks
  BY <1>1, Known DEF Head1, L, Busy
<1>3. CASE Now(L).op # "set" /\ ~mounted
  <2>1. L' = Tail(L) /\ H' = H /\ held' = held /\ call' = call
    BY <1>2, <1>3 DEF MouseCall, Advance, L, H
  <2>2. Good(Tail(L))
    BY <1>2, Passed
  <2>3. pc # "idle"
    BY <1>1, <1>2, <1>3, InAction DEF MouseOps
  <2>4. QED
    BY <1>1, <1>2, <1>3, <2>1, <2>2, <2>3
<1>4. CASE ~(Now(L).op # "set" /\ ~mounted)
  <2>1. L' = L /\ H' = H /\ held' = HeldAfter(Now(L)) /\ Send("loop", Mouse(held'))
    BY <1>2, <1>4 DEF MouseCall, L, H
  <2>2. mounted \/ Now(L).op = "set"
    BY <1>4
  <2>3. QED
    BY <1>1, <1>2, <2>1, <2>2
<1>5. QED
  BY <1>3, <1>4

(* What httpd does is to release, twice. *)
LEMMA HttpdMouse ==
  ASSUME Basic, MouseCall("httpd")
  PROVE  /\ script' = script /\ Now(H) = Do("set", {}) /\ H # <<>> /\ call["httpd"].phase = "none"
         /\ held' = {} /\ Send("httpd", Mouse({}))
<1>1. /\ script["httpd"] # <<>> /\ ~Busy("httpd") /\ Head1("httpd").op \in MouseOps
  BY DEF MouseCall, MouseOps
<1>2. /\ H # <<>> /\ Head1("httpd") = Now(H) /\ Now(H) \in {Do("keys", {}), Do("set", {})}
      /\ call["httpd"].phase = "none"
  BY <1>1, Known DEF Head1, H, Busy
<1>3. Now(H) = Do("set", {}) /\ Now(H).op = "set" /\ Now(H).arg = {}
  BY <1>1, <1>2 DEF Do, MouseOps
<1>4. script' = script /\ held' = HeldAfter(Now(H)) /\ Send("httpd", Mouse(held'))
  BY <1>2, <1>3 DEF MouseCall
<1>5. held' = {}
  BY <1>3, <1>4 DEF HeldAfter
<1>6. QED
  BY <1>2, <1>3, <1>4, <1>5

(* The release in httpd goes on with its next call. *)
LEMMA HttpdReturns ==
  ASSUME Basic, Returns("httpd")
  PROVE  /\ L' = L /\ H # <<>> /\ H' = Tail(H) /\ H' \in Releasing
         /\ Now(H) = Do("keys", {}) => H' # <<>> /\ Now(H') = Do("set", {})
         /\ Now(H) = Do("keys", {}) \/ Now(H) = Do("set", {})
         /\ Now(H) = Do("set", {}) => H' = <<>>
         /\ call["httpd"].phase \in {"sent", "failed"} /\ call' = [call EXCEPT !["httpd"] = NoCall]
         /\ typing' = typing /\ dropped' = dropped
<1>1. call["httpd"].phase \in {"sent", "failed"} /\ call' = [call EXCEPT !["httpd"] = NoCall]
  BY DEF Returns
<1>2. /\ H # <<>> /\ Head1("httpd") = Now(H) /\ H \in Releasing
      /\ script \in [Tasks -> Seq(Steps)] /\ "loop" \in Tasks /\ "httpd" \in Tasks
      /\ Now(H) \in {Do("keys", {}), Do("set", {})}
  BY <1>1, Known, Calling DEF H
<1>3. Now(H).op \in {"keys", "set"}
  BY <1>2 DEF Do
<1>4. L' = L /\ H' = Tail(H) /\ typing' = typing
  BY <1>2, <1>3 DEF Returns, Advance, L, H
<1>5. dropped' = dropped
  <2>1. dropped \in BOOLEAN
    BY DEF Basic, TypeInv
  <2>2. QED
    BY <2>1 DEF Returns
<1>6. /\ Now(H) = Do("keys", {}) => H' = <<Do("set", {})>>
      /\ Now(H) = Do("set", {}) => H' = <<>>
  <2>1. Do("keys", {}) # Do("set", {}) /\ Do("set", {}) # NoStep /\ Do("keys", {}) # NoStep
    BY DEF Do, NoStep
  <2>2. QED
    BY <1>2, <1>4, <2>1, ReleasingFacts
<1>7. Tail(H) \in Releasing
  BY <1>2, ReleasingTail
<1>8. \A s : s = <<Do("set", {})>> => s # <<>> /\ Now(s) = Do("set", {})
  BY DEF Now
<1>9. Now(H) = Do("keys", {}) => H' # <<>> /\ Now(H') = Do("set", {})
  BY <1>6, <1>8
<1>10. QED
  BY <1>1, <1>2, <1>4, <1>5, <1>6, <1>7, <1>9

(* A new action starts with what presses nothing. *)
LEMMA StartScript ==
  ASSUME Basic, StartAction
  PROVE  /\ Good(L') /\ H' = H /\ pc = "batch" /\ pc' = "action" /\ L = <<>> /\ L' # <<>>
         /\ Now(L') \in Steps /\ ~Down(Now(L')) /\ Now(L').op \notin {"again", "char"}
         /\ "numlock" \notin Now(L').arg /\ "kp1" \notin Now(L').arg
         /\ ~Has(Items(L'), "next") /\ ~Has(Items(L'), "confirm")
         /\ \E text \in Seq(Symbols) : typing' = [NoText EXCEPT !.text = text]
<1>1. PICK action \in Actions, text \in Texts \cup {<<>>} :
        /\ script' = [script EXCEPT !["loop"] = Script(action)]
        /\ typing' = [NoText EXCEPT !.text = text]
  BY DEF StartAction
<1>2. text \in Seq(Symbols)
  <2>1. Texts \subseteq Seq(Symbols)
    BY BoundAssumption
  <2>2. <<>> \in Seq(Symbols)
    OBVIOUS
  <2>3. QED
    BY <2>1, <2>2
<1>3. L' = Script(action) /\ H' = H /\ pc = "batch" /\ pc' = "action" /\ L = <<>>
  BY <1>1, Known DEF StartAction, Basic, ScriptInv, L, H
<1>4. /\ Good(Script(action)) /\ Script(action) # <<>>
      /\ ~First(Now(Script(action))) \/ Now(Script(action)) = Do("numlock", {})
      /\ ~Has(Items(Script(action)), "next") /\ ~Has(Items(Script(action)), "confirm")
  BY ScriptGood
<1> DEFINE s == Script(action)
<1> HIDE DEF s
<1>5. Now(s) \in Steps
  BY <1>4, HeadNow DEF Good, s
<1>6. Do("numlock", {}).op = "numlock" /\ Do("numlock", {}).arg = {}
  BY DEF Do
<1>7. ~Down(Now(s)) /\ ~Strike(Now(s)) /\ "numlock" \notin Now(s).arg /\ "kp1" \notin Now(s).arg
  <2>1. ~Down(Do("numlock", {})) /\ ~Strike(Do("numlock", {}))
    BY <1>6 DEF Down, Strike
  <2>2. ~Down(Now(s)) /\ ~Strike(Now(s))
    BY <1>4, <2>1 DEF First, Down, s
  <2>3. ~Has(Rest(s), "confirm")
    BY <1>4, TailFacts DEF Has, Good, s
  <2>4. "numlock" \notin Now(s).arg
    BY <1>4, <2>3 DEF Good, Paired, s
  <2>5. "kp1" \notin Now(s).arg
    <3>1. "kp1" \notin Left /\ "kp1" \notin {"enter"} /\ \A k \in Chords : "kp1" \notin k
      BY DEF Left, Chords
    <3>2. Fitting(Now(s)) /\ Now(s).op \in Ops
      BY <1>5, StepFacts
    <3>3. Now(s).op = "keys" => Now(s).arg = {}
      BY <2>2 DEF Down
    <3>4. QED
      BY <2>2, <3>1, <3>2, <3>3 DEF Fitting, Ops, KeyOps, MouseOps, Strike
  <2>6. QED
    BY <2>2, <2>4, <2>5
<1>8. QED
  BY <1>1, <1>2, <1>3, <1>4, <1>5, <1>7 DEF s, Strike

-----------------------------------------------------------------------------
(* Types, scripts and calls are preserved.                                 *)

(* One script changes at a time. *)
LEMMA ScriptType ==
  ASSUME script \in [Tasks -> Seq(Steps)], NEW t, NEW x, script' = [script EXCEPT ![t] = x],
         L' \in Seq(Steps), H' \in Seq(Steps)
  PROVE  script' \in [Tasks -> Seq(Steps)]
BY DEF L, H, Tasks

(* Every step keeps the scripts good. *)
LEMMA ScriptStep ==
  ASSUME Basic, [Next]_vars
  PROVE  ScriptInv' /\ script' \in [Tasks -> Seq(Steps)]
<1>1. /\ script \in [Tasks -> Seq(Steps)] /\ H \in Releasing /\ ScriptInv
      /\ "loop" \in Tasks /\ "httpd" \in Tasks /\ L \in Seq(Steps) /\ H \in Seq(Steps)
  BY Known DEF Basic
<1>2. \A s \in Releasing : s \in Seq(Steps) /\ Good(s)
  BY ReleasingFacts DEF Good
<1>3. ASSUME script' = script, pc' = pc PROVE ScriptInv' /\ script' \in [Tasks -> Seq(Steps)]
  BY <1>1, <1>3 DEF ScriptInv, L, H
<1>4. ASSUME Good(L'), H' = H, pc' = "action", NEW x, script' = [script EXCEPT !["loop"] = x]
      PROVE  ScriptInv' /\ script' \in [Tasks -> Seq(Steps)]
  <2>1. script' \in [Tasks -> Seq(Steps)]
    BY <1>1, <1>4, ScriptType DEF Good
  <2>2. QED
    BY <1>1, <1>4, <2>1 DEF ScriptInv
<1>5. ASSUME NEW t \in Tasks, SeesReady(t) \/ TimesOut(t) \/ Claims(t) \/ KeyCall(t)
      PROVE  ScriptInv' /\ script' \in [Tasks -> Seq(Steps)]
  BY <1>3, <1>5 DEF SeesReady, TimesOut, Claims, KeyCall
<1>6. ASSUME MouseCall("loop") PROVE ScriptInv' /\ script' \in [Tasks -> Seq(Steps)]
  <2>1. CASE script' = script
    BY <1>3, <1>6, <2>1 DEF MouseCall
  <2>2. CASE script' # script
    <3>1. script' = [script EXCEPT !["loop"] = Tail(@)] /\ pc' = pc
      BY <1>6, <2>2 DEF MouseCall, Advance
    <3>2. Good(L') /\ H' = H /\ (pc = "idle" => L' = L) /\ L # <<>>
      BY <1>6, LoopMouse
    <3>3. pc # "batch"
      BY <1>1, <3>2 DEF ScriptInv
    <3>4. script' \in [Tasks -> Seq(Steps)]
      BY <1>1, <3>1, <3>2, ScriptType DEF Good
    <3>5. QED
      BY <1>1, <3>1, <3>2, <3>3, <3>4 DEF ScriptInv
  <2>3. QED
    BY <2>1, <2>2
<1>7. ASSUME MouseCall("httpd") PROVE ScriptInv' /\ script' \in [Tasks -> Seq(Steps)]
  BY <1>3, <1>7, HttpdMouse DEF MouseCall
<1>8. ASSUME Returns("loop") PROVE ScriptInv' /\ script' \in [Tasks -> Seq(Steps)]
  <2>1. /\ Good(L') /\ H' = H /\ pc' = pc /\ L # <<>> /\ (pc = "idle" => L' = Tail(L))
    BY <1>8, LoopReturns
  <2>2. \E x : script' = [script EXCEPT !["loop"] = x]
    BY <1>8 DEF Returns, Advance, Replace
  <2>3. script' \in [Tasks -> Seq(Steps)]
    BY <1>1, <2>1, <2>2, ScriptType DEF Good
  <2>4. pc = "idle" => L' \in Releasing
    BY <1>1, <2>1, ReleasingTail DEF ScriptInv
  <2>5. QED
    BY <1>1, <2>1, <2>3, <2>4 DEF ScriptInv
<1>9. ASSUME Returns("httpd") PROVE ScriptInv' /\ script' \in [Tasks -> Seq(Steps)]
  <2>1. L' = L /\ H' \in Releasing /\ pc' = pc
    BY <1>9, HttpdReturns DEF Returns
  <2>2. \E x : script' = [script EXCEPT !["httpd"] = x]
    BY <1>9 DEF Returns, Advance, Replace
  <2>3. script' \in [Tasks -> Seq(Steps)]
    BY <1>1, <1>2, <2>1, <2>2, ScriptType
  <2>4. QED
    BY <1>1, <2>1, <2>3 DEF ScriptInv
<1>10. ASSUME Expand PROVE ScriptInv' /\ script' \in [Tasks -> Seq(Steps)]
  <2>1. \E x : script' = [script EXCEPT !["loop"] = x]
    BY <1>10 DEF Expand, Replace
  <2>2. QED
    BY <1>4, <1>10, <2>1, ExpandScript
<1>11. ASSUME Type PROVE ScriptInv' /\ script' \in [Tasks -> Seq(Steps)]
  <2>1. \E x : script' = [script EXCEPT !["loop"] = x]
    BY <1>11 DEF Type, Replace
  <2>2. Good(L') /\ H' = H /\ pc' = "action"
    BY <1>11, TypeScript
  <2>3. QED
    BY <1>4, <2>1, <2>2
<1>12. ASSUME NextChar PROVE ScriptInv' /\ script' \in [Tasks -> Seq(Steps)]
  <2>1. \E x : script' = [script EXCEPT !["loop"] = x]
    BY <1>12 DEF NextChar, Replace, Advance
  <2>2. Good(L') /\ H' = H /\ pc' = "action"
    BY <1>12, NextCharScript
  <2>3. QED
    BY <1>4, <2>1, <2>2
<1>13. ASSUME NumLock PROVE ScriptInv' /\ script' \in [Tasks -> Seq(Steps)]
  <2>1. \E x : script' = [script EXCEPT !["loop"] = x]
    BY <1>13 DEF NumLock, Replace, Advance
  <2>2. Good(L') /\ H' = H /\ pc' = "action"
    BY <1>13, NumLockScript
  <2>3. QED
    BY <1>4, <2>1, <2>2
<1>14. ASSUME StartAction PROVE ScriptInv' /\ script' \in [Tasks -> Seq(Steps)]
  <2>1. \E x : script' = [script EXCEPT !["loop"] = x]
    BY <1>14 DEF StartAction
  <2>2. Good(L') /\ H' = H /\ pc' = "action"
    BY <1>14, StartScript
  <2>3. QED
    BY <1>4, <2>1, <2>2
<1>15. ASSUME Report PROVE ScriptInv' /\ script' \in [Tasks -> Seq(Steps)]
  <2>1. \E x : script' = [script EXCEPT !["loop"] = x]
    BY <1>15 DEF Report, Advance
  <2>2. Good(L') /\ H' = H /\ pc' = "action"
    BY <1>15, ReportScript
  <2>3. QED
    BY <1>4, <2>1, <2>2
<1>16. ASSUME EndAction PROVE ScriptInv' /\ script' \in [Tasks -> Seq(Steps)]
  BY <1>1, <1>16 DEF EndAction, ScriptInv, L, H
<1>17. ASSUME EndBatch PROVE ScriptInv' /\ script' \in [Tasks -> Seq(Steps)]
  BY <1>1, <1>17 DEF EndBatch, ScriptInv, L, H, Releasing
<1>18. ASSUME LoopTop PROVE ScriptInv' /\ script' \in [Tasks -> Seq(Steps)]
  <2>1. CASE emergency
    <3>1. /\ script' = [script EXCEPT !["loop"] = ReleaseAll] /\ pc' = "idle" /\ pc = "idle"
          /\ L' = ReleaseAll /\ H' = H
      BY <1>1, <1>18, <2>1 DEF LoopTop, AbortScript, L, H
    <3>2. ReleaseAll \in Releasing
      BY DEF Releasing
    <3>3. script' \in [Tasks -> Seq(Steps)]
      BY <1>1, <1>2, <3>1, <3>2, ScriptType
    <3>4. QED
      BY <1>1, <1>2, <3>1, <3>2, <3>3 DEF ScriptInv
  <2>2. CASE ~emergency
    BY <1>1, <1>18, <2>2 DEF LoopTop, ScriptInv, L, H
  <2>3. QED
    BY <2>1, <2>2
<1>19. ASSUME Emergency PROVE ScriptInv' /\ script' \in [Tasks -> Seq(Steps)]
  <2>1. /\ script' = [script EXCEPT !["httpd"] = ReleaseAll] /\ pc' = pc
        /\ H' = ReleaseAll /\ L' = L
    BY <1>1, <1>19 DEF Emergency, L, H
  <2>2. ReleaseAll \in Releasing
    BY DEF Releasing
  <2>3. script' \in [Tasks -> Seq(Steps)]
    BY <1>1, <1>2, <2>1, <2>2, ScriptType
  <2>4. QED
    BY <1>1, <2>1, <2>2, <2>3 DEF ScriptInv
<1>20. ASSUME Target \/ UNCHANGED vars PROVE ScriptInv' /\ script' \in [Tasks -> Seq(Steps)]
  BY <1>3, <1>20 DEF Target, Poll, LedReport, Configure, Unplug, Replug, taskVars, vars
<1>21. QED
  BY <1>5, <1>6, <1>7, <1>8, <1>9, <1>10, <1>11, <1>12, <1>13, <1>14, <1>15, <1>16, <1>17, <1>18,
     <1>19, <1>20 DEF Next, Loop, Sending, Tasks

(* What a report and a call can be made of. *)
LEMMA ReportSet ==
  /\ \A k \in SUBSET (Keyboard \cup Left) : Keys(k) \in Reports /\ Mouse(k) \in Reports
  /\ NoReport \in Reports /\ NoCall \in Calls
  /\ \A r \in Reports : r.kind \in {"none", "keys", "mouse"} /\ r.down \in SUBSET (Keyboard \cup Left)
                        /\ (r.kind = "none" <=> r = NoReport) /\ (r.kind = "none" => r.down = {})
  /\ \A r \in Reports : \A p \in Phases : [report |-> r, phase |-> p, tries |-> 0] \in Calls
<1>1. \A k \in SUBSET (Keyboard \cup Left) : Keys(k) \in Reports /\ Mouse(k) \in Reports
  BY DEF Keys, Mouse, Reports
<1>2. NoReport \in Reports /\ NoReport.kind = "none" /\ NoReport.down = {}
  BY DEF NoReport, Reports
<1>3. \A r \in Reports : \A p \in Phases : [report |-> r, phase |-> p, tries |-> 0] \in Calls
  BY DEF Calls
<1>4. NoCall \in Calls
  BY <1>2, <1>3 DEF NoCall, Phases
<1>5. \A r \in Reports : r.kind \in {"none", "keys", "mouse"} /\ r.down \in SUBSET (Keyboard \cup Left)
                        /\ (r.kind = "none" <=> r = NoReport) /\ (r.kind = "none" => r.down = {})
  BY DEF NoReport, Reports
<1>6. QED
  BY <1>1, <1>2, <1>3, <1>4, <1>5

(* A refused report is tried again, a keyboard report is not. *)
LEMMA RetriedType ==
  ASSUME NEW c \in Calls
  PROVE  /\ Retried(c) \in Calls /\ Retried(c).report = c.report
         /\ \/ Retried(c).phase = "failed" /\ (c.report.kind = "mouse" => ~(c.tries + 1 < Tries))
            \/ Retried(c).phase = "wait" /\ c.report.kind = "mouse" /\ Retried(c).tries = c.tries + 1
<1>1. c.report \in Reports /\ c.tries \in Nat /\ c.tries + 1 \in Nat
  BY DEF Calls
<1>2. /\ [c EXCEPT !.phase = "wait", !.tries = c.tries + 1] \in Calls
      /\ [c EXCEPT !.phase = "failed"] \in Calls
  BY <1>1 DEF Calls, Phases
<1>3. QED
  BY <1>1, <1>2 DEF Retried, Calls

(* The buttons a mouse call leaves. *)
LEMMA HeldType ==
  ASSUME held \subseteq Left, NEW c \in Steps, c.op \in MouseOps
  PROVE  /\ HeldAfter(c) \subseteq Left
         /\ Release(c) => HeldAfter(c) = {}
         /\ c.op = "move" => HeldAfter(c) = held
<1>1. /\ c.op = "set" => c.arg \subseteq Left
      /\ c.op \in {"add", "sub"} => c.arg = Left
  BY StepFacts DEF Fitting
<1>2. held \cup c.arg \subseteq Left \/ c.op # "add"
  BY <1>1
<1>3. held \ c.arg = {} \/ c.op # "sub"
  BY <1>1
<1>4. QED
  BY <1>1, <1>2, <1>3 DEF HeldAfter, Release, MouseOps

(* What the target makes of a report. *)
LEMMA PollFacts ==
  ASSUME Basic, Poll
  PROVE  /\ mounted /\ endpoint # NoReport /\ endpoint' = NoReport /\ target' \in Targets
         /\ endpoint.kind = "mouse" =>
              /\ target'.buttons = endpoint.down /\ target'.keys = target.keys
              /\ target'.text = target.text /\ target'.numLock = target.numLock /\ leds' = leds
         /\ endpoint.kind = "keys" =>
              /\ target'.keys = endpoint.down /\ target'.buttons = target.buttons
              /\ LET new == endpoint.down \ target.keys
                 IN  /\ target'.text = IF new \cap Chars # {} /\ endpoint.down \subseteq Chars
                                       THEN Append(target.text, Symbol(CHOOSE c \in new : TRUE))
                                       ELSE target.text
                     /\ target'.numLock = IF "numlock" \in new THEN ~target.numLock ELSE target.numLock
                     /\ leds' = IF "numlock" \in new THEN Append(leds, ~target.numLock) ELSE leds
         /\ endpoint.kind \in {"keys", "mouse"}
<1>1. endpoint \in Reports /\ target \in Targets /\ endpoint # NoReport
  BY DEF Basic, TypeInv, Poll
<1>2. endpoint.kind \in {"keys", "mouse"} /\ endpoint.down \in SUBSET (Keyboard \cup Left)
  BY <1>1, ReportSet
<1>3. CASE endpoint.kind = "mouse"
  <2>1. target' = [target EXCEPT !.buttons = endpoint.down] /\ leds' = leds
    BY <1>3 DEF Poll
  <2>2. target' \in Targets
    BY <1>1, <1>2, <2>1 DEF Targets
  <2>3. QED
    BY <1>1, <1>2, <1>3, <2>1, <2>2 DEF Poll, Targets
<1>4. CASE endpoint.kind = "keys"
  <2> DEFINE new  == endpoint.down \ target.keys
             text == IF new \cap Chars # {} /\ endpoint.down \subseteq Chars
                     THEN Append(target.text, Symbol(CHOOSE c \in new : TRUE)) ELSE target.text
             lock == IF "numlock" \in new THEN ~target.numLock ELSE target.numLock
  <2>1. /\ target' = [target EXCEPT !.keys = endpoint.down, !.text = text, !.numLock = lock]
        /\ leds' = IF "numlock" \in new THEN Append(leds, ~target.numLock) ELSE leds
        /\ mounted /\ endpoint' = NoReport
    BY <1>1, <1>4 DEF Poll, Targets
  <2>2. lock \in BOOLEAN
    BY <1>1 DEF Targets
  <2>3. text \in Seq(Marks)
    <3>1. CASE new \cap Chars # {} /\ endpoint.down \subseteq Chars
      <4>1. (CHOOSE c \in new : TRUE) \in new
        BY <3>1
      <4>2. (CHOOSE c \in new : TRUE) \in Chars
        BY <3>1, <4>1
      <4>3. Symbol(CHOOSE c \in new : TRUE) \in Marks
        BY <4>2 DEF Symbol, Chars, Marks, Keyboard
      <4>4. target.text \in Seq(Marks)
        BY <1>1 DEF Targets
      <4>5. QED
        BY <3>1, <4>3, <4>4, AppendProperties
    <3>2. CASE ~(new \cap Chars # {} /\ endpoint.down \subseteq Chars)
      BY <1>1, <3>2 DEF Targets
    <3>3. QED
      BY <3>1, <3>2
  <2> HIDE DEF text, lock
  <2>4. target' \in Targets /\ target'.keys = endpoint.down /\ target'.buttons = target.buttons
        /\ target'.text = text /\ target'.numLock = lock
    BY <1>1, <1>2, <2>1, <2>2, <2>3 DEF Targets
  <2>5. QED
    BY <1>1, <1>2, <1>4, <2>1, <2>4 DEF text, lock
<1>5. QED
  BY <1>2, <1>3, <1>4

(* What a text and the text of the target start from. *)
LEMMA EmptyText ==
  /\ NoText \in Typings
  /\ \A text \in Seq(Symbols) : [NoText EXCEPT !.text = text] \in Typings
  /\ \A m \in Targets : [m EXCEPT !.text = <<>>] \in Targets
<1>1. <<>> \in Seq(Symbols) /\ <<>> \in Seq(Marks)
  OBVIOUS
<1>2. FALSE \in BOOLEAN
  OBVIOUS
<1>3. NoText \in Typings
  BY <1>1, <1>2 DEF NoText, Typings
<1>4. \A text \in Seq(Symbols) : [NoText EXCEPT !.text = text] \in Typings
  BY <1>3 DEF Typings
<1>5. \A m \in Targets : [m EXCEPT !.text = <<>>] \in Targets
  BY <1>1 DEF Targets
<1>6. QED
  BY <1>3, <1>4, <1>5

(* The channel of a text is a Boolean. *)
LEMMA KeypadSet ==
  ASSUME NEW x \in Typings
  PROVE  [x EXCEPT !.keypad = TRUE] \in Typings /\ [x EXCEPT !.keypad = FALSE] \in Typings
<1>1. TRUE \in BOOLEAN /\ FALSE \in BOOLEAN
  OBVIOUS
<1>2. \A b \in BOOLEAN : [x EXCEPT !.keypad = b] \in Typings
  BY DEF Typings
<1>3. QED
  BY <1>1, <1>2

(* The counts of a text are natural numbers. *)
LEMMA CountSet ==
  ASSUME NEW x \in Typings
  PROVE  [x EXCEPT !.queued = @ + 1] \in Typings /\ [x EXCEPT !.at = @ + 1] \in Typings
<1>1. x.queued + 1 \in Nat /\ x.at + 1 \in Nat
  BY DEF Typings
<1>2. \A n \in Nat : [x EXCEPT !.queued = n] \in Typings /\ [x EXCEPT !.at = n] \in Typings
  BY DEF Typings
<1>3. QED
  BY <1>1, <1>2

(* Every step keeps the types. *)
LEMMA TypeStep ==
  ASSUME Basic, [Next]_vars
  PROVE  TypeInv'
<1>1. script' \in [Tasks -> Seq(Steps)]
  BY ScriptStep
<1>2. TypeInv
  BY DEF Basic
<1> USE <1>1, <1>2
<1>3. ASSUME NEW t \in Tasks, SeesReady(t) PROVE TypeInv'
  <2>1. call' = [call EXCEPT ![t].phase = "claim"]
    BY <1>3 DEF SeesReady
  <2>2. call' \in [Tasks -> Calls]
    BY <2>1 DEF TypeInv, Calls, Phases
  <2>3. QED
    BY <1>3, <2>2 DEF SeesReady, TypeInv, deviceVars, histVars
<1>4. ASSUME NEW t \in Tasks, TimesOut(t) PROVE TypeInv'
  <2>1. call' = [call EXCEPT ![t].phase = "failed"] /\ dropped' = TRUE
    BY <1>4 DEF TimesOut
  <2>2. call' \in [Tasks -> Calls]
    BY <2>1 DEF TypeInv, Calls, Phases
  <2>3. QED
    BY <1>4, <2>1, <2>2 DEF TimesOut, TypeInv, deviceVars, histVars
<1>5. ASSUME NEW t \in Tasks, Claims(t) PROVE TypeInv'
  <2>1. call[t] \in Calls /\ call[t].report \in Reports
    BY DEF TypeInv, Calls
  <2>2. CASE Ready
    <3>1. call' = [call EXCEPT ![t].phase = "sent"] /\ endpoint' = call[t].report
      BY <1>5, <2>2 DEF Claims
    <3>2. call' \in [Tasks -> Calls]
      BY <3>1 DEF TypeInv, Calls, Phases
    <3>3. QED
      BY <1>5, <2>1, <3>1, <3>2 DEF Claims, TypeInv, histVars
  <2>3. CASE ~Ready
    <3>1. call' = [call EXCEPT ![t] = Retried(call[t])] /\ endpoint' = endpoint
      BY <1>5, <2>3 DEF Claims, TypeInv
    <3>2. call' \in [Tasks -> Calls]
      BY <2>1, <3>1, RetriedType DEF TypeInv
    <3>3. QED
      BY <1>5, <3>1, <3>2 DEF Claims, TypeInv, histVars
  <2>4. QED
    BY <2>2, <2>3
<1>6. ASSUME NEW t \in Tasks, NEW r \in Reports, Send(t, r) PROVE call' \in [Tasks -> Calls]
  <2>1. \E p \in Phases : call' = [call EXCEPT ![t] = [report |-> r, phase |-> p, tries |-> 0]]
    BY <1>6 DEF Send, Phases
  <2>2. QED
    BY <2>1, ReportSet DEF TypeInv
<1>7. ASSUME MouseCall("loop") PROVE TypeInv'
  <2>1. held \subseteq Left /\ Now(L) \in Steps /\ Now(L).op \in MouseOps
    BY <1>7, LoopMouse DEF TypeInv
  <2>2. held' \subseteq Left /\ call' \in [Tasks -> Calls]
    <3>1. CASE held' = held /\ call' = call
      BY <3>1 DEF TypeInv
    <3>2. CASE held' = HeldAfter(Now(L)) /\ Send("loop", Mouse(held'))
      <4>1. held' \subseteq Left
        BY <2>1, <3>2, HeldType
      <4>2. held' \in SUBSET (Keyboard \cup Left)
        BY <4>1
      <4>3. Mouse(held') \in Reports
        BY <4>2, ReportSet
      <4>4. QED
        BY <3>2, <4>1, <4>3, <1>6 DEF Tasks
    <3>3. QED
      BY <1>7, <3>1, <3>2, LoopMouse
  <2>3. QED
    BY <1>7, <2>2 DEF MouseCall, TypeInv, histVars
<1>8. ASSUME MouseCall("httpd") PROVE TypeInv'
  <2>1. held' = {} /\ Send("httpd", Mouse({}))
    BY <1>8, HttpdMouse
  <2>2. Mouse({}) \in Reports
    BY ReportSet
  <2>3. call' \in [Tasks -> Calls]
    BY <1>6, <2>1, <2>2 DEF Tasks
  <2>4. QED
    BY <1>8, <2>1, <2>3 DEF MouseCall, TypeInv, histVars
<1>9. ASSUME NEW t \in Tasks, KeyCall(t) PROVE TypeInv'
  <2>1. script[t] # <<>> /\ Send(t, Keys(Head1(t).arg)) /\ script[t] \in Seq(Steps)
    BY <1>9 DEF KeyCall, TypeInv
  <2>2. Head1(t) \in Steps
    BY <2>1, HeadNow DEF Head1
  <2>3. Keys(Head1(t).arg) \in Reports
    BY <2>2, StepFacts, ReportSet
  <2>4. call' \in [Tasks -> Calls]
    BY <1>6, <2>1, <2>3
  <2>5. QED
    BY <1>9, <2>4 DEF KeyCall, TypeInv, deviceVars, histVars
<1>10. ASSUME NEW t \in Tasks, Returns(t) PROVE TypeInv'
  <2>1. call' = [call EXCEPT ![t] = NoCall]
    BY <1>10 DEF Returns
  <2>2. call' \in [Tasks -> Calls]
    BY <2>1, ReportSet DEF TypeInv
  <2>3. typing' \in Typings
    <3>1. typing' = typing \/ typing' = [typing EXCEPT !.queued = @ + 1]
      BY <1>10 DEF Returns
    <3>2. QED
      BY <3>1, CountSet DEF TypeInv
  <2>4. dropped' \in BOOLEAN
    BY <1>10 DEF Returns, TypeInv
  <2>5. QED
    BY <1>10, <2>2, <2>3, <2>4 DEF Returns, TypeInv, deviceVars, histVars
<1>11. ASSUME Expand PROVE TypeInv'
  BY <1>11 DEF Expand, TypeInv, deviceVars, histVars
<1>12. ASSUME Type PROVE TypeInv'
  <2>1. typing' = [typing EXCEPT !.len = IF mounted THEN Len(typing.text) ELSE 0]
    BY <1>12 DEF Type
  <2>2. typing' \in Typings
    <3>1. Len(typing.text) \in Nat
      BY DEF TypeInv, Typings
    <3>2. QED
      BY <2>1, <3>1 DEF TypeInv, Typings
  <2>3. QED
    BY <1>12, <2>2 DEF Type, TypeInv, deviceVars, histVars
<1>13. ASSUME NextChar PROVE TypeInv'
  <2>1. typing' = typing \/ typing' = [typing EXCEPT !.at = @ + 1]
    BY <1>13 DEF NextChar
  <2>2. typing' \in Typings
    BY <2>1, CountSet DEF TypeInv
  <2>3. QED
    BY <1>13, <2>2 DEF NextChar, TypeInv, deviceVars, histVars
<1>14. ASSUME NumLock PROVE TypeInv'
  <2>1. \/ typing' = typing
        \/ typing' = [typing EXCEPT !.keypad = TRUE]
        \/ typing' = [typing EXCEPT !.keypad = FALSE]
    BY <1>14, NumLockScript
  <2>2. typing' \in Typings
    BY <2>1, KeypadSet DEF TypeInv
  <2>3. gaveUp' \in BOOLEAN
    BY <1>14 DEF NumLock, TypeInv
  <2>4. QED
    BY <1>14, <2>2, <2>3 DEF NumLock, TypeInv, deviceVars
<1>15. ASSUME StartAction PROVE TypeInv'
  <2>1. \E text \in Seq(Symbols) : typing' = [NoText EXCEPT !.text = text]
    BY <1>15, StartScript
  <2>2. typing' \in Typings
    BY <2>1, EmptyText
  <2>3. target' \in Targets
    <3>1. target' = [target EXCEPT !.text = <<>>]
      BY <1>15 DEF StartAction
    <3>2. QED
      BY <3>1, EmptyText DEF TypeInv
  <2>4. QED
    BY <1>15, <2>2, <2>3 DEF StartAction, TypeInv, deviceVars
<1>16. ASSUME Report PROVE TypeInv'
  <2>1. typing' \in Typings
    <3>1. typing' = [typing EXCEPT !.done = TRUE]
      BY <1>16 DEF Report
    <3>2. QED
      BY <3>1 DEF TypeInv, Typings
  <2>2. QED
    BY <1>16, <2>1 DEF Report, TypeInv, deviceVars, histVars
<1>17. ASSUME EndAction PROVE TypeInv'
  <2>1. target' \in Targets /\ typing' \in Typings
    <3>1. target' = [target EXCEPT !.text = <<>>] /\ typing' = NoText
      BY <1>17 DEF EndAction
    <3>2. QED
      BY <3>1, EmptyText DEF TypeInv
  <2>2. QED
    BY <1>17, <2>1 DEF EndAction, TypeInv, deviceVars, histVars
<1>18. ASSUME EndBatch PROVE TypeInv'
  BY <1>18 DEF EndBatch, TypeInv, deviceVars, histVars
<1>19. ASSUME LoopTop PROVE TypeInv'
  <2>1. CASE emergency
    <3>1. dropped' \in BOOLEAN
      BY <1>19, <2>1 DEF LoopTop, TypeInv
    <3>2. QED
      BY <1>19, <2>1, <3>1 DEF LoopTop, TypeInv, deviceVars, histVars
  <2>2. CASE ~emergency
    BY <1>19, <2>2 DEF LoopTop, TypeInv, deviceVars, histVars
  <2>3. QED
    BY <2>1, <2>2
<1>20. ASSUME Emergency PROVE TypeInv'
  BY <1>20 DEF Emergency, TypeInv, deviceVars
<1>21. ASSUME Poll PROVE TypeInv'
  <2>1. target' \in Targets /\ endpoint' = NoReport
    BY <1>21, PollFacts
  <2>2. leds' \in Seq(BOOLEAN)
    <3>1. leds' = leds \/ leds' = Append(leds, ~target.numLock)
      BY <1>21 DEF Poll
    <3>2. target.numLock \in BOOLEAN /\ leds \in Seq(BOOLEAN)
      BY DEF TypeInv, Targets
    <3>3. (~target.numLock) \in BOOLEAN
      OBVIOUS
    <3>4. Append(leds, ~target.numLock) \in Seq(BOOLEAN)
      BY <3>2, <3>3, AppendProperties
    <3>5. QED
      BY <3>1, <3>2, <3>4
  <2>3. endpoint' \in Reports
    BY <2>1, ReportSet
  <2>4. QED
    BY <1>21, <2>1, <2>2, <2>3 DEF Poll, TypeInv, taskVars, histVars
<1>22. ASSUME LedReport PROVE TypeInv'
  <2>1. leds # <<>> /\ leds \in Seq(BOOLEAN) /\ led' = Head(leds) /\ leds' = Tail(leds) /\ ledSeen' = TRUE
    BY <1>22 DEF LedReport, TypeInv
  <2>2. Head(leds) \in BOOLEAN /\ Tail(leds) \in Seq(BOOLEAN)
    BY <2>1, HeadTailProperties
  <2>3. led' \in BOOLEAN /\ leds' \in Seq(BOOLEAN) /\ ledSeen' \in BOOLEAN
    BY <2>1, <2>2
  <2>4. QED
    BY <1>22, <2>3 DEF LedReport, TypeInv, taskVars, histVars
<1>23. ASSUME Configure PROVE TypeInv'
  <2>1. leds' = <<target.numLock>> /\ target.numLock \in BOOLEAN
    BY <1>23 DEF Configure, TypeInv, Targets
  <2>2. leds' \in Seq(BOOLEAN)
    BY <2>1
  <2>3. QED
    BY <1>23, <2>2 DEF Configure, TypeInv, taskVars, histVars
<1>24. ASSUME Unplug PROVE TypeInv'
  <2>1. endpoint' = NoReport /\ leds' = <<>> /\ target' = FreshTarget /\ mounted' = FALSE
    BY <1>24 DEF Unplug
  <2>2. FreshTarget \in Targets
    BY DEF FreshTarget, Targets
  <2>3. endpoint' \in Reports /\ target' \in Targets
    BY <2>1, <2>2, ReportSet
  <2>4. leds' \in Seq(BOOLEAN)
    BY <2>1
  <2>5. mounted' \in BOOLEAN
    BY <2>1
  <2>6. QED
    BY <1>24, <2>3, <2>4, <2>5 DEF Unplug, TypeInv, taskVars
<1>25. ASSUME Replug PROVE TypeInv'
  BY <1>25 DEF Replug, TypeInv, taskVars, histVars
<1>26. ASSUME UNCHANGED vars PROVE TypeInv'
  BY <1>26 DEF vars, TypeInv, deviceVars, taskVars, histVars
<1>27. QED
  BY <1>3, <1>4, <1>5, <1>7, <1>8, <1>9, <1>10, <1>11, <1>12, <1>13, <1>14, <1>15, <1>16, <1>17, <1>18,
     <1>19, <1>20, <1>21, <1>22, <1>23, <1>24, <1>25, <1>26 DEF Next, Loop, Sending, Target, Tasks

(* What sending makes of a call. *)
LEMMA Sent ==
  ASSUME call \in [Tasks -> Calls], NEW t \in Tasks, NEW r \in Reports, Send(t, r)
  PROVE  /\ call'[t].report = r /\ call'[t].tries = 0
         /\ call'[t].phase = IF mounted THEN "wait" ELSE "failed"
         /\ \A u \in Tasks \ {t} : call'[u] = call[u]
BY DEF Send

(* Every step keeps the reports those of the calls at hand. *)
LEMMA CallStep ==
  ASSUME Basic, [Next]_vars
  PROVE  CallInv'
<1> DEFINE Fitted(u) == call'[u].phase # "none" => Fits(Now(script'[u]), call'[u].report)
           Free == call'["loop"].phase = "claim" /\ call'["httpd"].phase = "claim" => endpoint' = NoReport
           Gone == ~mounted' => endpoint' = NoReport /\ target'.keys = {} /\ target'.buttons = {}
           Kept == mounted' = mounted /\ endpoint' = endpoint /\ target' = target
<1>1. ASSUME \A u \in Tasks : Fitted(u), Free, Gone PROVE CallInv'
  BY <1>1 DEF CallInv
<1>2. /\ script \in [Tasks -> Seq(Steps)] /\ call \in [Tasks -> Calls]
      /\ "loop" \in Tasks /\ "httpd" \in Tasks /\ Tasks = {"loop", "httpd"} /\ CallInv /\ TypeInv
      /\ script["loop"] = L /\ script["httpd"] = H /\ script'["loop"] = L' /\ script'["httpd"] = H'
  BY Known DEF Basic, L, H
<1>3. \A u \in Tasks : script'[u] = script[u] /\ call'[u] = call[u] => Fitted(u)
  BY <1>2 DEF CallInv
<1>4. \A u \in Tasks : call'[u].phase = "none" => Fitted(u)
  OBVIOUS
<1>5. Kept => Gone
  BY <1>2 DEF CallInv
<1>6. Kept /\ call' = call => Free
  BY <1>2 DEF CallInv
<1>7. \A u \in Tasks : script[u] = <<>> => call[u].phase = "none"
  BY Calling
<1> HIDE DEF Free, Gone, Kept
<1>8. ASSUME NEW t \in Tasks, SeesReady(t) PROVE CallInv'
  <2>1. /\ Kept /\ script' = script /\ endpoint = NoReport /\ call[t].phase = "wait"
        /\ call' = [call EXCEPT ![t].phase = "claim"]
    BY <1>8 DEF SeesReady, Ready, Kept, deviceVars
  <2>2. call'[t].report = call[t].report /\ call[t].phase # "none"
        /\ \A u \in Tasks \ {t} : call'[u] = call[u]
    BY <1>2, <2>1 DEF Calls
  <2>3. \A u \in Tasks : Fitted(u)
    BY <1>2, <1>3, <2>1, <2>2 DEF CallInv
  <2>4. Free
    BY <2>1 DEF Free, Kept
  <2>5. QED
    BY <1>1, <1>5, <2>1, <2>3, <2>4
<1>9. ASSUME NEW t \in Tasks, TimesOut(t) PROVE CallInv'
  <2>1. /\ Kept /\ script' = script /\ call[t].phase = "wait"
        /\ call' = [call EXCEPT ![t].phase = "failed"]
    BY <1>9 DEF TimesOut, Kept, deviceVars
  <2>2. call'[t].report = call[t].report /\ call[t].phase # "none" /\ call'[t].phase = "failed"
        /\ \A u \in Tasks \ {t} : call'[u] = call[u]
    BY <1>2, <2>1 DEF Calls
  <2>3. \A u \in Tasks : Fitted(u)
    BY <1>2, <1>3, <2>1, <2>2 DEF CallInv
  <2>4. Free
    BY <1>2, <2>1, <2>2 DEF Free
  <2>5. QED
    BY <1>1, <1>5, <2>1, <2>3, <2>4
<1>10. ASSUME NEW t \in Tasks, Claims(t) PROVE CallInv'
  <2>1. /\ script' = script /\ call[t].phase = "claim" /\ mounted' = mounted /\ target' = target
    BY <1>10 DEF Claims
  <2>2. CASE Ready
    <3>1. call' = [call EXCEPT ![t].phase = "sent"] /\ mounted
      BY <1>10, <2>2 DEF Claims, Ready
    <3>2. call'[t].report = call[t].report /\ call[t].phase # "none" /\ call'[t].phase = "sent"
          /\ \A u \in Tasks \ {t} : call'[u] = call[u]
      BY <1>2, <2>1, <3>1 DEF Calls
    <3>3. \A u \in Tasks : Fitted(u)
      BY <1>2, <1>3, <2>1, <3>2 DEF CallInv
    <3>4. Free
      BY <1>2, <3>2 DEF Free
    <3>5. Gone
      BY <2>1, <3>1 DEF Gone
    <3>6. QED
      BY <1>1, <3>3, <3>4, <3>5
  <2>3. CASE ~Ready
    <3>1. call' = [call EXCEPT ![t] = Retried(call[t])] /\ endpoint' = endpoint /\ Kept
      BY <1>2, <1>10, <2>1, <2>3 DEF Claims, Kept
    <3>2. call'[t] = Retried(call[t]) /\ call[t] \in Calls /\ \A u \in Tasks \ {t} : call'[u] = call[u]
      BY <1>2, <3>1
    <3>3. call'[t].report = call[t].report /\ call[t].phase # "none" /\ call'[t].phase \in {"failed", "wait"}
      BY <2>1, <3>2, RetriedType
    <3>4. \A u \in Tasks : Fitted(u)
      BY <1>2, <1>3, <2>1, <3>2, <3>3 DEF CallInv
    <3>5. Free
      BY <1>2, <3>3 DEF Free
    <3>6. QED
      BY <1>1, <1>5, <3>1, <3>4, <3>5
  <2>4. QED
    BY <2>2, <2>3
<1>11. ASSUME NEW t \in Tasks, NEW r \in Reports, Send(t, r), Fits(Now(script'[t]), r),
              \A u \in Tasks \ {t} : script'[u] = script[u], Kept
       PROVE  CallInv'
  <2>1. /\ call'[t].report = r /\ call'[t].phase \in {"wait", "failed"}
        /\ \A u \in Tasks \ {t} : call'[u] = call[u]
    BY <1>2, <1>11, Sent
  <2>2. \A u \in Tasks : Fitted(u)
    BY <1>3, <1>11, <2>1
  <2>3. Free
    BY <1>2, <2>1 DEF Free
  <2>4. QED
    BY <1>1, <1>5, <1>11, <2>2, <2>3
<1>12. ASSUME NEW t \in Tasks, KeyCall(t) PROVE CallInv'
  <2>1. /\ Kept /\ script' = script /\ script[t] # <<>> /\ Head1(t).op \in KeyOps
        /\ Send(t, Keys(Head1(t).arg))
    BY <1>12 DEF KeyCall, Kept, deviceVars, KeyOps
  <2>2. Head1(t) = Now(script[t]) /\ Head1(t) \in Steps
    BY <1>2, <2>1, HeadNow DEF Head1
  <2>3. Keys(Head1(t).arg) \in Reports /\ Fits(Now(script'[t]), Keys(Head1(t).arg))
    BY <2>1, <2>2, StepFacts, ReportSet DEF Fits
  <2>4. QED
    BY <1>11, <2>1, <2>3
<1>13. ASSUME MouseCall("loop") PROVE CallInv'
  <2>1. Kept /\ H' = H
    BY <1>13, LoopMouse DEF MouseCall, Kept
  <2>2. CASE L' = Tail(L) /\ call' = call
    <3>1. call["loop"].phase = "none"
      BY <1>13, LoopMouse
    <3>2. \A u \in Tasks : Fitted(u)
      BY <1>2, <1>3, <1>4, <2>1, <2>2, <3>1
    <3>3. QED
      BY <1>1, <1>5, <1>6, <2>1, <2>2, <3>2
  <2>3. CASE L' = L /\ held' = HeldAfter(Now(L)) /\ Send("loop", Mouse(held'))
    <3>1. Now(L) \in Steps /\ Now(L).op \in MouseOps /\ held \subseteq Left
      BY <1>2, <1>13, LoopMouse DEF TypeInv
    <3>2. held' \subseteq Left /\ (Release(Now(L)) => held' = {})
      BY <2>3, <3>1, HeldType
    <3>3. held' \in SUBSET (Keyboard \cup Left)
      BY <3>2
    <3>4. Mouse(held') \in Reports
      BY <3>3, ReportSet
    <3>5. Fits(Now(L), Mouse(held'))
      BY <3>1, <3>2 DEF Fits, Mouse
    <3>6. QED
      BY <1>2, <1>11, <2>1, <2>3, <3>4, <3>5
  <2>4. QED
    BY <1>13, <2>2, <2>3, LoopMouse
<1>14. ASSUME MouseCall("httpd") PROVE CallInv'
  <2>1. /\ Kept /\ script' = script /\ Now(H) = Do("set", {}) /\ Send("httpd", Mouse({}))
    BY <1>14, HttpdMouse DEF MouseCall, Kept
  <2>2. Mouse({}) \in Reports /\ Fits(Now(H), Mouse({}))
    BY <2>1, ReportSet DEF Fits, Mouse, MouseOps, Do
  <2>3. QED
    BY <1>2, <1>11, <2>1, <2>2
<1>15. ASSUME NEW t \in Tasks, call'[t].phase = "none", Kept,
              \A u \in Tasks \ {t} : script'[u] = script[u] /\ call'[u] = call[u]
       PROVE  CallInv'
  <2>1. \A u \in Tasks : Fitted(u)
    BY <1>3, <1>4, <1>15
  <2>2. Free
    BY <1>2, <1>15 DEF Free
  <2>3. QED
    BY <1>1, <1>5, <1>15, <2>1, <2>2
<1>16. ASSUME NEW t \in Tasks, Returns(t) PROVE CallInv'
  <2>1. Kept /\ call' = [call EXCEPT ![t] = NoCall]
    BY <1>16 DEF Returns, Kept, deviceVars
  <2>2. call'[t].phase = "none" /\ \A u \in Tasks \ {t} : call'[u] = call[u]
    BY <1>2, <2>1 DEF NoCall
  <2>3. \A u \in Tasks \ {t} : script'[u] = script[u]
    BY <1>2, <1>16, LoopReturns, HttpdReturns
  <2>4. QED
    BY <1>15, <2>1, <2>2, <2>3
<1>17. ASSUME Expand \/ Type \/ NextChar \/ NumLock \/ Report PROVE CallInv'
  <2>1. Kept /\ call' = call
    BY <1>17 DEF Expand, Type, NextChar, NumLock, Report, Kept, deviceVars
  <2>2. H' = H
    BY <1>17, ExpandScript, TypeScript, NextCharScript, NumLockScript, ReportScript
  <2>3. call["loop"].phase = "none"
    <3>1. CASE Expand
      BY <3>1, ExpandScript
    <3>2. CASE Type
      BY <3>2 DEF Type, Busy
    <3>3. CASE NextChar
      BY <3>3 DEF NextChar, Busy
    <3>4. CASE NumLock
      BY <3>4, NumLockScript
    <3>5. CASE Report
      BY <3>5, ReportScript
    <3>6. QED
      BY <1>17, <3>1, <3>2, <3>3, <3>4, <3>5
  <2>4. QED
    BY <1>2, <1>15, <2>1, <2>2, <2>3
<1>18. ASSUME StartAction PROVE CallInv'
  <2>1. /\ H' = H /\ L = <<>> /\ call' = call /\ mounted' = mounted /\ endpoint' = endpoint
        /\ target' = [target EXCEPT !.text = <<>>]
    BY <1>18, StartScript DEF StartAction, deviceVars
  <2>2. call["loop"].phase = "none"
    BY <1>2, <1>7, <2>1
  <2>3. \A u \in Tasks : Fitted(u)
    BY <1>2, <1>3, <1>4, <2>1, <2>2
  <2>4. target'.keys = target.keys /\ target'.buttons = target.buttons
    BY <1>2, <2>1 DEF TypeInv, Targets
  <2>5. Free /\ Gone
    BY <1>2, <2>1, <2>4 DEF Free, Gone, CallInv
  <2>6. QED
    BY <1>1, <2>3, <2>5
<1>19. ASSUME EndAction PROVE CallInv'
  <2>1. /\ script' = script /\ call' = call /\ mounted' = mounted /\ endpoint' = endpoint
        /\ target' = [target EXCEPT !.text = <<>>]
    BY <1>19 DEF EndAction, deviceVars
  <2>2. \A u \in Tasks : Fitted(u)
    BY <1>2, <1>3, <2>1
  <2>3. target'.keys = target.keys /\ target'.buttons = target.buttons
    BY <1>2, <2>1 DEF TypeInv, Targets
  <2>4. Free /\ Gone
    BY <1>2, <2>1, <2>3 DEF Free, Gone, CallInv
  <2>5. QED
    BY <1>1, <2>2, <2>4
<1>20. ASSUME EndBatch \/ LedReport \/ Configure \/ UNCHANGED vars PROVE CallInv'
  <2>1. Kept /\ call' = call /\ script' = script
    BY <1>20 DEF EndBatch, LedReport, Configure, vars, deviceVars, taskVars, Kept
  <2>2. QED
    BY <1>1, <1>3, <1>5, <1>6, <2>1
<1>21. ASSUME LoopTop PROVE CallInv'
  <2>1. Kept /\ call' = call /\ L = <<>> /\ H' = H
    BY <1>2, <1>21 DEF LoopTop, deviceVars, Kept, L, H
  <2>2. call["loop"].phase = "none"
    BY <1>2, <1>7, <2>1
  <2>3. QED
    BY <1>2, <1>15, <2>1, <2>2
<1>22. ASSUME Emergency PROVE CallInv'
  <2>1. Kept /\ call' = call /\ H = <<>> /\ L' = L
    BY <1>2, <1>22 DEF Emergency, deviceVars, Kept, L, H
  <2>2. call["httpd"].phase = "none"
    BY <1>2, <1>7, <2>1
  <2>3. QED
    BY <1>2, <1>15, <2>1, <2>2
<1>23. ASSUME Poll PROVE CallInv'
  <2>1. /\ script' = script /\ call' = call /\ mounted /\ mounted' = mounted /\ endpoint' = NoReport
    BY <1>23 DEF Poll, taskVars
  <2>2. \A u \in Tasks : Fitted(u)
    BY <1>3, <2>1
  <2>3. Free /\ Gone
    BY <2>1 DEF Free, Gone
  <2>4. QED
    BY <1>1, <2>2, <2>3
<1>24. ASSUME Unplug PROVE CallInv'
  <2>1. /\ script' = script /\ call' = call /\ endpoint' = NoReport /\ target' = FreshTarget
    BY <1>24 DEF Unplug, taskVars
  <2>2. \A u \in Tasks : Fitted(u)
    BY <1>3, <2>1
  <2>3. Free /\ Gone
    BY <2>1 DEF Free, Gone, FreshTarget
  <2>4. QED
    BY <1>1, <2>2, <2>3
<1>25. ASSUME Replug PROVE CallInv'
  <2>1. /\ script' = script /\ call' = call /\ endpoint' = endpoint /\ mounted' /\ ~mounted
    BY <1>25 DEF Replug, taskVars
  <2>2. \A u \in Tasks : Fitted(u)
    BY <1>3, <2>1
  <2>3. Free /\ Gone
    BY <1>2, <2>1 DEF Free, Gone, CallInv
  <2>4. QED
    BY <1>1, <2>2, <2>3
<1>26. QED
  BY <1>8, <1>9, <1>10, <1>12, <1>13, <1>14, <1>16, <1>17, <1>18, <1>19, <1>20, <1>21, <1>22, <1>23,
     <1>24, <1>25 DEF Next, Loop, Sending, Target, Tasks

(* What the rest of the invariant relies on is inductive. *)
LEMMA BasicStep == Basic /\ [Next]_vars => Basic'
BY TypeStep, ScriptStep, CallStep DEF Basic

-----------------------------------------------------------------------------
(* Keys.                                                                   *)

(* What is down once the endpoint is polled. *)
KeysDown    == IF endpoint.kind = "keys" THEN endpoint.down ELSE target.keys
ButtonsDown == IF endpoint.kind = "mouse" THEN endpoint.down ELSE target.buttons

At(t) == call[t].phase
Open  == {"none", "wait", "claim"}

(* A key that is down is released by the call at hand: in an action by the  *)
(* loop, after an emergency by whichever task comes first.                  *)
KeysInv ==
  ~dropped /\ KeysDown # {} =>
    \/ /\ pc = "action"
       /\ \/ Down(Now(L)) /\ At("loop") = "sent"
          \/ Up(Now(L)) /\ At("loop") # "sent"
    \/ /\ pc = "idle" /\ Now(L) = Do("keys", {}) /\ At("loop") \in Open
       /\ H # <<>> => Now(H) = Do("keys", {}) /\ At("httpd") \in Open
       /\ \A t \in Tasks : At(t) = "claim" => endpoint = NoReport

(* A report that the endpoint takes is what is down afterwards. *)
LEMMA ClaimDown ==
  ASSUME Basic, NEW t \in Tasks, Claims(t)
  PROVE  /\ At(t) = "claim" /\ script' = script /\ pc' = pc /\ dropped' = dropped /\ stale' = stale
         /\ mounted' = mounted /\ target' = target /\ held' = held /\ typing' = typing
         /\ \A u \in Tasks \ {t} : call'[u] = call[u]
         /\ call'[t].report = call[t].report
         /\ ~Ready => /\ endpoint' = endpoint /\ KeysDown' = KeysDown /\ ButtonsDown' = ButtonsDown
                      /\ call'[t] = Retried(call[t])
         /\ Ready => /\ endpoint = NoReport /\ endpoint' = call[t].report /\ mounted
                     /\ call'[t].phase = "sent" /\ call'[t].tries = call[t].tries
                     /\ \/ /\ Now(script[t]).op \in KeyOps /\ KeysDown' = Now(script[t]).arg
                           /\ ButtonsDown' = ButtonsDown /\ endpoint' = Keys(Now(script[t]).arg)
                           /\ call[t].report.kind = "keys"
                        \/ /\ Now(script[t]).op \in MouseOps /\ ButtonsDown' = call[t].report.down
                           /\ KeysDown' = KeysDown /\ endpoint'.kind = "mouse"
                           /\ Release(Now(script[t])) => ButtonsDown' = {}
<1>1. /\ At(t) = "claim" /\ script' = script /\ pc' = pc /\ dropped' = dropped /\ stale' = stale
      /\ mounted' = mounted /\ target' = target /\ held' = held /\ typing' = typing
  BY DEF Claims, At, histVars
<1>2. call \in [Tasks -> Calls] /\ call[t] \in Calls
  BY DEF Basic, TypeInv
<1>3. CASE ~Ready
  <2>1. endpoint' = endpoint /\ call' = [call EXCEPT ![t] = Retried(call[t])]
    BY <1>2, <1>3 DEF Claims
  <2>2. KeysDown' = KeysDown /\ ButtonsDown' = ButtonsDown
    BY <1>1, <2>1 DEF KeysDown, ButtonsDown
  <2>3. call'[t] = Retried(call[t]) /\ \A u \in Tasks \ {t} : call'[u] = call[u]
    BY <1>2, <2>1
  <2>4. call'[t].report = call[t].report
    BY <1>2, <2>3, RetriedType
  <2>5. QED
    BY <1>1, <1>3, <2>1, <2>2, <2>3, <2>4
<1>4. CASE Ready
  <2>1. /\ endpoint = NoReport /\ mounted /\ endpoint' = call[t].report
        /\ call' = [call EXCEPT ![t].phase = "sent"]
    BY <1>4 DEF Claims, Ready
  <2>2. /\ call'[t].report = call[t].report /\ call'[t].phase = "sent" /\ call'[t].tries = call[t].tries
        /\ \A u \in Tasks \ {t} : call'[u] = call[u]
    BY <1>2, <2>1 DEF Calls
  <2>3. KeysDown = target.keys /\ ButtonsDown = target.buttons
    BY <2>1 DEF KeysDown, ButtonsDown, NoReport
  <2>4. \/ Now(script[t]).op \in KeyOps /\ call[t].report = Keys(Now(script[t]).arg)
        \/ /\ Now(script[t]).op \in MouseOps /\ call[t].report.kind = "mouse"
           /\ Release(Now(script[t])) => call[t].report.down = {}
    BY <1>1, Calling DEF At
  <2>5. CASE Now(script[t]).op \in KeyOps /\ call[t].report = Keys(Now(script[t]).arg)
    <3>1. /\ call[t].report.kind = "keys" /\ call[t].report.down = Now(script[t]).arg
      BY <2>5 DEF Keys
    <3>2. KeysDown' = Now(script[t]).arg /\ ButtonsDown' = ButtonsDown
      BY <1>1, <2>1, <2>3, <3>1 DEF KeysDown, ButtonsDown
    <3>3. QED
      BY <1>1, <1>4, <2>1, <2>2, <2>5, <3>1, <3>2
  <2>6. CASE /\ Now(script[t]).op \in MouseOps /\ call[t].report.kind = "mouse"
             /\ Release(Now(script[t])) => call[t].report.down = {}
    <3>1. KeysDown' = KeysDown /\ ButtonsDown' = call[t].report.down
      BY <1>1, <2>1, <2>3, <2>6 DEF KeysDown, ButtonsDown
    <3>2. QED
      BY <1>1, <1>4, <2>1, <2>2, <2>6, <3>1
  <2>7. QED
    BY <2>4, <2>5, <2>6
<1>5. QED
  BY <1>3, <1>4

(* A poll changes nothing of what is down once the endpoint is polled. *)
LEMMA PollDown ==
  ASSUME Basic, Poll
  PROVE  /\ KeysDown' = KeysDown /\ ButtonsDown' = ButtonsDown /\ endpoint' = NoReport
         /\ script' = script /\ call' = call /\ pc' = pc /\ dropped' = dropped /\ stale' = stale
         /\ mounted' = mounted /\ held' = held
<1>1. /\ endpoint' = NoReport /\ NoReport.kind = "none"
      /\ endpoint.kind = "mouse" => target'.buttons = endpoint.down /\ target'.keys = target.keys
      /\ endpoint.kind = "keys" => target'.keys = endpoint.down /\ target'.buttons = target.buttons
      /\ endpoint.kind \in {"keys", "mouse"}
  BY PollFacts DEF NoReport
<1>2. KeysDown' = KeysDown
  BY <1>1 DEF KeysDown
<1>3. ButtonsDown' = ButtonsDown
  BY <1>1 DEF ButtonsDown
<1>4. QED
  BY <1>1, <1>2, <1>3 DEF Poll, taskVars, histVars

(* An unplugged device has nothing down. *)
LEMMA Unplugged ==
  ASSUME Basic, ~mounted
  PROVE  KeysDown = {} /\ ButtonsDown = {} /\ endpoint = NoReport
BY DEF Basic, CallInv, KeysDown, ButtonsDown, NoReport

(* An empty script makes no call. *)
LEMMA AtRest ==
  ASSUME Basic, NEW t \in Tasks, script[t] = <<>>
  PROVE  At(t) = "none" /\ Now(script[t]) = NoStep
BY Calling DEF At, Now

(* What a call at hand is, by what it does. *)
LEMMA Telling ==
  ASSUME NEW c
  PROVE  /\ Down(c) => c.op \in KeyOps /\ c.op # "charUp"
         /\ Up(c) => c.op \in {"keys", "charUp"} /\ ~Down(c) /\ ~Strike(c)
         /\ Release(c) => c.op \in {"sub", "set"}
         /\ Strike(c) => Down(c)
         /\ c = Do("keys", {}) => c.op = "keys" /\ c.arg = {} /\ Up(c)
         /\ c = Do("set", {}) => c.op = "set" /\ c.arg = {} /\ Release(c)
         /\ c = NoStep => c.op = "none" /\ c.arg = {}
         /\ c.op \in KeyOps /\ c.arg # {} => Down(c) \/ c.op = "charUp"
BY DEF Down, Up, Strike, Release, KeyOps, Do, NoStep

(* Every step leaves a key that is down to its release. *)
LEMMA KeysStep ==
  ASSUME Basic, KeysInv, [Next]_vars
  PROVE  KeysInv'
<1> DEFINE Acting == /\ pc = "action"
                     /\ \/ Down(Now(L)) /\ At("loop") = "sent"
                        \/ Up(Now(L)) /\ At("loop") # "sent"
           Aborting == /\ pc = "idle" /\ Now(L) = Do("keys", {}) /\ At("loop") \in Open
                       /\ H # <<>> => Now(H) = Do("keys", {}) /\ At("httpd") \in Open
                       /\ \A t \in Tasks : At(t) = "claim" => endpoint = NoReport
<1>1. ~dropped /\ KeysDown # {} => Acting \/ Aborting
  BY DEF KeysInv
<1>2. ASSUME ~dropped' /\ KeysDown' # {} => Acting' \/ Aborting' PROVE KeysInv'
  BY <1>2 DEF KeysInv
<1>3. /\ script \in [Tasks -> Seq(Steps)] /\ call \in [Tasks -> Calls]
      /\ "loop" \in Tasks /\ "httpd" \in Tasks /\ Tasks = {"loop", "httpd"}
      /\ script["loop"] = L /\ script["httpd"] = H
  BY Known DEF L, H
<1>4. ASSUME dropped' = dropped, KeysDown' = KeysDown, Acting => Acting' \/ Aborting', Aborting => Aborting'
      PROVE  KeysInv'
  BY <1>1, <1>2, <1>4
<1>5. Acting => L # <<>> /\ Now(L).op \in KeyOps
  BY Known, Telling DEF KeyOps
<1>6. Aborting => L # <<>> /\ Now(L).op = "keys" /\ (H # <<>> => Now(H).op = "keys")
  BY Known, Telling
<1>7. ASSUME script' = script, call' = call, pc' = pc, endpoint' = endpoint \/ endpoint' = NoReport
      PROVE  (Acting => Acting') /\ (Aborting => Aborting')
  BY <1>7 DEF At, L, H
<1> HIDE DEF Acting, Aborting
<1>8. ASSUME NEW t \in Tasks, SeesReady(t) PROVE KeysInv'
  <2>1. /\ script' = script /\ pc' = pc /\ endpoint' = endpoint /\ dropped' = dropped
        /\ target' = target /\ endpoint = NoReport
        /\ call[t].phase = "wait" /\ call' = [call EXCEPT ![t].phase = "claim"]
    BY <1>8 DEF SeesReady, Ready, deviceVars
  <2>2. KeysDown' = KeysDown
    BY <2>1 DEF KeysDown
  <2>3. At(t) = "wait" /\ At(t)' = "claim" /\ \A u \in Tasks \ {t} : At(u)' = At(u)
    BY <1>3, <2>1 DEF At, Calls
  <2>4. L' = L /\ H' = H
    BY <2>1 DEF L, H
  <2>5. Acting => Acting'
    BY <1>3, <2>1, <2>3, <2>4 DEF Acting
  <2>6. Aborting => Aborting'
    BY <1>3, <2>1, <2>3, <2>4 DEF Aborting, Open
  <2>7. QED
    BY <1>4, <2>1, <2>2, <2>5, <2>6
<1>9. ASSUME NEW t \in Tasks, TimesOut(t) PROVE KeysInv'
  BY <1>2, <1>9 DEF TimesOut
<1>10. ASSUME NEW t \in Tasks, Claims(t) PROVE KeysInv'
  <2>1. /\ At(t) = "claim" /\ script' = script /\ pc' = pc /\ dropped' = dropped
        /\ \A u \in Tasks \ {t} : At(u)' = At(u)
    BY <1>10, ClaimDown DEF At
  <2>2. L' = L /\ H' = H
    BY <2>1 DEF L, H
  <2>3. CASE ~Ready
    <3>1. /\ endpoint' = endpoint /\ KeysDown' = KeysDown /\ call'[t] = Retried(call[t])
      BY <1>10, <2>3, ClaimDown
    <3>2. At(t)' \in {"failed", "wait"}
      BY <1>3, <3>1, RetriedType DEF At
    <3>3. Acting => Acting'
      BY <1>3, <2>1, <2>2, <3>2 DEF Acting
    <3>4. mounted => ~Aborting
      BY <1>3, <2>1, <2>3 DEF Aborting, Ready
    <3>5. ~mounted => KeysDown = {}
      BY Unplugged
    <3>6. QED
      BY <1>1, <1>2, <2>1, <3>1, <3>3, <3>4, <3>5
  <2>4. CASE Ready
    <3>1. /\ endpoint = NoReport /\ At(t)' = "sent"
          /\ \/ Now(script[t]).op \in KeyOps /\ KeysDown' = Now(script[t]).arg
             \/ Now(script[t]).op \in MouseOps /\ KeysDown' = KeysDown
      BY <1>10, <2>4, ClaimDown DEF At
    <3>2. CASE Now(script[t]).op \in KeyOps /\ KeysDown' = Now(script[t]).arg
      <4>1. CASE t = "httpd"
        <5>1. Now(H) \in {Do("keys", {}), Do("set", {})}
          BY <1>3, <2>1, <4>1, Known, AtRest
        <5>2. KeysDown' = {}
          BY <1>3, <3>2, <4>1, <5>1, Telling
        <5>3. QED
          BY <1>2, <5>2
      <4>2. CASE t = "loop"
        <5>1. ASSUME KeysDown' # {} PROVE Acting'
          <6>1. Now(L).arg # {} /\ Now(L).op \in KeyOps /\ L # <<>> /\ Now(L) \in Steps
            BY <1>3, <2>1, <3>2, <4>2, <5>1, Known, AtRest
          <6>2. Now(L).op # "charUp"
            BY <6>1, StepFacts DEF Fitting
          <6>3. Down(Now(L))
            BY <6>1, <6>2, Telling
          <6>4. pc = "action"
            <7>1. L \notin Releasing
              BY <6>1, <6>3, ReleasingFacts, Telling
            <7>2. QED
              BY <6>1, <7>1 DEF Basic, ScriptInv, TypeInv
          <6>5. QED
            BY <2>1, <2>2, <3>1, <4>2, <6>3, <6>4 DEF Acting
        <5>2. QED
          BY <1>2, <5>1
      <4>3. QED
        BY <1>3, <4>1, <4>2
    <3>3. CASE Now(script[t]).op \in MouseOps /\ KeysDown' = KeysDown
      <4>1. t = "loop" => ~Acting /\ ~Aborting
        BY <1>3, <1>5, <1>6, <3>3 DEF MouseOps, KeyOps
      <4>2. t = "httpd" => ~Aborting
        <5>1. t = "httpd" => H # <<>>
          BY <1>3, <2>1, AtRest
        <5>2. QED
          BY <1>3, <1>6, <3>3, <5>1 DEF MouseOps
      <4>3. t = "httpd" /\ Acting => Acting'
        BY <1>3, <2>1, <2>2 DEF Acting
      <4>4. QED
        BY <1>3, <1>4, <2>1, <3>3, <4>1, <4>2, <4>3
    <3>4. QED
      BY <3>1, <3>2, <3>3
  <2>5. QED
    BY <2>3, <2>4
<1>11. ASSUME NEW t \in Tasks, NEW r \in Reports, Send(t, r), script' = script, pc' = pc,
              endpoint' = endpoint, target' = target, dropped' = dropped, At(t) = "none"
       PROVE  KeysInv'
  <2>1. /\ At(t)' = IF mounted THEN "wait" ELSE "failed"
        /\ \A u \in Tasks \ {t} : At(u)' = At(u)
    BY <1>3, <1>11, Sent DEF At
  <2>2. L' = L /\ H' = H /\ KeysDown' = KeysDown
    BY <1>11 DEF L, H, KeysDown
  <2>3. ~mounted => KeysDown = {}
    BY Unplugged
  <2>4. mounted /\ Acting => Acting'
    BY <1>3, <1>11, <2>1, <2>2 DEF Acting
  <2>5. mounted /\ Aborting => Aborting'
    BY <1>3, <1>11, <2>1, <2>2 DEF Aborting, Open
  <2>6. QED
    BY <1>1, <1>2, <1>11, <2>2, <2>3, <2>4, <2>5
<1>12. ASSUME NEW t \in Tasks, KeyCall(t) PROVE KeysInv'
  <2>1. /\ script' = script /\ script[t] # <<>> /\ Send(t, Keys(Head1(t).arg)) /\ pc' = pc
        /\ endpoint' = endpoint /\ target' = target /\ dropped' = dropped /\ At(t) = "none"
    BY <1>12 DEF KeyCall, deviceVars, Busy, At
  <2>2. Head1(t) = Now(script[t]) /\ Head1(t) \in Steps
    BY <1>3, <2>1, HeadNow DEF Head1
  <2>3. Keys(Head1(t).arg) \in Reports
    BY <2>2, StepFacts, ReportSet
  <2>4. QED
    BY <1>11, <2>1, <2>3
<1>13. ASSUME MouseCall("httpd") PROVE KeysInv'
  <2>1. /\ script' = script /\ Send("httpd", Mouse({})) /\ pc' = pc
        /\ endpoint' = endpoint /\ target' = target /\ dropped' = dropped /\ At("httpd") = "none"
    BY <1>13, HttpdMouse DEF MouseCall, At
  <2>2. Mouse({}) \in Reports
    BY ReportSet
  <2>3. QED
    BY <1>3, <1>11, <2>1, <2>2
<1>14. ASSUME dropped' = dropped, endpoint' = endpoint, target'.keys = target.keys,
              ~(Now(L).op \in KeyOps) \/ L = <<>> \/ pc = "batch"
       PROVE  KeysInv'
  <2>1. KeysDown' = KeysDown
    BY <1>14 DEF KeysDown
  <2>2. ~Acting /\ ~Aborting
    BY <1>5, <1>6, <1>14 DEF Acting, Aborting, KeyOps
  <2>3. QED
    BY <1>1, <1>2, <1>14, <2>1, <2>2
<1>15. ASSUME MouseCall("loop") PROVE KeysInv'
  <2>1. Now(L).op \in MouseOps
    BY <1>15, LoopMouse
  <2>2. QED
    BY <1>14, <1>15, <2>1 DEF MouseCall, MouseOps, KeyOps
<1>16. ASSUME Returns("loop") PROVE KeysInv'
  <2>1. /\ pc' = pc /\ L # <<>> /\ Now(L) \in Steps /\ At("loop") \in {"sent", "failed"} /\ Good(L)
        /\ call' = [call EXCEPT !["loop"] = NoCall] /\ endpoint' = endpoint /\ target' = target
        /\ Head1("loop") = Now(L)
    BY <1>3, <1>16, LoopReturns, Known DEF Returns, deviceVars, At, Head1
  <2>2. KeysDown' = KeysDown /\ At("loop")' = "none"
    BY <1>3, <2>1 DEF KeysDown, At, NoCall
  <2>3. ~Aborting
    BY <2>1 DEF Aborting, Open
  <2>4. ASSUME Acting, Up(Now(L)), At("loop") = "failed" PROVE dropped'
    <3>1. pc = "action" /\ Now(L).op \in {"keys", "charUp"}
      BY <2>4, Telling DEF Acting
    <3>2. QED
      BY <1>16, <2>1, <2>4, <3>1 DEF Returns, At
  <2>5. ASSUME Acting, Down(Now(L)), At("loop") = "sent" PROVE Acting'
    <3>1. L' = Tail(L)
      BY <1>16, <2>5, LoopReturns DEF At
    <3>2. Up(Now(L'))
      BY <2>1, <2>5, <3>1, Passed
    <3>3. QED
      BY <2>1, <2>2, <2>5, <3>2 DEF Acting
  <2>6. dropped => dropped'
    BY <1>16 DEF Returns
  <2>7. Acting => \/ Down(Now(L)) /\ At("loop") = "sent"
                  \/ Up(Now(L)) /\ At("loop") = "failed"
    BY <2>1 DEF Acting
  <2>8. QED
    BY <1>1, <1>2, <2>2, <2>3, <2>4, <2>5, <2>6, <2>7
<1>17. ASSUME Returns("httpd") PROVE KeysInv'
  <2>1. /\ L' = L /\ pc' = pc /\ At("httpd") \in {"sent", "failed"} /\ H # <<>> /\ dropped' = dropped
        /\ call' = [call EXCEPT !["httpd"] = NoCall] /\ endpoint' = endpoint /\ target' = target
    BY <1>17, HttpdReturns DEF Returns, deviceVars, At
  <2>2. KeysDown' = KeysDown /\ At("loop")' = At("loop")
    BY <1>3, <2>1 DEF KeysDown, At
  <2>3. ~Aborting
    BY <2>1 DEF Aborting, Open
  <2>4. Acting => Acting'
    BY <2>1, <2>2 DEF Acting
  <2>5. QED
    BY <1>4, <2>1, <2>2, <2>3, <2>4
<1>18. ASSUME Expand \/ Type \/ NextChar \/ NumLock \/ Report PROVE KeysInv'
  <2>1. Now(L).op \in {"click", "press", "retry", "type", "next", "numlock", "confirm", "report"}
    <3>1. CASE Expand
      BY <3>1, ExpandScript
    <3>2. CASE Type
      BY <3>2, TypeScript DEF Do
    <3>3. CASE NextChar
      BY <3>3, NextCharScript DEF Do
    <3>4. CASE NumLock
      BY <3>4, NumLockScript
    <3>5. CASE Report
      BY <3>5, ReportScript
    <3>6. QED
      BY <1>18, <3>1, <3>2, <3>3, <3>4, <3>5
  <2>2. Now(L).op \notin KeyOps
    BY <2>1 DEF KeyOps
  <2>3. dropped' = dropped /\ endpoint' = endpoint /\ target' = target
    BY <1>18 DEF Expand, Type, NextChar, NumLock, Report, deviceVars, histVars
  <2>4. QED
    BY <1>14, <2>2, <2>3
<1>19. ASSUME StartAction PROVE KeysInv'
  <2>1. dropped' = dropped /\ endpoint' = endpoint /\ target' = [target EXCEPT !.text = <<>>] /\ pc = "batch"
    BY <1>19 DEF StartAction, deviceVars
  <2>2. target'.keys = target.keys
    BY <2>1 DEF Basic, TypeInv, Targets
  <2>3. QED
    BY <1>14, <2>1, <2>2
<1>20. ASSUME EndAction PROVE KeysInv'
  <2>1. dropped' = dropped /\ endpoint' = endpoint /\ target' = [target EXCEPT !.text = <<>>] /\ L = <<>>
    BY <1>20 DEF EndAction, deviceVars, histVars, L
  <2>2. target'.keys = target.keys
    BY <2>1 DEF Basic, TypeInv, Targets
  <2>3. QED
    BY <1>14, <2>1, <2>2
<1>21. ASSUME EndBatch PROVE KeysInv'
  BY <1>14, <1>21 DEF EndBatch, deviceVars
<1>22. ASSUME LoopTop PROVE KeysInv'
  <2>1. L = <<>> /\ endpoint' = endpoint /\ target' = target /\ call' = call
    BY <1>22 DEF LoopTop, deviceVars, L
  <2>2. CASE dropped' = dropped
    BY <1>14, <2>1, <2>2
  <2>3. CASE dropped' # dropped
    <3>1. /\ pc' = "idle" /\ L' = ReleaseAll /\ H' = H /\ H = <<>>
      BY <1>3, <1>22, <2>3 DEF LoopTop, AbortScript, L, H, Basic, TypeInv
    <3>2. At("loop") = "none" /\ At("httpd") = "none"
      BY <1>3, <2>1, <3>1, AtRest
    <3>3. Now(L') = Do("keys", {})
      BY <3>1 DEF Now, ReleaseAll
    <3>4. At("loop")' = "none" /\ At("httpd")' = "none"
      BY <2>1, <3>2 DEF At
    <3>5. Aborting'
      BY <1>3, <3>1, <3>3, <3>4 DEF Aborting, Open
    <3>6. QED
      BY <1>2, <3>5
  <2>4. QED
    BY <2>2, <2>3
<1>23. ASSUME Emergency PROVE KeysInv'
  <2>1. /\ H = <<>> /\ H' = ReleaseAll /\ L' = L /\ pc' = pc /\ call' = call
        /\ endpoint' = endpoint /\ target' = target /\ dropped' = dropped
    BY <1>3, <1>23 DEF Emergency, deviceVars, L, H
  <2>2. KeysDown' = KeysDown /\ \A u \in Tasks : At(u)' = At(u)
    BY <2>1 DEF KeysDown, At
  <2>3. At("httpd") = "none" /\ Now(H') = Do("keys", {})
    BY <1>3, <2>1, AtRest DEF Now, ReleaseAll
  <2>4. Acting => Acting'
    BY <1>3, <2>1, <2>2 DEF Acting
  <2>5. Aborting => Aborting'
    BY <1>3, <2>1, <2>2, <2>3 DEF Aborting, Open
  <2>6. QED
    BY <1>4, <2>1, <2>2, <2>4, <2>5
<1>24. ASSUME Poll PROVE KeysInv'
  BY <1>4, <1>7, <1>24, PollDown
<1>25. ASSUME LedReport \/ Configure \/ UNCHANGED vars PROVE KeysInv'
  <2>1. /\ script' = script /\ call' = call /\ pc' = pc /\ endpoint' = endpoint /\ target' = target
        /\ dropped' = dropped
    BY <1>25 DEF LedReport, Configure, vars, deviceVars, taskVars, histVars
  <2>2. KeysDown' = KeysDown
    BY <2>1 DEF KeysDown
  <2>3. QED
    BY <1>4, <1>7, <2>1, <2>2
<1>26. ASSUME Unplug PROVE KeysInv'
  <2>1. KeysDown' = {}
    BY <1>26 DEF Unplug, KeysDown, NoReport, FreshTarget
  <2>2. QED
    BY <1>2, <2>1
<1>27. ASSUME Replug PROVE KeysInv'
  <2>1. KeysDown' = {}
    BY <1>27, Unplugged DEF Replug, KeysDown
  <2>2. QED
    BY <1>2, <2>1
<1>28. QED
  BY <1>8, <1>9, <1>10, <1>12, <1>13, <1>15, <1>16, <1>17, <1>18, <1>19, <1>20, <1>21, <1>22, <1>23,
     <1>24, <1>25, <1>26, <1>27 DEF Next, Loop, Sending, Target, Tasks

-----------------------------------------------------------------------------
(* Buttons.                                                                *)

(* How the loop gets on: what is left to do stays, it moves between calls   *)
(* only, and a release at hand is the next thing it does.                   *)
LEMMA Onward ==
  ASSUME Basic, [Next]_vars
  PROVE  /\ \A c \in Rest(L) : c.op # "charUp" => L' # <<>> /\ (c = Now(L') \/ c \in Rest(L'))
         /\ L' = L \/ At("loop")' = "none"
         /\ Release(Now(L)) /\ At("loop") = "none" =>
              (L' = L /\ At("loop")' = "none") \/ MouseCall("loop")
         /\ At("loop")' # "none" =>
              \/ MouseCall("loop") \/ KeyCall("loop")
              \/ At("loop") # "none" /\ call'["loop"].report = call["loop"].report
<1> DEFINE Left2 == \A c \in Rest(L) : c.op # "charUp" => L' # <<>> /\ (c = Now(L') \/ c \in Rest(L'))
           Goal == /\ Left2
                   /\ L' = L \/ At("loop")' = "none"
                   /\ Release(Now(L)) /\ At("loop") = "none" =>
                        (L' = L /\ At("loop")' = "none") \/ MouseCall("loop")
                   /\ At("loop")' # "none" =>
                        \/ MouseCall("loop") \/ KeyCall("loop")
                        \/ At("loop") # "none" /\ call'["loop"].report = call["loop"].report
<1>1. /\ script \in [Tasks -> Seq(Steps)] /\ call \in [Tasks -> Calls] /\ Good(L)
      /\ "loop" \in Tasks /\ "httpd" \in Tasks /\ Tasks = {"loop", "httpd"}
      /\ script["loop"] = L /\ script["httpd"] = H
  BY Known DEF L, H
<1>2. ASSUME L' = L PROVE Left2
  <2>1. L = <<>> => Rest(L) = {}
    BY EmptyGood
  <2>2. QED
    BY <1>2, <2>1
<1>3. ASSUME L # <<>>, L' = Tail(L) PROVE Left2
  BY <1>1, <1>3, Passed
<1>4. ASSUME L' = L, call'["loop"] = call["loop"] PROVE Goal
  BY <1>2, <1>4 DEF At
<1>5. ASSUME Left2, call' = call, At("loop") = "none", ~Release(Now(L)) PROVE Goal
  BY <1>5 DEF At
<1> HIDE DEF Left2
<1>6. ASSUME SeesReady("loop") \/ TimesOut("loop") PROVE Goal
  <2>1. /\ L' = L /\ At("loop") = "wait"
        /\ \/ call' = [call EXCEPT !["loop"].phase = "claim"]
           \/ call' = [call EXCEPT !["loop"].phase = "failed"]
    BY <1>6 DEF SeesReady, TimesOut, L, At
  <2>2. call'["loop"].report = call["loop"].report
    BY <1>1, <2>1 DEF Calls
  <2>3. QED
    BY <1>2, <2>1, <2>2
<1>7. ASSUME Claims("loop") PROVE Goal
  <2>1. /\ L' = L /\ At("loop") = "claim" /\ call'["loop"].report = call["loop"].report
    BY <1>1, <1>7, ClaimDown DEF L
  <2>2. QED
    BY <1>2, <2>1
<1>8. ASSUME SeesReady("httpd") \/ TimesOut("httpd") PROVE Goal
  <2>1. /\ L' = L
        /\ \/ call' = [call EXCEPT !["httpd"].phase = "claim"]
           \/ call' = [call EXCEPT !["httpd"].phase = "failed"]
    BY <1>8 DEF SeesReady, TimesOut, L
  <2>2. call'["loop"] = call["loop"]
    BY <1>1, <2>1
  <2>3. QED
    BY <1>4, <2>1, <2>2
<1>9. ASSUME Claims("httpd") PROVE Goal
  <2>1. "loop" \in Tasks \ {"httpd"}
    BY <1>1
  <2>2. /\ L' = L /\ call'["loop"] = call["loop"]
    BY <1>1, <1>9, <2>1, ClaimDown DEF L
  <2>3. QED
    BY <1>4, <2>2
<1>10. ASSUME NEW r, Send("httpd", r) PROVE call'["loop"] = call["loop"]
  BY <1>1, <1>10 DEF Send
<1>11. ASSUME KeyCall("httpd") \/ MouseCall("httpd") PROVE Goal
  <2>1. L' = L
    BY <1>11, HttpdMouse DEF KeyCall, L
  <2>2. call'["loop"] = call["loop"]
    BY <1>10, <1>11, HttpdMouse DEF KeyCall
  <2>3. QED
    BY <1>4, <2>1, <2>2
<1>12. ASSUME KeyCall("loop") PROVE Goal
  <2>1. L' = L /\ L # <<>> /\ Head1("loop").op \in KeyOps /\ Head1("loop") = Now(L)
    BY <1>1, <1>12, Known DEF KeyCall, L, Head1, KeyOps
  <2>2. ~Release(Now(L))
    BY <2>1, Telling DEF KeyOps
  <2>3. QED
    BY <1>2, <1>12, <2>1, <2>2
<1>13. ASSUME MouseCall("loop") PROVE Goal
  <2>1. CASE L' = L
    BY <1>2, <1>13, <2>1
  <2>2. CASE L' = Tail(L) /\ call' = call
    <3>1. At("loop")' = "none" /\ L # <<>>
      BY <1>13, <2>2, LoopMouse DEF At
    <3>2. QED
      BY <1>3, <1>13, <2>2, <3>1
  <2>3. QED
    BY <1>13, <2>1, <2>2, LoopMouse
<1>14. ASSUME Returns("loop") PROVE Goal
  <2>1. /\ L # <<>> /\ At("loop") # "none" /\ call' = [call EXCEPT !["loop"] = NoCall]
        /\ \/ L' = Tail(L)
           \/ L' # <<>> /\ Rest(L') = Rest(L)
           \/ \E c \in Steps : c.op = "charUp" /\ Rest(L) = {c} \cup Items(L')
    BY <1>14, LoopReturns DEF At
  <2>2. At("loop")' = "none"
    BY <1>1, <2>1 DEF At, NoCall
  <2>3. CASE L' = Tail(L)
    BY <1>3, <2>1, <2>2, <2>3
  <2>4. CASE L' # <<>> /\ Rest(L') = Rest(L)
    BY <2>1, <2>2, <2>4 DEF Left2
  <2>5. CASE \E c \in Steps : c.op = "charUp" /\ Rest(L) = {c} \cup Items(L')
    <3>1. PICK c \in Steps : c.op = "charUp" /\ Rest(L) = {c} \cup Items(L')
      BY <2>5
    <3>2. \A d \in Rest(L) : d.op # "charUp" => d \in Items(L')
      BY <3>1
    <3>3. Good(L')
      BY <1>14, LoopReturns
    <3>4. \A s : Good(s) => /\ s = <<>> => Items(s) = {}
                            /\ s # <<>> => Items(s) = {Now(s)} \cup Rest(s)
      BY EmptyGood, TailFacts DEF Good, Now
    <3>5. Left2
      BY <3>2, <3>3, <3>4 DEF Left2
    <3>6. QED
      BY <2>1, <2>2, <3>5
  <2>6. QED
    BY <2>1, <2>3, <2>4, <2>5
<1>15. ASSUME Returns("httpd") PROVE Goal
  <2>1. L' = L /\ call' = [call EXCEPT !["httpd"] = NoCall]
    BY <1>15, HttpdReturns
  <2>2. call'["loop"] = call["loop"]
    BY <1>1, <2>1
  <2>3. QED
    BY <1>4, <2>1, <2>2
<1>16. ASSUME Expand PROVE Goal
  <2>1. /\ L # <<>> /\ At("loop") = "none" /\ Now(L).op \in {"click", "press", "retry"}
        /\ (L' = Tail(L) \/ (L' # <<>> /\ Rest(L) \subseteq Rest(L'))) /\ call' = call
    BY <1>16, ExpandScript DEF Expand, At
  <2>2. Left2 /\ ~Release(Now(L)) /\ call' = call
    BY <1>3, <1>16, <2>1, Telling DEF Left2, Expand
  <2>3. QED
    BY <1>5, <2>1, <2>2
<1>17. ASSUME Type PROVE Goal
  <2>1. /\ L # <<>> /\ At("loop") = "none" /\ Now(L).op = "type" /\ call' = call
        /\ L' = Tail(L) \/ (L' # <<>> /\ Rest(L) \subseteq Rest(L'))
    BY <1>17, TypeScript DEF Type, At, Busy, Do
  <2>2. Left2 /\ ~Release(Now(L))
    BY <1>3, <2>1, Telling DEF Left2
  <2>3. QED
    BY <1>5, <2>1, <2>2
<1>18. ASSUME NextChar PROVE Goal
  <2>1. /\ L # <<>> /\ At("loop") = "none" /\ Now(L).op = "next" /\ call' = call
        /\ L' = Tail(L) \/ (L' # <<>> /\ Rest(L) \subseteq Rest(L'))
    <3>1. L' = Tail(L) \/ (L' # <<>> /\ Rest(L) \subseteq Rest(L'))
      BY <1>18, NextCharScript
    <3>2. QED
      BY <1>18, <3>1, NextCharScript DEF NextChar, At, Busy, Do
  <2>2. Left2 /\ ~Release(Now(L))
    BY <1>3, <2>1, Telling DEF Left2
  <2>3. QED
    BY <1>5, <2>1, <2>2
<1>19. ASSUME NumLock PROVE Goal
  <2>1. /\ L # <<>> /\ At("loop") = "none" /\ Now(L).op \in {"numlock", "confirm"} /\ call' = call
        /\ L' = Tail(L) \/ (L' # <<>> /\ Rest(L) \subseteq Rest(L'))
    BY <1>19, NumLockScript DEF NumLock, At
  <2>2. Left2 /\ ~Release(Now(L))
    BY <1>3, <2>1, Telling DEF Left2
  <2>3. QED
    BY <1>5, <2>1, <2>2
<1>20. ASSUME Report PROVE Goal
  <2>1. L # <<>> /\ At("loop") = "none" /\ Now(L).op = "report" /\ call' = call /\ L' = Tail(L)
    BY <1>20, ReportScript DEF Report, At
  <2>2. Left2 /\ ~Release(Now(L))
    BY <1>3, <2>1, Telling
  <2>3. QED
    BY <1>5, <2>1, <2>2
<1>21. ASSUME StartAction \/ LoopTop PROVE Goal
  <2>1. L = <<>> /\ call' = call
    BY <1>21, StartScript DEF StartAction, LoopTop, L
  <2>2. Rest(L) = {} /\ At("loop") = "none" /\ Now(L) = NoStep
    BY <1>1, <2>1, EmptyGood, AtRest
  <2>3. ~Release(Now(L))
    BY <2>2, Telling
  <2>4. QED
    BY <1>5, <2>1, <2>2, <2>3 DEF Left2
<1>22. ASSUME Emergency PROVE Goal
  BY <1>1, <1>4, <1>22 DEF Emergency, L
<1>23. ASSUME EndAction \/ EndBatch \/ Target \/ UNCHANGED vars PROVE Goal
  <2>1. script' = script /\ call' = call
    BY <1>23 DEF EndAction, EndBatch, Target, Poll, LedReport, Configure, Unplug, Replug, vars, taskVars
  <2>2. QED
    BY <1>4, <2>1 DEF L
<1>24. Goal
  BY <1>6, <1>7, <1>8, <1>9, <1>11, <1>12, <1>13, <1>14, <1>15, <1>16, <1>17, <1>18, <1>19, <1>20, <1>21,
     <1>22, <1>23 DEF Next, Loop, Sending
<1>25. QED
  BY <1>24 DEF Left2

(* A release that the loop really makes: hid_mouse_up does nothing unmounted. *)
Lets(c, on) == Release(c) /\ (on \/ c.op = "set")

(* A button of the record is released later in the script.                 *)
HeldInv ==
  "buttons" \notin stale /\ held # {} =>
    \/ \E c \in Rest(L) : Lets(c, mounted)
    \/ Lets(Now(L), mounted) /\ At("loop") = "none"

(* The loop presses a button only with its release still to come.          *)
PressInv ==
  "buttons" \notin stale /\ At("loop") # "none" /\ call["loop"].report.kind = "mouse"
    /\ call["loop"].report.down # {} => Frees(Rest(L))

(* What a pulled cable leaves in the record is not forgotten. *)
LEMMA StaleKept ==
  ASSUME [Next]_vars
  PROVE  /\ "buttons" \in stale => "buttons" \in stale'
         /\ "led" \in stale => "led" \in stale'
         /\ "text" \in stale => "text" \in stale' \/ StartAction
BY DEF Next, Loop, Sending, Target, SeesReady, TimesOut, Claims, MouseCall, KeyCall, Returns, Expand,
       Type, NextChar, NumLock, StartAction, Report, EndAction, EndBatch, LoopTop, Emergency, Poll,
       LedReport, Configure, Unplug, Replug, vars, histVars

(* The record and the cable change in few steps. *)
LEMMA HeldKept ==
  ASSUME [Next]_vars
  PROVE  /\ held' = held \/ MouseCall("loop") \/ MouseCall("httpd")
         /\ mounted' = mounted \/ Unplug \/ Replug
<1>1. held' = held \/ MouseCall("loop") \/ MouseCall("httpd")
  BY DEF Next, Loop, Sending, Target, SeesReady, TimesOut, Claims, KeyCall, Returns, Expand,
         Type, NextChar, NumLock, StartAction, Report, EndAction, EndBatch, LoopTop, Emergency, Poll,
         LedReport, Configure, Unplug, Replug, vars, deviceVars
<1>2. mounted' = mounted \/ Unplug \/ Replug
  BY DEF Next, Loop, Sending, Target, SeesReady, TimesOut, Claims, KeyCall, MouseCall, Returns, Expand,
         Type, NextChar, NumLock, StartAction, Report, EndAction, EndBatch, LoopTop, Emergency, Poll,
         LedReport, Configure, vars, deviceVars
<1>3. QED
  BY <1>1, <1>2

(* Every step leaves a button of the record to its release. *)
LEMMA HeldStep ==
  ASSUME Basic, HeldInv, [Next]_vars
  PROVE  HeldInv'
<1> SUFFICES ASSUME "buttons" \notin stale', held' # {}
             PROVE  (\E c \in Rest(L') : Lets(c, mounted')) \/ (Lets(Now(L'), mounted') /\ At("loop")' = "none")
  BY DEF HeldInv
<1>1. "buttons" \notin stale
  BY StaleKept
<1>2. ASSUME held # {}, mounted => mounted', ~MouseCall("loop") \/ L' = Tail(L)
      PROVE  (\E c \in Rest(L') : Lets(c, mounted')) \/ (Lets(Now(L'), mounted') /\ At("loop")' = "none")
  <2>1. \A c : Lets(c, mounted) => Lets(c, mounted')
    BY <1>2 DEF Lets
  <2>2. CASE \E c \in Rest(L) : Lets(c, mounted)
    <3>1. PICK c \in Rest(L) : Lets(c, mounted)
      BY <2>2
    <3>2. c.op # "charUp" /\ Lets(c, mounted')
      BY <2>1, <3>1, Telling DEF Lets
    <3>3. c = Now(L') \/ c \in Rest(L')
      BY <3>1, <3>2, Onward
    <3>4. CASE c \in Rest(L')
      BY <3>2, <3>4
    <3>5. CASE c = Now(L') /\ L' # L
      BY <3>2, <3>5, Onward
    <3>6. CASE c = Now(L') /\ L' = L
      BY <3>1, <3>2, <3>6
    <3>7. QED
      BY <3>3, <3>4, <3>5, <3>6
  <2>3. CASE Lets(Now(L), mounted) /\ At("loop") = "none"
    <3>1. ~MouseCall("loop")
      <4>1. ASSUME MouseCall("loop") PROVE ~mounted /\ Now(L).op # "set"
        <5>1. L # <<>> /\ L \in Seq(Steps)
          BY <4>1, LoopMouse, Known
        <5>2. L' # L
          BY <1>2, <4>1, <5>1, Shorter
        <5>3. QED
          BY <4>1, <5>2, LoopMouse
      <4>2. QED
        BY <2>3, <4>1 DEF Lets
    <3>2. L' = L /\ At("loop")' = "none"
      BY <2>3, <3>1, Onward DEF Lets
    <3>3. QED
      BY <2>1, <2>3, <3>2
  <2>4. QED
    BY <1>1, <1>2, <2>2, <2>3 DEF HeldInv
<1>3. CASE MouseCall("loop")
  <2>1. /\ L # <<>> /\ Now(L) \in Steps /\ Now(L).op \in MouseOps /\ At("loop") = "none" /\ Good(L)
    BY <1>3, LoopMouse, Known DEF At
  <2>2. mounted' = mounted
    BY <1>3 DEF MouseCall
  <2>3. CASE L' = Tail(L) /\ held' = held
    BY <1>2, <2>2, <2>3
  <2>4. CASE L' = L /\ (mounted \/ Now(L).op = "set") /\ held' = HeldAfter(Now(L))
    <3>1. held \subseteq Left
      BY DEF Basic, TypeInv
    <3>2. ~Release(Now(L)) /\ (Now(L).op = "move" => held' = held)
      BY <2>1, <2>4, <3>1, HeldType
    <3>3. CASE Now(L).op = "move"
      <4>1. PICK c \in Rest(L) : Lets(c, mounted)
        BY <1>1, <3>2, <3>3 DEF HeldInv, Lets
      <4>2. Lets(c, mounted')
        BY <2>2, <4>1 DEF Lets
      <4>3. QED
        BY <2>4, <4>1, <4>2
    <3>4. CASE Now(L).op = "add"
      <4>1. PICK c \in Rest(L) : c.op = "sub"
        BY <2>1, <3>4 DEF Good, Paired, Has
      <4>2. Lets(c, mounted')
        BY <2>2, <2>4, <3>4, <4>1 DEF Lets, Release
      <4>3. QED
        BY <2>4, <4>1, <4>2
    <3>5. CASE Now(L).op = "set"
      <4>1. Now(L).arg # {}
        BY <3>2, <3>5 DEF Release
      <4>2. Now(Tail(L)) = Do("set", {}) /\ (Tail(L) = <<>> => Now(Tail(L)) = NoStep)
            /\ (Tail(L) # <<>> => Now(Tail(L)) \in Rest(L))
        BY <2>1, <3>5, <4>1, Passed
      <4>3. Do("set", {}) # NoStep
        BY DEF Do, NoStep
      <4>4. Do("set", {}) \in Rest(L)
        BY <4>2, <4>3
      <4>5. Lets(Do("set", {}), mounted')
        BY DEF Lets, Release, Do
      <4>6. QED
        BY <2>4, <4>4, <4>5
    <3>6. Now(L).op # "sub"
      BY <3>2 DEF Release
    <3>7. QED
      BY <2>1, <3>3, <3>4, <3>5, <3>6 DEF MouseOps
  <2>5. QED
    BY <1>3, <2>3, <2>4, LoopMouse
<1>4. CASE MouseCall("httpd")
  BY <1>4, HttpdMouse
<1>5. CASE Unplug
  BY <1>5 DEF Unplug
<1>6. CASE ~MouseCall("loop") /\ ~MouseCall("httpd") /\ ~Unplug
  <2>1. held # {} /\ (mounted => mounted')
    <3>1. held' = held
      BY <1>6, HeldKept
    <3>2. mounted' = mounted \/ mounted' = TRUE
      BY <1>6, HeldKept DEF Replug
    <3>3. QED
      BY <3>1, <3>2
  <2>2. QED
    BY <1>2, <1>6, <2>1
<1>7. QED
  BY <1>3, <1>4, <1>5, <1>6

(* Every step leaves a pressing mouse report its release. *)
LEMMA PressStep ==
  ASSUME Basic, PressInv, HeldInv', [Next]_vars
  PROVE  PressInv'
<1> SUFFICES ASSUME "buttons" \notin stale', At("loop")' # "none", call'["loop"].report.kind = "mouse",
                    call'["loop"].report.down # {}
             PROVE  Frees(Rest(L'))
  BY DEF PressInv
<1>1. L' = L
  BY Onward
<1>2. CASE MouseCall("loop")
  <2>1. held' # {}
    <3>1. held \subseteq Left /\ Now(L) \in Steps /\ Now(L).op \in MouseOps /\ L # <<>> /\ L \in Seq(Steps)
      BY <1>2, LoopMouse, Known DEF Basic, TypeInv
    <3>2. L' # Tail(L)
      BY <1>1, <3>1, Shorter
    <3>3. Send("loop", Mouse(held')) /\ held' = HeldAfter(Now(L))
      BY <1>2, <3>2, LoopMouse
    <3>4. held' \in SUBSET (Keyboard \cup Left)
      BY <3>1, <3>3, HeldType
    <3>5. Mouse(held') \in Reports /\ Mouse(held').down = held'
      BY <3>4, ReportSet DEF Mouse
    <3>6. call'["loop"].report = Mouse(held')
      BY <3>3, <3>5, Known, Sent
    <3>7. QED
      BY <3>5, <3>6
  <2>2. \E c \in Rest(L') : Lets(c, mounted')
    BY <2>1 DEF HeldInv
  <2>3. QED
    BY <2>2 DEF Frees, Lets
<1>3. CASE KeyCall("loop")
  <2>1. /\ L # <<>> /\ Head1("loop") = Now(L) /\ Now(L) \in Steps /\ Send("loop", Keys(Now(L).arg))
    BY <1>3, Known DEF KeyCall, L, Head1
  <2>2. Keys(Now(L).arg) \in Reports /\ Keys(Now(L).arg).kind = "keys"
    BY <2>1, StepFacts, ReportSet DEF Keys
  <2>3. call'["loop"].report = Keys(Now(L).arg)
    BY <2>1, <2>2, Known, Sent
  <2>4. QED
    BY <2>2, <2>3
<1>4. CASE At("loop") # "none" /\ call'["loop"].report = call["loop"].report
  <2>1. "buttons" \notin stale
    BY StaleKept
  <2>2. Frees(Rest(L))
    BY <1>4, <2>1 DEF PressInv
  <2>3. QED
    BY <1>1, <2>2
<1>5. QED
  BY <1>2, <1>3, <1>4, Onward

(* What httpd is about to do with the mouse: its keys report is in the      *)
(* endpoint, or its release comes next.                                     *)
HttpdNext ==
  \/ Now(H) = Do("keys", {}) /\ At("httpd") = "sent"
  \/ /\ Now(H) = Do("set", {})
     /\ At("httpd") \in {"none", "wait"} \/ (At("httpd") = "claim" /\ endpoint = NoReport)

(* The release of the loop lost the endpoint once, and only to the keys of  *)
(* httpd, whose own release is then still to come.                          *)
Contest ==
  LET c == call["loop"]
  IN  /\ c.phase # "none" /\ (c.tries > 0 \/ (c.phase = "claim" /\ endpoint # NoReport)) => HttpdNext
      /\ c.tries > 0 /\ c.phase = "claim" => endpoint = NoReport

(* A button that is down is released later in the script or by the call at  *)
(* hand, and then the release gets through or that of httpd does.           *)
DownInv ==
  ~dropped /\ "buttons" \notin stale /\ ButtonsDown # {} =>
    \/ Frees(Rest(L))
    \/ Release(Now(L)) /\ At("loop") \in Open /\ Contest

(* Every step leaves a button that is down to its release. *)
LEMMA DownStep ==
  ASSUME Basic, PressInv, DownInv, [Next]_vars
  PROVE  DownInv'
<1> DEFINE Closing == Release(Now(L)) /\ At("loop") \in Open /\ Contest
<1>1. ~dropped /\ "buttons" \notin stale /\ ButtonsDown # {} => Frees(Rest(L)) \/ Closing
  BY DEF DownInv
<1>2. ASSUME ~dropped' /\ "buttons" \notin stale' /\ ButtonsDown' # {} => Frees(Rest(L')) \/ Closing'
      PROVE  DownInv'
  BY <1>2 DEF DownInv
<1>3. /\ script \in [Tasks -> Seq(Steps)] /\ call \in [Tasks -> Calls]
      /\ "loop" \in Tasks /\ "httpd" \in Tasks /\ Tasks = {"loop", "httpd"}
      /\ script["loop"] = L /\ script["httpd"] = H
      /\ call["loop"] \in Calls /\ call["loop"].tries \in Nat
      /\ L = <<>> => Now(L) = NoStep
  BY Known DEF L, H, Calls
<1>4. "buttons" \notin stale' => "buttons" \notin stale
  BY StaleKept
<1>5. Frees(Rest(L)) => Frees(Rest(L')) \/ (Release(Now(L')) /\ At("loop")' = "none")
                        \/ (Release(Now(L')) /\ L' = L)
  <2>1. ASSUME NEW c \in Rest(L), Release(c)
        PROVE  c \in Rest(L') \/ (c = Now(L') /\ (L' = L \/ At("loop")' = "none"))
    BY <2>1, Onward, Telling
  <2>2. QED
    BY <2>1 DEF Frees
<1>6. ASSUME Frees(Rest(L)) PROVE Frees(Rest(L')) \/ Closing'
  <2>1. CASE L' = L
    BY <1>6, <2>1
  <2>2. CASE L' # L
    <3>1. Frees(Rest(L')) \/ (Release(Now(L')) /\ At("loop")' = "none")
      BY <1>5, <1>6, <2>2, Onward
    <3>2. At("loop")' = "none" => (At("loop") \in Open)' /\ Contest'
      <4>1. ASSUME At("loop")' = "none" PROVE call'["loop"].phase = "none"
        BY <4>1 DEF At
      <4>2. QED
        BY <4>1 DEF Open, Contest, At
    <3>3. QED
      BY <3>1, <3>2
  <2>3. QED
    BY <2>1, <2>2
<1>7. ASSUME dropped' = dropped, ButtonsDown' = ButtonsDown, Closing => Closing'
      PROVE  DownInv'
  BY <1>1, <1>2, <1>4, <1>6, <1>7
<1>8. ASSUME Closing PROVE L # <<>> /\ Now(L).op \in {"sub", "set"}
  BY <1>3, <1>8, Telling
<1> HIDE DEF Closing
<1>9. ASSUME L' = L, call'["loop"] = call["loop"], HttpdNext => HttpdNext',
             endpoint' = endpoint \/ endpoint' = NoReport
      PROVE  Closing => Closing'
  BY <1>9 DEF Closing, At, Contest
<1>10. ASSUME NEW t \in Tasks, SeesReady(t) PROVE DownInv'
  <2>1. /\ script' = script /\ endpoint' = endpoint /\ dropped' = dropped
        /\ target' = target /\ endpoint = NoReport
        /\ call[t].phase = "wait" /\ call' = [call EXCEPT ![t].phase = "claim"]
    BY <1>10 DEF SeesReady, Ready, deviceVars
  <2>2. ButtonsDown' = ButtonsDown
    BY <2>1 DEF ButtonsDown
  <2>3. /\ call'[t].phase = "claim" /\ call'[t].tries = call[t].tries
        /\ \A u \in Tasks \ {t} : call'[u] = call[u]
    BY <1>3, <2>1 DEF Calls
  <2>4. L' = L /\ H' = H
    BY <2>1 DEF L, H
  <2>5. HttpdNext => HttpdNext'
    BY <1>3, <2>1, <2>3, <2>4 DEF HttpdNext, At
  <2>6. Closing => Closing'
    <3>1. CASE t = "httpd"
      BY <1>3, <1>9, <2>1, <2>3, <2>4, <2>5, <3>1
    <3>2. CASE t = "loop"
      BY <1>3, <2>1, <2>3, <2>4, <2>5, <3>2 DEF Closing, Contest, At, Open
    <3>3. QED
      BY <1>3, <3>1, <3>2
  <2>7. QED
    BY <1>7, <2>1, <2>2, <2>6
<1>11. ASSUME NEW t \in Tasks, TimesOut(t) PROVE DownInv'
  BY <1>2, <1>11 DEF TimesOut
<1>12. ASSUME Claims("loop") PROVE DownInv'
  <2>1. /\ At("loop") = "claim" /\ script' = script /\ dropped' = dropped /\ L' = L /\ H' = H
        /\ call'["httpd"] = call["httpd"] /\ stale' = stale
    BY <1>3, <1>12, ClaimDown DEF L, H
  <2>2. CASE ~mounted
    <3>1. ButtonsDown = {}
      BY <2>2, Unplugged
    <3>2. ButtonsDown' = ButtonsDown
      BY <1>3, <1>12, <2>2, ClaimDown DEF Ready
    <3>3. QED
      BY <1>2, <3>1, <3>2
  <2>3. CASE mounted /\ endpoint # NoReport
    <3>1. /\ endpoint' = endpoint /\ ButtonsDown' = ButtonsDown /\ call'["loop"] = Retried(call["loop"])
      BY <1>3, <1>12, <2>3, ClaimDown DEF Ready
    <3>2. ASSUME Closing PROVE Closing'
      <4>1. HttpdNext /\ ~(call["loop"].tries > 0) /\ Release(Now(L))
        BY <2>1, <2>3, <3>2 DEF Closing, Contest, At
      <4>2. Now(L).op \in {"sub", "set"} /\ Now(L).op \notin KeyOps
        BY <4>1, Telling DEF KeyOps
      <4>3. call["loop"].report.kind = "mouse"
        BY <1>3, <2>1, <4>2, Calling DEF At
      <4>4. call["loop"].tries + 1 < Tries
        <5>1. call["loop"].tries = 0
          BY <1>3, <4>1
        <5>2. Tries \in Nat /\ Tries >= 2
          BY BoundAssumption
        <5>3. QED
          BY <5>1, <5>2
      <4>5. call'["loop"].phase = "wait"
        BY <1>3, <3>1, <4>3, <4>4, RetriedType
      <4>6. HttpdNext'
        BY <2>1, <3>1, <4>1 DEF HttpdNext, At
      <4>7. QED
        BY <2>1, <4>1, <4>5, <4>6 DEF Closing, Contest, At, Open
    <3>3. QED
      BY <1>7, <2>1, <3>1, <3>2
  <2>4. CASE mounted /\ endpoint = NoReport
    <3>1. \/ Now(L).op \in KeyOps /\ ButtonsDown' = ButtonsDown
          \/ /\ Now(L).op \in MouseOps /\ ButtonsDown' = call["loop"].report.down
             /\ Release(Now(L)) => ButtonsDown' = {}
      BY <1>3, <1>12, <2>4, ClaimDown DEF Ready
    <3>2. CASE Now(L).op \in KeyOps /\ ButtonsDown' = ButtonsDown
      <4>1. ~Closing
        BY <1>8, <3>2 DEF KeyOps
      <4>2. QED
        BY <1>7, <2>1, <3>2, <4>1
    <3>3. CASE Now(L).op \in MouseOps /\ ButtonsDown' = call["loop"].report.down
      <4>1. ASSUME "buttons" \notin stale', ButtonsDown' # {} PROVE Frees(Rest(L'))
        <5>1. Now(L).op \notin KeyOps
          BY <3>3 DEF KeyOps, MouseOps
        <5>2. call["loop"].report.kind = "mouse"
          BY <1>3, <2>1, <5>1, Calling DEF At
        <5>3. Frees(Rest(L))
          BY <1>4, <2>1, <3>3, <4>1, <5>2 DEF PressInv
        <5>4. QED
          BY <2>1, <5>3
      <4>2. QED
        BY <1>2, <4>1
    <3>4. QED
      BY <3>1, <3>2, <3>3
  <2>5. QED
    BY <2>2, <2>3, <2>4
<1>13. ASSUME Claims("httpd") PROVE DownInv'
  <2>1. "loop" \in Tasks \ {"httpd"}
    BY <1>3
  <2>2. /\ At("httpd") = "claim" /\ script' = script /\ dropped' = dropped /\ L' = L /\ H' = H
        /\ call'["loop"] = call["loop"]
    BY <1>3, <1>13, <2>1, ClaimDown DEF L, H
  <2>3. Now(H) \in {Do("keys", {}), Do("set", {})}
    BY <1>3, <2>2, Known, AtRest
  <2>4. CASE ~mounted
    <3>1. ButtonsDown = {}
      BY <2>4, Unplugged
    <3>2. ButtonsDown' = ButtonsDown
      BY <1>3, <1>13, <2>4, ClaimDown DEF Ready
    <3>3. QED
      BY <1>2, <3>1, <3>2
  <2>5. CASE mounted /\ endpoint # NoReport
    <3>1. endpoint' = endpoint /\ ButtonsDown' = ButtonsDown
      BY <1>3, <1>13, <2>5, ClaimDown DEF Ready
    <3>2. ~HttpdNext
      BY <2>2, <2>5 DEF HttpdNext
    <3>3. Closing => Closing'
      BY <1>9, <2>2, <3>1, <3>2
    <3>4. QED
      BY <1>7, <2>2, <3>1, <3>3
  <2>6. CASE mounted /\ endpoint = NoReport
    <3>1. /\ At("httpd")' = "sent"
          /\ \/ Now(H).op \in KeyOps /\ ButtonsDown' = ButtonsDown
             \/ Now(H).op \in MouseOps /\ (Release(Now(H)) => ButtonsDown' = {})
      BY <1>3, <1>13, <2>6, ClaimDown DEF Ready, At
    <3>2. CASE Now(H) = Do("set", {})
      <4>1. Release(Now(H)) /\ Now(H).op = "set"
        BY <3>2, Telling
      <4>2. ButtonsDown' = {}
        BY <3>1, <4>1 DEF KeyOps
      <4>3. QED
        BY <1>2, <4>2
    <3>3. CASE Now(H) = Do("keys", {})
      <4>1. ButtonsDown' = ButtonsDown
        BY <3>1, <3>3, Telling DEF MouseOps
      <4>2. HttpdNext'
        BY <2>2, <3>1, <3>3 DEF HttpdNext
      <4>3. ASSUME Closing PROVE Closing'
        <5>1. ~(Now(H) = Do("set", {})) /\ ~(Now(H) = Do("keys", {}) /\ At("httpd") = "sent")
          BY <2>2, <3>3, Telling DEF Do
        <5>2. ~HttpdNext
          BY <5>1 DEF HttpdNext
        <5>3. call["loop"].phase # "none" => ~(call["loop"].tries > 0)
          BY <4>3, <5>2 DEF Closing, Contest
        <5>4. Contest'
          BY <2>2, <4>2, <5>3 DEF Contest
        <5>5. QED
          BY <2>2, <4>3, <5>4 DEF Closing, At
      <4>4. QED
        BY <1>7, <2>2, <4>1, <4>3
    <3>4. QED
      BY <2>3, <3>2, <3>3
  <2>7. QED
    BY <2>4, <2>5, <2>6
<1>14. ASSUME NEW r \in Reports, Send("loop", r), script' = script,
              endpoint' = endpoint, target' = target, dropped' = dropped
       PROVE  DownInv'
  <2>1. L' = L /\ H' = H /\ ButtonsDown' = ButtonsDown
    BY <1>14 DEF L, H, ButtonsDown
  <2>2. CASE ~mounted
    <3>1. ButtonsDown = {}
      BY <2>2, Unplugged
    <3>2. QED
      BY <1>2, <2>1, <3>1
  <2>3. CASE mounted
    <3>1. call'["loop"].phase = "wait" /\ call'["loop"].tries = 0
      BY <1>3, <1>14, <2>3, Sent
    <3>2. Closing => Closing'
      BY <2>1, <3>1 DEF Closing, Contest, At, Open
    <3>3. QED
      BY <1>7, <1>14, <2>1, <3>2
  <2>4. QED
    BY <2>2, <2>3
<1>15. ASSUME NEW r \in Reports, Send("httpd", r), script' = script, At("httpd") = "none",
              endpoint' = endpoint, target' = target, dropped' = dropped
       PROVE  DownInv'
  <2>1. L' = L /\ H' = H /\ ButtonsDown' = ButtonsDown
    BY <1>15 DEF L, H, ButtonsDown
  <2>2. CASE ~mounted
    <3>1. ButtonsDown = {}
      BY <2>2, Unplugged
    <3>2. QED
      BY <1>2, <2>1, <3>1
  <2>3. CASE mounted
    <3>1. "loop" \in Tasks \ {"httpd"}
      BY <1>3
    <3>2. call'["httpd"].phase = "wait" /\ call'["loop"] = call["loop"]
      BY <1>3, <1>15, <2>3, <3>1, Sent
    <3>3. HttpdNext => HttpdNext'
      BY <1>15, <2>1, <3>2 DEF HttpdNext, At
    <3>4. Closing => Closing'
      BY <1>9, <1>15, <2>1, <3>2, <3>3
    <3>5. QED
      BY <1>7, <1>15, <2>1, <3>4
  <2>4. QED
    BY <2>2, <2>3
<1>16. ASSUME NEW t \in Tasks, KeyCall(t) PROVE DownInv'
  <2>1. /\ script' = script /\ script[t] # <<>> /\ Send(t, Keys(Head1(t).arg))
        /\ endpoint' = endpoint /\ target' = target /\ dropped' = dropped /\ At(t) = "none"
    BY <1>16 DEF KeyCall, deviceVars, Busy, At
  <2>2. Head1(t) = Now(script[t]) /\ Head1(t) \in Steps
    BY <1>3, <2>1, HeadNow DEF Head1
  <2>3. Keys(Head1(t).arg) \in Reports
    BY <2>2, StepFacts, ReportSet
  <2>4. QED
    BY <1>3, <1>14, <1>15, <2>1, <2>3
<1>17. ASSUME MouseCall("httpd") PROVE DownInv'
  <2>1. /\ script' = script /\ Send("httpd", Mouse({}))
        /\ endpoint' = endpoint /\ target' = target /\ dropped' = dropped /\ At("httpd") = "none"
    BY <1>17, HttpdMouse DEF MouseCall, At
  <2>2. Mouse({}) \in Reports
    BY ReportSet
  <2>3. QED
    BY <1>15, <2>1, <2>2
<1>18. ASSUME MouseCall("loop") PROVE DownInv'
  <2>1. endpoint' = endpoint /\ target' = target /\ dropped' = dropped /\ mounted' = mounted
    BY <1>18 DEF MouseCall
  <2>2. CASE ~mounted
    <3>1. ButtonsDown' = {}
      BY <2>1, <2>2, Unplugged DEF ButtonsDown
    <3>2. QED
      BY <1>2, <3>1
  <2>3. CASE mounted
    <3>1. Send("loop", Mouse(held')) /\ held' = HeldAfter(Now(L)) /\ script' = script
      BY <1>18, <2>3, LoopMouse DEF MouseCall
    <3>2. held \subseteq Left /\ Now(L) \in Steps /\ Now(L).op \in MouseOps
      BY <1>18, LoopMouse DEF Basic, TypeInv
    <3>3. held' \in SUBSET (Keyboard \cup Left)
      BY <3>1, <3>2, HeldType
    <3>4. Mouse(held') \in Reports
      BY <3>3, ReportSet
    <3>5. QED
      BY <1>14, <2>1, <3>1, <3>4
  <2>4. QED
    BY <2>2, <2>3
<1>19. ASSUME Returns("loop") PROVE DownInv'
  <2>1. /\ At("loop") \in {"sent", "failed"} /\ endpoint' = endpoint /\ target' = target
    BY <1>19 DEF Returns, deviceVars, At
  <2>2. ~Closing
    BY <2>1 DEF Closing, Open
  <2>3. ButtonsDown' = ButtonsDown /\ (dropped => dropped')
    BY <1>19, <2>1 DEF ButtonsDown, Returns
  <2>4. QED
    BY <1>1, <1>2, <1>4, <1>6, <2>2, <2>3
<1>20. ASSUME Returns("httpd") PROVE DownInv'
  <2>1. /\ L' = L /\ dropped' = dropped /\ endpoint' = endpoint /\ target' = target
        /\ At("httpd") \in {"sent", "failed"} /\ call' = [call EXCEPT !["httpd"] = NoCall]
        /\ (Now(H) = Do("keys", {}) => Now(H') = Do("set", {}))
    BY <1>20, HttpdReturns DEF Returns, deviceVars, At
  <2>2. ButtonsDown' = ButtonsDown /\ call'["loop"] = call["loop"] /\ At("httpd")' = "none"
    BY <1>3, <2>1 DEF ButtonsDown, At, NoCall
  <2>3. HttpdNext => HttpdNext'
    BY <2>1, <2>2 DEF HttpdNext
  <2>4. QED
    BY <1>7, <1>9, <2>1, <2>2, <2>3
<1>21. ASSUME dropped' = dropped, endpoint' = endpoint, target'.buttons = target.buttons,
              ~(Now(L).op \in {"sub", "set"}) \/ L = <<>>
       PROVE  DownInv'
  <2>1. ButtonsDown' = ButtonsDown
    BY <1>21 DEF ButtonsDown
  <2>2. ~Closing
    BY <1>8, <1>21
  <2>3. QED
    BY <1>7, <1>21, <2>1, <2>2
<1>22. ASSUME Expand \/ Type \/ NextChar \/ NumLock \/ Report PROVE DownInv'
  <2>1. Now(L).op \in {"click", "press", "retry", "type", "next", "numlock", "confirm", "report"}
    <3>1. CASE Expand
      BY <3>1, ExpandScript
    <3>2. CASE Type
      BY <3>2, TypeScript DEF Do
    <3>3. CASE NextChar
      BY <3>3, NextCharScript DEF Do
    <3>4. CASE NumLock
      BY <3>4, NumLockScript
    <3>5. CASE Report
      BY <3>5, ReportScript
    <3>6. QED
      BY <1>22, <3>1, <3>2, <3>3, <3>4, <3>5
  <2>2. Now(L).op \notin {"sub", "set"}
    BY <2>1
  <2>3. dropped' = dropped /\ endpoint' = endpoint /\ target' = target
    BY <1>22 DEF Expand, Type, NextChar, NumLock, Report, deviceVars, histVars
  <2>4. QED
    BY <1>21, <2>2, <2>3
<1>23. ASSUME StartAction \/ EndAction PROVE DownInv'
  <2>1. dropped' = dropped /\ endpoint' = endpoint /\ target' = [target EXCEPT !.text = <<>>] /\ L = <<>>
    BY <1>23, StartScript DEF StartAction, EndAction, deviceVars, histVars, L
  <2>2. target'.buttons = target.buttons
    BY <2>1 DEF Basic, TypeInv, Targets
  <2>3. QED
    BY <1>21, <2>1, <2>2
<1>24. ASSUME LoopTop PROVE DownInv'
  <2>1. L = <<>> /\ endpoint' = endpoint /\ target' = target /\ call' = call
    BY <1>24 DEF LoopTop, deviceVars, L
  <2>2. CASE dropped' = dropped
    BY <1>21, <2>1, <2>2
  <2>3. CASE dropped' # dropped
    <3>1. L' = ReleaseAll /\ ReleaseAll \in Releasing
      BY <1>3, <1>24, <2>3 DEF LoopTop, AbortScript, L, Releasing, Basic, TypeInv
    <3>2. Now(ReleaseAll) = Do("keys", {}) /\ ReleaseAll # <<>>
      BY DEF Now, ReleaseAll
    <3>3. Do("keys", {}) # Do("set", {})
      BY DEF Do
    <3>4. Rest(ReleaseAll) = {Do("set", {})}
      BY <3>1, <3>2, <3>3, ReleasingFacts
    <3>5. Frees(Rest(L'))
      BY <3>1, <3>4, Telling DEF Frees
    <3>6. QED
      BY <1>2, <3>5
  <2>4. QED
    BY <2>2, <2>3
<1>25. ASSUME Emergency PROVE DownInv'
  <2>1. /\ H = <<>> /\ L' = L /\ call' = call
        /\ endpoint' = endpoint /\ target' = target /\ dropped' = dropped
    BY <1>3, <1>25 DEF Emergency, deviceVars, L, H
  <2>2. ButtonsDown' = ButtonsDown
    BY <2>1 DEF ButtonsDown
  <2>3. ~HttpdNext
    <3>1. Now(H) = NoStep /\ NoStep # Do("keys", {}) /\ NoStep # Do("set", {})
      BY <2>1 DEF Now, NoStep, Do
    <3>2. QED
      BY <3>1 DEF HttpdNext
  <2>4. QED
    BY <1>7, <1>9, <2>1, <2>2, <2>3
<1>26. ASSUME Poll PROVE DownInv'
  <2>1. /\ ButtonsDown' = ButtonsDown /\ endpoint' = NoReport /\ script' = script /\ call' = call
        /\ dropped' = dropped
    BY <1>26, PollDown
  <2>2. L' = L /\ H' = H /\ (HttpdNext => HttpdNext')
    BY <2>1 DEF HttpdNext, At, L, H
  <2>3. QED
    BY <1>7, <1>9, <2>1, <2>2
<1>27. ASSUME EndBatch \/ LedReport \/ Configure \/ UNCHANGED vars PROVE DownInv'
  <2>1. /\ script' = script /\ call' = call /\ endpoint' = endpoint /\ target' = target
        /\ dropped' = dropped
    BY <1>27 DEF EndBatch, LedReport, Configure, vars, deviceVars, taskVars, histVars
  <2>2. L' = L /\ H' = H /\ (HttpdNext => HttpdNext') /\ ButtonsDown' = ButtonsDown
    BY <2>1 DEF HttpdNext, At, L, H, ButtonsDown
  <2>3. QED
    BY <1>7, <1>9, <2>1, <2>2
<1>28. ASSUME Unplug PROVE DownInv'
  <2>1. ButtonsDown' = {}
    BY <1>28 DEF Unplug, ButtonsDown, NoReport, FreshTarget
  <2>2. QED
    BY <1>2, <2>1
<1>29. ASSUME Replug PROVE DownInv'
  <2>1. ButtonsDown' = {}
    BY <1>29, Unplugged DEF Replug, ButtonsDown
  <2>2. QED
    BY <1>2, <2>1
<1>30. QED
  BY <1>10, <1>11, <1>12, <1>13, <1>16, <1>17, <1>18, <1>19, <1>20, <1>22, <1>23, <1>24, <1>25, <1>26,
     <1>27, <1>28, <1>29 DEF Next, Loop, Sending, Target, Tasks

-----------------------------------------------------------------------------
(* Typing: what is counted.                                                *)

(* The key of a character, on the keypad or not.                           *)
Key(c, keypad) == IF c = "1" /\ keypad THEN "kp1" ELSE c
Ahead(s, op) == Now(s).op = op \/ Has(Rest(s), op)

(* A key-down at hand is that of the character the loop is at, which is not *)
(* counted as queued yet; the counts stay within the length, and that is    *)
(* what the text has while there are characters to come.                    *)
QueueInv ==
  /\ typing.queued <= typing.at /\ typing.at <= typing.len /\ typing.len \in {0, Len(typing.text)}
  /\ Strike(Now(L)) => /\ typing.queued < typing.at /\ typing.text[typing.at] \in Chars
                       /\ Now(L).arg = {Key(typing.text[typing.at], typing.keypad)}
  /\ Ahead(L, "type") => typing.len = 0
  /\ Ahead(L, "next") => typing.len = Len(typing.text)
  /\ typing.done => L = <<>>
  /\ pc # "action" => typing = NoText

(* The channel of a character by the text that is typed. *)
LEMMA ChannelKey == \A c : Channel(c) = Key(c, typing.keypad)
BY DEF Channel, Key

(* What is ahead of a script without its first call was ahead of it. *)
LEMMA AheadTail ==
  ASSUME NEW s, Good(s), s # <<>>, NEW op, op # "none"
  PROVE  /\ Ahead(Tail(s), op) => Has(Rest(s), op)
         /\ Has(Rest(s), op) => Ahead(Tail(s), op)
<1>1. /\ Tail(s) = <<>> => Now(Tail(s)) = NoStep /\ Rest(s) = {} /\ Rest(Tail(s)) = {}
      /\ Tail(s) # <<>> => /\ Now(Tail(s)) \in Rest(s) /\ Rest(s) = {Now(Tail(s))} \cup Rest(Tail(s))
  BY Passed
<1>2. NoStep.op = "none"
  BY DEF NoStep, Do
<1>3. QED
  BY <1>1, <1>2 DEF Ahead, Has

(* Every step keeps the counts of a text. *)
LEMMA QueueStep ==
  ASSUME Basic, QueueInv, [Next]_vars
  PROVE  QueueInv'
<1>1. /\ typing \in Typings /\ typing.queued \in Nat /\ typing.at \in Nat /\ typing.len \in Nat
      /\ typing.text \in Seq(Symbols) /\ Len(typing.text) \in Nat /\ Good(L)
  BY Known DEF Basic, TypeInv, Typings
<1>2. NoStep.op = "none" /\ ~Strike(NoStep) /\ Now(<<>>) = NoStep /\ Rest(<<>>) = {}
  BY EmptyGood DEF NoStep, Do, Strike
<1>3. ~Ahead(<<>>, "type") /\ ~Ahead(<<>>, "next")
  BY <1>2 DEF Ahead, Has
<1>4. ASSUME typing' = typing, pc' = pc \/ pc' = "action", ~Strike(Now(L')), L # <<>>,
             Ahead(L', "type") => Ahead(L, "type"), Ahead(L', "next") => Ahead(L, "next")
      PROVE  QueueInv'
  BY <1>4 DEF QueueInv
<1>5. ASSUME L # <<>> PROVE /\ ~Strike(Now(Tail(L)))
                            /\ Ahead(Tail(L), "type") => Ahead(L, "type")
                            /\ Ahead(Tail(L), "next") => Ahead(L, "next")
  <2>1. ~First(Now(Tail(L)))
    BY <1>1, <1>5, Passed
  <2>2. ASSUME NEW op, op # "none" PROVE Ahead(Tail(L), op) => Ahead(L, op)
    BY <1>1, <1>5, <2>2, AheadTail DEF Ahead
  <2>3. "type" # "none" /\ "next" # "none"
    OBVIOUS
  <2>4. QED
    BY <2>1, <2>2, <2>3 DEF First, Down
<1>6. ASSUME typing' = typing, pc' = pc, L' = L PROVE QueueInv'
  BY <1>6 DEF QueueInv
<1>7. CASE Returns("loop")
  <2>1. /\ pc' = pc /\ L # <<>>
        /\ \/ /\ L' = Tail(L) /\ (Strike(Now(L)) => At("loop") = "sent")
           \/ /\ Now(L).op = "char" /\ At("loop") = "failed"
              /\ L' # <<>> /\ Now(L') = Do("again", Now(L).arg) /\ Rest(L') = Rest(L)
           \/ /\ Now(L).op = "again" /\ At("loop") = "failed"
              /\ ~First(Now(L')) /\ \E c \in Steps : c.op = "charUp" /\ Rest(L) = {c} \cup Items(L')
        /\ typing' = IF At("loop") = "sent" /\ Strike(Now(L))
                     THEN [typing EXCEPT !.queued = @ + 1] ELSE typing
    BY <1>7, LoopReturns DEF At
  <2>2. CASE L' = Tail(L) /\ typing' = typing
    BY <1>4, <1>5, <2>1, <2>2
  <2>3. CASE L' = Tail(L) /\ Strike(Now(L)) /\ typing' = [typing EXCEPT !.queued = @ + 1]
    <3>1. /\ typing'.queued = typing.queued + 1 /\ typing'.at = typing.at /\ typing'.len = typing.len
          /\ typing'.text = typing.text /\ typing'.done = typing.done
      BY <1>1, <2>3 DEF Typings
    <3>2. typing.queued < typing.at
      BY <2>3 DEF QueueInv
    <3>3. typing'.queued <= typing'.at
      BY <1>1, <3>1, <3>2
    <3>4. pc = "action" /\ ~typing.done
      <4>1. pc = "action"
        BY <2>3, InAction DEF Strike
      <4>2. QED
        BY <2>1, <4>1 DEF QueueInv
    <3>5. QED
      BY <1>5, <2>1, <2>3, <3>1, <3>3, <3>4 DEF QueueInv
  <2>4. CASE /\ Now(L).op = "char" /\ At("loop") = "failed"
             /\ L' # <<>> /\ Now(L') = Do("again", Now(L).arg) /\ Rest(L') = Rest(L)
    <3>1. typing' = typing /\ Strike(Now(L)) /\ Now(L').arg = Now(L).arg /\ Now(L').op = "again"
      BY <2>1, <2>4 DEF Strike, Do
    <3>2. (Ahead(L', "type") => Ahead(L, "type")) /\ (Ahead(L', "next") => Ahead(L, "next"))
      BY <2>4, <3>1 DEF Ahead
    <3>3. QED
      BY <2>1, <3>1, <3>2 DEF QueueInv
  <2>5. CASE /\ Now(L).op = "again" /\ At("loop") = "failed"
             /\ ~First(Now(L')) /\ \E c \in Steps : c.op = "charUp" /\ Rest(L) = {c} \cup Items(L')
    <3>1. typing' = typing /\ ~Strike(Now(L'))
      BY <2>1, <2>5 DEF First, Down
    <3>2. Good(L')
      BY <1>7, LoopReturns
    <3>3. L' # <<>> => Items(L') = {Now(L')} \cup Rest(L')
      BY <3>2, TailFacts DEF Good, Now
    <3>4. Items(L') \subseteq Rest(L)
      BY <2>5
    <3>5. (Ahead(L', "type") => Ahead(L, "type")) /\ (Ahead(L', "next") => Ahead(L, "next"))
      BY <1>3, <3>3, <3>4 DEF Ahead, Has
    <3>6. QED
      BY <1>4, <2>1, <3>1, <3>5
  <2>6. QED
    BY <2>1, <2>2, <2>3, <2>4, <2>5
<1>8. CASE MouseCall("loop")
  <2>1. typing' = typing /\ pc' = pc /\ L # <<>> /\ (L' = L \/ L' = Tail(L))
    BY <1>8, LoopMouse DEF MouseCall
  <2>2. QED
    BY <1>4, <1>5, <1>6, <2>1
<1>9. CASE Expand
  <2>1. typing' = typing /\ pc' = pc /\ L # <<>>
    BY <1>9, ExpandScript DEF Expand
  <2>2. \/ L' = Tail(L)
        \/ /\ Now(L').op \in {"set", "keys", "press"}
           /\ \A c \in Rest(L') : c \in Rest(L) \/ c.op \in {"set", "keys"}
    BY <1>9, ExpandScript DEF Do
  <2>3. CASE L' = Tail(L)
    BY <1>4, <1>5, <2>1, <2>3
  <2>4. CASE /\ Now(L').op \in {"set", "keys", "press"}
             /\ \A c \in Rest(L') : c \in Rest(L) \/ c.op \in {"set", "keys"}
    <3>1. /\ ~Strike(Now(L')) /\ (Ahead(L', "type") => Ahead(L, "type"))
          /\ (Ahead(L', "next") => Ahead(L, "next"))
      BY <2>4 DEF Strike, Ahead, Has
    <3>2. QED
      BY <1>4, <2>1, <3>1
  <2>5. QED
    BY <2>2, <2>3, <2>4
<1>10. CASE Type
  <2>1. /\ pc = "action" /\ pc' = "action" /\ L # <<>> /\ Now(L).op = "type" /\ ~Has(Rest(L), "type")
        /\ \/ L' = Tail(L) /\ ~mounted
           \/ mounted /\ L' # <<>> /\ Now(L') = Do("next", {}) /\ Rest(L') = Rest(L)
        /\ typing' = [typing EXCEPT !.len = IF mounted THEN Len(typing.text) ELSE 0]
    BY <1>10, TypeScript DEF Type, Do
  <2>2. /\ typing'.queued = typing.queued /\ typing'.at = typing.at
        /\ typing'.text = typing.text /\ typing'.done = typing.done
        /\ typing'.len = IF mounted THEN Len(typing.text) ELSE 0
    BY <1>1, <2>1 DEF Typings
  <2>3. typing.len = 0 /\ typing.at = 0 /\ typing.queued = 0 /\ ~typing.done
    <3>1. typing.len = 0
      BY <2>1 DEF QueueInv, Ahead
    <3>2. typing.at <= typing.len /\ typing.queued <= typing.at /\ ~typing.done
      BY <2>1 DEF QueueInv
    <3>3. QED
      BY <1>1, <3>1, <3>2
  <2>4. CASE L' = Tail(L) /\ ~mounted
    <3>1. Ahead(L', "next") => Len(typing.text) = 0
      <4>1. Ahead(L', "next") => typing.len = Len(typing.text)
        BY <1>5, <2>1, <2>4 DEF QueueInv
      <4>2. QED
        BY <2>3, <4>1
    <3>2. ~Ahead(L', "type")
      <4>1. ASSUME NEW op, op # "none" PROVE Ahead(Tail(L), op) => Has(Rest(L), op)
        BY <1>1, <2>1, <4>1, AheadTail
      <4>2. QED
        BY <2>1, <2>4, <4>1
    <3>3. typing'.len = 0 /\ typing'.queued <= typing'.at /\ typing'.at <= typing'.len
      BY <2>2, <2>3, <2>4
    <3>4. QED
      BY <1>5, <2>1, <2>2, <2>3, <2>4, <3>1, <3>2, <3>3 DEF QueueInv
  <2>5. CASE mounted /\ Now(L') = Do("next", {}) /\ Rest(L') = Rest(L)
    <3>1. Now(L').op = "next"
      BY <2>5 DEF Do
    <3>2. ~Strike(Now(L')) /\ ~Ahead(L', "type")
      BY <2>1, <2>5, <3>1 DEF Strike, Ahead
    <3>3. typing'.len = Len(typing'.text) /\ typing'.queued <= typing'.at /\ typing'.at <= typing'.len
      BY <1>1, <2>2, <2>3, <2>5
    <3>4. QED
      BY <2>1, <2>2, <2>3, <3>2, <3>3 DEF QueueInv
  <2>6. QED
    BY <2>1, <2>4, <2>5
<1>11. CASE NextChar
  <2> DEFINE c == typing.text[typing.at + 1]
  <2>1. /\ pc = "action" /\ pc' = "action" /\ L # <<>> /\ Now(L).op = "next" /\ ~Has(Rest(L), "type")
        /\ \/ L' = Tail(L) /\ typing' = typing
           \/ /\ typing.at < Len(typing.text) /\ typing' = [typing EXCEPT !.at = @ + 1]
              /\ IF c \in Chars
                 THEN /\ Now(L') = Do("char", {Channel(c)})
                      /\ Rest(L') = {Do("charUp", {}), Do("next", {})} \cup Rest(L)
                 ELSE Now(L') = Do("next", {}) /\ Rest(L') = Rest(L)
    BY <1>11, NextCharScript DEF Do
  <2> HIDE DEF c
  <2>2. CASE L' = Tail(L) /\ typing' = typing
    BY <1>4, <1>5, <2>1, <2>2
  <2>3. CASE typing.at < Len(typing.text) /\ typing' = [typing EXCEPT !.at = @ + 1]
    <3>1. /\ typing'.queued = typing.queued /\ typing'.at = typing.at + 1 /\ typing'.len = typing.len
          /\ typing'.text = typing.text /\ typing'.done = typing.done /\ typing'.keypad = typing.keypad
      BY <1>1, <2>3 DEF Typings
    <3>2. /\ typing.len = Len(typing.text) /\ typing.queued <= typing.at /\ ~typing.done
      BY <2>1 DEF QueueInv, Ahead
    <3>3. /\ typing'.queued < typing'.at /\ typing'.queued <= typing'.at /\ typing'.at <= typing'.len
          /\ typing'.len = Len(typing'.text)
      BY <1>1, <2>3, <3>1, <3>2
    <3>4. typing'.text[typing'.at] = c
      BY <3>1 DEF c
    <3>5. CASE c \in Chars
      <4>1. /\ Now(L').op = "char" /\ Now(L').arg = {Channel(c)}
            /\ Rest(L') = {Do("charUp", {}), Do("next", {})} \cup Rest(L)
        <5>1. L' # Tail(L) \/ typing' # typing
          BY <1>1, <3>1
        <5>2. QED
          BY <1>1, <2>1, <3>1, <3>5, <5>1 DEF Do
      <4>2. ~Ahead(L', "type")
        BY <2>1, <4>1 DEF Ahead, Has, Do
      <4>3. Now(L').arg = {Key(c, typing'.keypad)}
        BY <3>1, <4>1, ChannelKey
      <4>4. QED
        BY <2>1, <3>1, <3>2, <3>3, <3>4, <3>5, <4>2, <4>3 DEF QueueInv
    <3>6. CASE c \notin Chars
      <4>1. Now(L').op = "next" /\ Rest(L') = Rest(L)
        BY <1>1, <2>1, <3>1, <3>6 DEF Do
      <4>2. ~Strike(Now(L')) /\ ~Ahead(L', "type")
        BY <2>1, <4>1 DEF Strike, Ahead
      <4>3. QED
        BY <2>1, <3>1, <3>2, <3>3, <4>2 DEF QueueInv
    <3>7. QED
      BY <3>5, <3>6
  <2>4. QED
    BY <2>1, <2>2, <2>3
<1>12. CASE NumLock
  <2>1. /\ pc = "action" /\ pc' = "action" /\ L # <<>>
        /\ \/ typing' = typing
           \/ typing' = [typing EXCEPT !.keypad = TRUE]
           \/ typing' = [typing EXCEPT !.keypad = FALSE]
        /\ \/ L' = Tail(L)
           \/ Now(L') = Do("press", {"numlock"}) /\ Rest(L') = {Do("confirm", {})} \cup Rest(L)
    BY <1>12, NumLockScript
  <2>2. /\ typing'.queued = typing.queued /\ typing'.at = typing.at /\ typing'.len = typing.len
        /\ typing'.text = typing.text /\ typing'.done = typing.done
    BY <1>1, <2>1 DEF Typings
  <2>3. /\ ~Strike(Now(L')) /\ (Ahead(L', "type") => Ahead(L, "type"))
        /\ (Ahead(L', "next") => Ahead(L, "next"))
    <3>1. CASE L' = Tail(L)
      BY <1>5, <2>1, <3>1
    <3>2. CASE Now(L') = Do("press", {"numlock"}) /\ Rest(L') = {Do("confirm", {})} \cup Rest(L)
      BY <3>2 DEF Strike, Ahead, Has, Do
    <3>3. QED
      BY <2>1, <3>1, <3>2
  <2>4. QED
    BY <2>1, <2>2, <2>3 DEF QueueInv
<1>13. CASE Report
  <2>1. /\ pc = "action" /\ pc' = "action" /\ L' = <<>> /\ L # <<>> /\ typing' = [typing EXCEPT !.done = TRUE]
    BY <1>13, ReportScript DEF Report
  <2>2. /\ typing'.queued = typing.queued /\ typing'.at = typing.at /\ typing'.len = typing.len
        /\ typing'.text = typing.text
    BY <1>1, <2>1 DEF Typings
  <2>3. ~Strike(Now(L')) /\ ~Ahead(L', "type") /\ ~Ahead(L', "next")
    BY <1>2, <1>3, <2>1
  <2>4. QED
    BY <2>1, <2>2, <2>3 DEF QueueInv
<1>14. CASE StartAction
  <2>1. /\ pc' = "action" /\ ~Down(Now(L')) /\ ~Has(Items(L'), "next") /\ L' # <<>> /\ Good(L')
    BY <1>14, StartScript
  <2>2. PICK text \in Seq(Symbols) : typing' = [NoText EXCEPT !.text = text]
    BY <1>14, StartScript
  <2>3. typing'.queued = 0 /\ typing'.at = 0 /\ typing'.len = 0 /\ typing'.done = FALSE
    BY <2>2 DEF NoText
  <2>4. ~Ahead(L', "next") /\ ~Strike(Now(L'))
    <3>1. Items(L') = {Now(L')} \cup Rest(L')
      BY <2>1, TailFacts DEF Good, Now
    <3>2. QED
      BY <2>1, <3>1 DEF Ahead, Has, Down
  <2>5. QED
    BY <2>1, <2>3, <2>4 DEF QueueInv
<1>15. NoText.queued = 0 /\ NoText.at = 0 /\ NoText.len = 0 /\ NoText.done = FALSE
       /\ NoText.text = <<>> /\ Len(<<>>) = 0
  BY DEF NoText
<1>16. CASE EndAction
  <2>1. typing' = NoText /\ L' = <<>>
    BY <1>16 DEF EndAction, L
  <2>2. ~Strike(Now(L')) /\ ~Ahead(L', "type") /\ ~Ahead(L', "next")
    BY <1>2, <1>3, <2>1
  <2>3. QED
    BY <1>15, <2>1, <2>2 DEF QueueInv
<1>17. CASE EndBatch
  <2>1. typing' = NoText /\ L' = L /\ L = <<>>
    BY <1>17 DEF EndBatch, L, QueueInv, Basic, ScriptInv
  <2>2. ~Strike(Now(L')) /\ ~Ahead(L', "type") /\ ~Ahead(L', "next")
    BY <1>2, <1>3, <2>1
  <2>3. QED
    BY <1>15, <2>1, <2>2 DEF QueueInv
<1>18. CASE LoopTop
  <2>1. typing' = NoText /\ typing = NoText /\ L = <<>>
    BY <1>18 DEF LoopTop, QueueInv, L
  <2>2. L' = <<>> \/ L' = ReleaseAll
    BY <1>18, Known DEF LoopTop, AbortScript, L
  <2>3. ~Strike(Now(L')) /\ ~Ahead(L', "type") /\ ~Ahead(L', "next")
    <3>1. CASE L' = <<>>
      BY <1>2, <1>3, <3>1
    <3>2. CASE L' = ReleaseAll
      <4>1. ReleaseAll \in Releasing /\ ReleaseAll # <<>> /\ Now(ReleaseAll) = Do("keys", {})
        BY DEF Releasing, ReleaseAll, Now
      <4>2. Do("keys", {}).op = "keys" /\ Do("set", {}).op = "set"
        BY DEF Do
      <4>3. Rest(ReleaseAll) = {Do("set", {})}
        BY <4>1, <4>2, ReleasingFacts
      <4>4. QED
        BY <3>2, <4>1, <4>2, <4>3 DEF Strike, Ahead, Has
    <3>3. QED
      BY <2>2, <3>1, <3>2
  <2>4. QED
    BY <1>15, <2>1, <2>3 DEF QueueInv
<1>19. CASE Emergency
  BY <1>6, <1>19, Known DEF Emergency, L
<1>20. ASSUME NEW t \in Tasks, SeesReady(t) \/ TimesOut(t) \/ Claims(t) \/ KeyCall(t) PROVE QueueInv'
  BY <1>6, <1>20 DEF SeesReady, TimesOut, Claims, KeyCall, L
<1>21. CASE MouseCall("httpd")
  BY <1>6, <1>21, HttpdMouse DEF MouseCall, L
<1>22. CASE Returns("httpd")
  BY <1>6, <1>22, HttpdReturns DEF Returns
<1>23. CASE Target \/ UNCHANGED vars
  BY <1>6, <1>23 DEF Target, Poll, LedReport, Configure, Unplug, Replug, vars, taskVars, L
<1>24. QED
  BY <1>7, <1>8, <1>9, <1>10, <1>11, <1>12, <1>13, <1>14, <1>16, <1>17, <1>18, <1>19, <1>20, <1>21,
     <1>22, <1>23 DEF Next, Loop, Sending, Tasks

-----------------------------------------------------------------------------
(* Num Lock.                                                               *)

KeysOut == IF endpoint.kind = "keys" THEN endpoint.down ELSE {}

(* The view of Num Lock: unknown, and then it is off; off, and then at most *)
(* one key press and its report are on their way, with the confirmation     *)
(* still to come; or on, and then it stays so.                              *)
ViewInv ==
  /\ ~ledSeen => ~led /\ ~target.numLock /\ leds \in {<<>>, <<FALSE>>}
  /\ ledSeen /\ ~led /\ ~target.numLock => leds = <<>>
  /\ ledSeen /\ ~led /\ target.numLock => leds = <<TRUE>> /\ Ahead(L, "confirm")
  /\ led => target.numLock /\ leds = <<>>
  /\ "numlock" \in KeysOut => ledSeen /\ ~led /\ ~target.numLock /\ Ahead(L, "confirm")

(* The Num Lock key is pressed while the LED is known to be off; the keypad *)
(* is used while it is known to be on.                                      *)
KeypadInv ==
  /\ "numlock" \in Now(L).arg =>
       ledSeen /\ (At("loop") # "sent" => ~led /\ ~target.numLock /\ "numlock" \notin KeysOut)
  /\ typing.keypad => led
  /\ "kp1" \in Now(L).arg => led
  /\ "kp1" \in KeysOut => led

NoArrow == \A i \in DOMAIN target.text : target.text[i] # "arrow"

LedInv == ~gaveUp /\ "led" \notin stale => ViewInv /\ KeypadInv /\ NoArrow

(* What need not be at hand presses no Num Lock and no key of the keypad. *)
LEMMA Harmless ==
  ASSUME NEW c, c \in Steps \/ c = NoStep, ~First(c)
  PROVE  "numlock" \notin c.arg /\ "kp1" \notin c.arg /\ ~Strike(c)
<1>1. ~Down(c) /\ ~Strike(c)
  BY DEF First, Down
<1>2. CASE c = NoStep
  BY <1>1, <1>2 DEF NoStep, Do
<1>3. CASE c \in Steps
  <2>1. "kp1" \notin Left /\ "kp1" \notin {"enter"} /\ (\A k \in Chords : "kp1" \notin k) /\ "numlock" \notin Left
        /\ "numlock" \notin {"enter"}
    BY DEF Left, Chords
  <2>2. Fitting(c) /\ c.op \in Ops
    BY <1>3, StepFacts
  <2>3. c.op = "keys" => c.arg = {}
    BY <1>1 DEF Down
  <2>4. c.op = "press" => "numlock" \notin c.arg
    BY DEF First
  <2>5. QED
    BY <1>1, <2>1, <2>2, <2>3, <2>4 DEF Fitting, Ops, KeyOps, MouseOps, Strike
<1>4. QED
  BY <1>2, <1>3

(* Every step keeps the view of Num Lock. *)
LEMMA LedStep ==
  ASSUME Basic, LedInv, [Next]_vars
  PROVE  LedInv'
<1> SUFFICES ASSUME ~gaveUp', "led" \notin stale' PROVE ViewInv' /\ KeypadInv' /\ NoArrow'
  BY DEF LedInv
<1> DEFINE View == led' = led /\ ledSeen' = ledSeen /\ leds' = leds /\ target'.numLock = target.numLock
           Pressed == "numlock" \in Now(L').arg =>
                        ledSeen' /\ (At("loop")' # "sent" =>
                                       ~led' /\ ~target'.numLock /\ "numlock" \notin KeysOut')
<1>1. /\ script \in [Tasks -> Seq(Steps)] /\ call \in [Tasks -> Calls] /\ Good(L)
      /\ "loop" \in Tasks /\ "httpd" \in Tasks /\ Tasks = {"loop", "httpd"}
      /\ script["loop"] = L /\ script["httpd"] = H /\ TypeInv
      /\ led \in BOOLEAN /\ ledSeen \in BOOLEAN /\ target \in Targets /\ target.numLock \in BOOLEAN
      /\ leds \in Seq(BOOLEAN) /\ target.text \in Seq(Marks)
      /\ typing \in Typings /\ typing.keypad \in BOOLEAN
      /\ L # <<>> => Now(L) \in Steps
  BY Known DEF L, H, Basic, TypeInv, Targets, Typings
<1>2. ~gaveUp
  <2>1. gaveUp => gaveUp'
    BY DEF Next, Loop, Sending, Target, SeesReady, TimesOut, Claims, MouseCall, KeyCall, Returns, Expand,
           Type, NextChar, NumLock, StartAction, Report, EndAction, EndBatch, LoopTop, Emergency, Poll,
           LedReport, Configure, Unplug, Replug, vars, histVars
  <2>2. QED
    BY <2>1
<1>3. ViewInv /\ KeypadInv /\ NoArrow
  BY <1>2, StaleKept DEF LedInv
<1>4. ASSUME View, KeysOut' = KeysOut \/ KeysOut' = {}, Ahead(L, "confirm") => Ahead(L', "confirm")
      PROVE  ViewInv'
  BY <1>3, <1>4 DEF ViewInv
<1>5. ASSUME View, KeysOut' = KeysOut \/ KeysOut' = {}, typing'.keypad => typing.keypad,
             "kp1" \in Now(L').arg => led, Pressed
      PROVE  KeypadInv'
  BY <1>3, <1>5 DEF KeypadInv
<1>6. ASSUME target'.text = target.text \/ target'.text = <<>> PROVE NoArrow'
  BY <1>3, <1>6 DEF NoArrow
<1>7. ASSUME L' = L, View, KeysOut' = KeysOut \/ KeysOut' = {}, At("loop")' = "sent" => At("loop") = "sent",
             At("loop")' # "sent" => At("loop") # "sent", typing' = typing, target'.text = target.text
      PROVE  ViewInv' /\ KeypadInv' /\ NoArrow'
  <2>1. Pressed /\ ("kp1" \in Now(L').arg => led)
    BY <1>3, <1>7 DEF KeypadInv
  <2>2. QED
    BY <1>4, <1>5, <1>6, <1>7, <2>1
<1>8. ASSUME View, KeysOut' = KeysOut, Ahead(L, "confirm") => Ahead(L', "confirm"),
             typing'.keypad => typing.keypad, ~First(Now(L')), target'.text = target.text, Good(L')
      PROVE  ViewInv' /\ KeypadInv' /\ NoArrow'
  <2>1. Now(L') \in Steps \/ Now(L') = NoStep
    BY <1>8, HeadNow DEF Good, Now
  <2>2. "numlock" \notin Now(L').arg /\ "kp1" \notin Now(L').arg
    BY <1>8, <2>1, Harmless
  <2>3. QED
    BY <1>4, <1>5, <1>6, <1>8, <2>2
<1> HIDE DEF View, Pressed
<1>9. Has(Rest(L), "confirm") => Ahead(L', "confirm")
  BY Onward DEF Has, Ahead
<1>10. ASSUME NEW t \in Tasks, SeesReady(t) \/ TimesOut(t) PROVE ViewInv' /\ KeypadInv' /\ NoArrow'
  <2>1. /\ UNCHANGED <<deviceVars, script, typing, target>> /\ call[t].phase = "wait"
        /\ \/ call' = [call EXCEPT ![t].phase = "claim"]
           \/ call' = [call EXCEPT ![t].phase = "failed"]
    BY <1>10 DEF SeesReady, TimesOut
  <2>2. call'[t].phase \in {"claim", "failed"} /\ \A u \in Tasks \ {t} : call'[u] = call[u]
    BY <1>1, <2>1 DEF Calls
  <2>3. At("loop")' = "sent" <=> At("loop") = "sent"
    BY <1>1, <2>1, <2>2 DEF At
  <2>4. View /\ KeysOut' = KeysOut /\ L' = L
    BY <2>1 DEF View, KeysOut, L, deviceVars
  <2>5. QED
    BY <1>7, <2>1, <2>3, <2>4
<1>11. ASSUME Claims("loop") PROVE ViewInv' /\ KeypadInv' /\ NoArrow'
  <2>1. /\ UNCHANGED <<led, ledSeen, leds, script, typing, target>> /\ At("loop") = "claim" /\ L' = L
        /\ L # <<>> /\ Now(L) \in Steps
    BY <1>1, <1>11, AtRest DEF Claims, At, L
  <2>2. View
    BY <2>1 DEF View
  <2>3. CASE ~Ready
    <3>1. endpoint' = endpoint /\ call'["loop"] = Retried(call["loop"])
      BY <1>1, <1>11, <2>3, ClaimDown
    <3>2. At("loop")' # "sent"
      BY <1>1, <3>1, RetriedType DEF At, Calls
    <3>3. KeysOut' = KeysOut
      BY <3>1 DEF KeysOut
    <3>4. QED
      BY <1>7, <2>1, <2>2, <3>2, <3>3
  <2>4. CASE Ready
    <3>1. /\ At("loop")' = "sent"
          /\ KeysOut' = {} \/ KeysOut' = Now(L).arg
      BY <1>1, <1>11, <2>4, ClaimDown DEF At, KeysOut, Keys
    <3>2. Pressed
      BY <1>3, <2>1, <3>1 DEF Pressed, KeypadInv
    <3>3. CASE KeysOut' = {}
      BY <1>3, <1>4, <1>5, <1>6, <2>1, <2>2, <3>2, <3>3 DEF KeypadInv
    <3>4. CASE KeysOut' = Now(L).arg
      <4>1. "numlock" \in KeysOut' => ledSeen /\ ~led /\ ~target.numLock /\ Ahead(L, "confirm")
        BY <1>1, <1>3, <2>1, <3>4 DEF KeypadInv, Good, Paired, Ahead
      <4>2. "kp1" \in KeysOut' => led
        BY <1>3, <3>4 DEF KeypadInv
      <4>3. ViewInv'
        BY <1>3, <2>1, <4>1 DEF ViewInv
      <4>4. KeypadInv'
        BY <1>3, <2>1, <3>2, <4>2 DEF KeypadInv, Pressed
      <4>5. QED
        BY <1>6, <2>1, <4>3, <4>4
    <3>5. QED
      BY <3>1, <3>3, <3>4
  <2>5. QED
    BY <2>3, <2>4
<1>12. ASSUME Claims("httpd") PROVE ViewInv' /\ KeypadInv' /\ NoArrow'
  <2>1. /\ UNCHANGED <<led, ledSeen, leds, script, typing, target>> /\ At("httpd") = "claim" /\ L' = L
    BY <1>1, <1>12 DEF Claims, At, L
  <2>2. View
    BY <2>1 DEF View
  <2>3. "loop" \in Tasks \ {"httpd"}
    BY <1>1
  <2>4. At("loop")' = At("loop")
    BY <1>1, <1>12, <2>3, ClaimDown DEF At
  <2>5. KeysOut' = KeysOut \/ KeysOut' = {}
    <3>1. CASE ~Ready
      BY <1>1, <1>12, <3>1, ClaimDown DEF KeysOut
    <3>2. CASE Ready
      <4>1. Now(H) \in {Do("keys", {}), Do("set", {})}
        BY <1>1, <2>1, Known, AtRest
      <4>2. Now(H).arg = {}
        BY <4>1, Telling
      <4>3. QED
        BY <1>1, <1>12, <3>2, <4>2, ClaimDown DEF KeysOut, Keys
    <3>3. QED
      BY <3>1, <3>2
  <2>6. QED
    BY <1>7, <2>1, <2>2, <2>4, <2>5
<1>13. ASSUME KeyCall("loop") PROVE ViewInv' /\ KeypadInv' /\ NoArrow'
  <2>1. /\ UNCHANGED <<deviceVars, script, typing, target>> /\ At("loop") = "none" /\ L # <<>>
        /\ Send("loop", Keys(Now(L).arg))
    BY <1>1, <1>13, Known DEF KeyCall, Busy, At, Head1
  <2>2. Keys(Now(L).arg) \in Reports
    BY <1>1, <2>1, StepFacts, ReportSet
  <2>3. At("loop")' # "sent"
    BY <1>1, <2>1, <2>2, Sent DEF At
  <2>4. View /\ KeysOut' = KeysOut /\ L' = L
    BY <2>1 DEF View, KeysOut, L, deviceVars
  <2>5. QED
    BY <1>7, <2>1, <2>3, <2>4
<1>14. ASSUME NEW r, Send("httpd", r) PROVE At("loop")' = At("loop")
  BY <1>1, <1>14 DEF Send, At
<1>15. ASSUME KeyCall("httpd") \/ MouseCall("httpd") PROVE ViewInv' /\ KeypadInv' /\ NoArrow'
  <2>1. /\ UNCHANGED <<led, ledSeen, leds, endpoint, script, typing, target>>
        /\ At("loop")' = At("loop")
    BY <1>14, <1>15, HttpdMouse DEF KeyCall, MouseCall, deviceVars
  <2>2. View /\ KeysOut' = KeysOut /\ L' = L
    BY <2>1 DEF View, KeysOut, L
  <2>3. QED
    BY <1>7, <2>1, <2>2
<1>16. ASSUME MouseCall("loop") PROVE ViewInv' /\ KeypadInv' /\ NoArrow'
  <2>1. /\ UNCHANGED <<led, ledSeen, leds, endpoint, typing, target>> /\ At("loop") = "none"
        /\ L # <<>> /\ Now(L).op \in MouseOps
    BY <1>16, LoopMouse DEF MouseCall, At
  <2>2. View /\ KeysOut' = KeysOut
    BY <2>1 DEF View, KeysOut
  <2>3. CASE L' = Tail(L)
    <3>1. Ahead(L, "confirm") => Ahead(L', "confirm")
      BY <1>9, <2>1 DEF Ahead, MouseOps
    <3>2. ~First(Now(L')) /\ Good(L')
      BY <1>1, <2>1, <2>3, Passed
    <3>3. QED
      BY <1>8, <2>1, <2>2, <3>1, <3>2
  <2>4. CASE L' = L
    <3>1. "numlock" \notin Now(L).arg /\ "kp1" \notin Now(L).arg
      BY <1>1, <2>1, StepFacts DEF Fitting, MouseOps, Left
    <3>2. Pressed /\ "kp1" \notin Now(L').arg
      BY <2>4, <3>1 DEF Pressed
    <3>3. QED
      BY <1>4, <1>5, <1>6, <2>1, <2>2, <2>4, <3>2
  <2>5. QED
    BY <1>16, <2>3, <2>4, LoopMouse
<1>17. ASSUME Returns("loop") PROVE ViewInv' /\ KeypadInv' /\ NoArrow'
  <2>1. UNCHANGED <<deviceVars, target>>
    BY <1>17 DEF Returns
  <2>2. View /\ KeysOut' = KeysOut
    BY <2>1 DEF View, KeysOut, deviceVars
  <2>3. /\ L # <<>> /\ Now(L) \in Steps /\ At("loop") \in {"sent", "failed"} /\ Good(L')
        /\ \/ L' = Tail(L)
           \/ Now(L).op = "char" /\ L' # <<>> /\ Now(L') = Do("again", Now(L).arg) /\ Rest(L') = Rest(L)
           \/ Now(L).op = "again" /\ ~First(Now(L'))
        /\ typing' = [typing EXCEPT !.queued = @ + 1] \/ typing' = typing
    BY <1>17, LoopReturns DEF At
  <2>4. typing'.keypad = typing.keypad
    BY <1>1, <2>3 DEF Typings
  <2>5. Now(L).op # "confirm"
    BY <1>1, <2>3, Calling DEF At, KeyOps, MouseOps
  <2>6. Ahead(L, "confirm") => Ahead(L', "confirm")
    BY <1>9, <2>5 DEF Ahead
  <2>7. CASE ~First(Now(L'))
    BY <1>8, <2>1, <2>2, <2>3, <2>4, <2>6, <2>7
  <2>8. CASE L' = Tail(L)
    BY <1>1, <2>3, <2>7, <2>8, Passed
  <2>9. CASE Now(L).op = "char" /\ Now(L') = Do("again", Now(L).arg)
    <3>1. Now(L').arg = Now(L).arg
      BY <2>9 DEF Do
    <3>2. "numlock" \notin Now(L).arg
      <4>1. Fitting(Now(L)) /\ Strike(Now(L))
        BY <1>1, <2>3, <2>9, StepFacts DEF Strike
      <4>2. PICK k \in Chars : Now(L).arg = {k}
        BY <4>1 DEF Fitting
      <4>3. QED
        BY <4>2 DEF Chars
    <3>3. Pressed /\ ("kp1" \in Now(L').arg => led)
      BY <1>3, <3>1, <3>2 DEF Pressed, KeypadInv
    <3>4. QED
      BY <1>4, <1>5, <1>6, <2>1, <2>2, <2>4, <2>6, <3>3
  <2>10. QED
    BY <2>3, <2>7, <2>8, <2>9
<1>18. ASSUME Returns("httpd") PROVE ViewInv' /\ KeypadInv' /\ NoArrow'
  <2>1. UNCHANGED <<deviceVars, typing, target>> /\ L' = L /\ call' = [call EXCEPT !["httpd"] = NoCall]
    BY <1>18, HttpdReturns DEF Returns
  <2>2. View /\ KeysOut' = KeysOut /\ At("loop")' = At("loop")
    BY <1>1, <2>1 DEF View, KeysOut, At, deviceVars
  <2>3. QED
    BY <1>7, <2>1, <2>2
<1>19. ASSUME Expand PROVE ViewInv' /\ KeypadInv' /\ NoArrow'
  <2>1. UNCHANGED <<deviceVars, typing, target>> /\ call' = call
    BY <1>19 DEF Expand
  <2>2. View /\ KeysOut' = KeysOut
    BY <2>1 DEF View, KeysOut, deviceVars
  <2>3. /\ L # <<>> /\ Now(L).op \in {"click", "press", "retry"} /\ At("loop") = "none" /\ Good(L')
        /\ \/ L' = Tail(L)
           \/ Now(L') = Do("set", {"left"})
           \/ Now(L') = Do("press", {"enter"})
           \/ Now(L).op = "press" /\ Now(L') = Do("keys", Now(L).arg)
    BY <1>19, ExpandScript DEF At
  <2>4. Ahead(L, "confirm") => Ahead(L', "confirm")
    BY <1>9, <2>3 DEF Ahead
  <2>5. CASE L' = Tail(L)
    <3>1. ~First(Now(L'))
      BY <1>1, <2>3, <2>5, Passed
    <3>2. QED
      BY <1>8, <2>1, <2>2, <2>3, <2>4, <3>1
  <2>6. CASE Now(L') = Do("set", {"left"}) \/ Now(L') = Do("press", {"enter"})
    <3>1. "numlock" \notin Now(L').arg /\ "kp1" \notin Now(L').arg
      BY <2>6 DEF Do
    <3>2. Pressed
      BY <3>1 DEF Pressed
    <3>3. QED
      BY <1>4, <1>5, <1>6, <2>1, <2>2, <2>4, <3>1, <3>2
  <2>7. CASE Now(L).op = "press" /\ Now(L') = Do("keys", Now(L).arg)
    <3>1. Now(L').arg = Now(L).arg /\ At("loop") # "sent"
      BY <2>3, <2>7 DEF Do
    <3>2. Pressed /\ ("kp1" \in Now(L').arg => led)
      <4>1. "numlock" \in Now(L).arg => ledSeen /\ ~led /\ ~target.numLock /\ "numlock" \notin KeysOut
        BY <1>3, <3>1 DEF KeypadInv
      <4>2. "kp1" \in Now(L).arg => led
        BY <1>3 DEF KeypadInv
      <4>3. QED
        BY <2>2, <3>1, <4>1, <4>2 DEF Pressed, View
    <3>3. QED
      BY <1>4, <1>5, <1>6, <2>1, <2>2, <2>4, <3>2
  <2>8. QED
    BY <2>3, <2>5, <2>6, <2>7
<1>20. ASSUME Type PROVE ViewInv' /\ KeypadInv' /\ NoArrow'
  <2>1. UNCHANGED <<deviceVars, target>>
    BY <1>20 DEF Type
  <2>2. View /\ KeysOut' = KeysOut
    BY <2>1 DEF View, KeysOut, deviceVars
  <2>3. typing'.keypad = typing.keypad
    BY <1>1, <1>20 DEF Type, Typings
  <2>4. /\ L # <<>> /\ Now(L).op = "type" /\ Good(L') /\ (L' = Tail(L) \/ Now(L').op = "next")
    BY <1>20, TypeScript DEF Do
  <2>5. ~First(Now(L'))
    <3>1. CASE L' = Tail(L)
      BY <1>1, <2>4, <3>1, Passed
    <3>2. CASE Now(L').op = "next"
      BY <3>2 DEF First, Down, Strike
    <3>3. QED
      BY <2>4, <3>1, <3>2
  <2>6. Ahead(L, "confirm") => Ahead(L', "confirm")
    BY <1>9, <2>4 DEF Ahead
  <2>7. QED
    BY <1>8, <2>1, <2>2, <2>3, <2>4, <2>5, <2>6
<1>21. ASSUME NextChar PROVE ViewInv' /\ KeypadInv' /\ NoArrow'
  <2> DEFINE c == typing.text[typing.at + 1]
  <2>1. UNCHANGED <<deviceVars, target>>
    BY <1>21 DEF NextChar
  <2>2. View /\ KeysOut' = KeysOut
    BY <2>1 DEF View, KeysOut, deviceVars
  <2>3. typing'.keypad = typing.keypad
    BY <1>1, <1>21 DEF NextChar, Typings
  <2>4. /\ L # <<>> /\ Now(L).op = "next" /\ Good(L')
        /\ \/ L' = Tail(L) \/ Now(L').op = "next"
           \/ typing.at < Len(typing.text) /\ c \in Chars /\ Now(L').arg = {Channel(c)}
    BY <1>21, NextCharScript DEF Do
  <2>5. Ahead(L, "confirm") => Ahead(L', "confirm")
    BY <1>9, <2>4 DEF Ahead
  <2>6. CASE L' = Tail(L) \/ Now(L').op = "next"
    <3>1. ~First(Now(L'))
      <4>1. CASE L' = Tail(L)
        BY <1>1, <2>4, <4>1, Passed
      <4>2. CASE Now(L').op = "next"
        BY <4>2 DEF First, Down, Strike
      <4>3. QED
        BY <2>6, <4>1, <4>2
    <3>2. QED
      BY <1>8, <2>1, <2>2, <2>3, <2>4, <2>5, <3>1
  <2>7. CASE typing.at < Len(typing.text) /\ c \in Chars /\ Now(L').arg = {Channel(c)}
    <3>1. c \in Symbols
      <4>1. typing.text \in Seq(Symbols) /\ typing.at \in Nat
        BY <1>1 DEF Typings
      <4>2. typing.at + 1 \in 1 .. Len(typing.text)
        BY <2>7, <4>1
      <4>3. QED
        BY <4>1, <4>2
    <3>2. Channel(c) \in Chars /\ (Channel(c) = "kp1" => typing.keypad)
      BY <2>7, <3>1 DEF Channel, Symbols, Chars
    <3>3. "numlock" \notin Now(L').arg /\ ("kp1" \in Now(L').arg => led)
      BY <1>3, <2>7, <3>2 DEF KeypadInv, Chars
    <3>4. Pressed
      BY <3>3 DEF Pressed
    <3>5. QED
      BY <1>4, <1>5, <1>6, <2>1, <2>2, <2>3, <2>5, <3>3, <3>4
  <2>8. QED
    BY <2>4, <2>6, <2>7
<1>22. ASSUME NumLock PROVE ViewInv' /\ KeypadInv' /\ NoArrow'
  <2>1. UNCHANGED <<deviceVars, target>>
    BY <1>22 DEF NumLock
  <2>2. View /\ KeysOut' = KeysOut
    BY <2>1 DEF View, KeysOut, deviceVars
  <2>3. L # <<>> /\ Good(L') /\ (Now(L).op = "numlock" => ~Has(Rest(L), "confirm"))
        /\ Now(L).op \in {"numlock", "confirm"} /\ At("loop") = "none"
    BY <1>22, NumLockScript DEF At
  <2>4. \/ L' = Tail(L) /\ typing' = typing /\ Now(L).op = "numlock"
        \/ L' = Tail(L) /\ led /\ typing' = [typing EXCEPT !.keypad = TRUE]
        \/ /\ ledSeen /\ ~led /\ Now(L).op = "numlock" /\ typing' = typing
           /\ L' # <<>> /\ Now(L') = Do("press", {"numlock"})
           /\ Rest(L') = {Do("confirm", {})} \cup Rest(L)
    BY <1>22, NumLockScript
  <2>5. L' = Tail(L) => ~First(Now(L'))
    BY <1>1, <2>3, Passed
  <2>6. CASE L' = Tail(L) /\ typing' = typing /\ Now(L).op = "numlock"
    <3>1. ~Ahead(L, "confirm")
      BY <2>3, <2>6 DEF Ahead
    <3>2. QED
      BY <1>8, <2>1, <2>2, <2>3, <2>5, <2>6, <3>1
  <2>7. CASE L' = Tail(L) /\ led /\ typing' = [typing EXCEPT !.keypad = TRUE]
    <3>1. Now(L') \in Steps \/ Now(L') = NoStep
      BY <2>3, HeadNow DEF Good, Now
    <3>2. "numlock" \notin Now(L').arg /\ "kp1" \notin Now(L').arg
      BY <2>5, <2>7, <3>1, Harmless
    <3>3. ViewInv'
      BY <1>3, <2>2, <2>7 DEF ViewInv, View
    <3>4. KeypadInv'
      BY <1>3, <2>2, <2>7, <3>2 DEF KeypadInv, View
    <3>5. QED
      BY <1>6, <2>1, <3>3, <3>4
  <2>8. CASE /\ ledSeen /\ ~led /\ Now(L).op = "numlock" /\ typing' = typing
             /\ L' # <<>> /\ Now(L') = Do("press", {"numlock"})
             /\ Rest(L') = {Do("confirm", {})} \cup Rest(L)
    <3>1. ~Ahead(L, "confirm") /\ "kp1" \notin Now(L').arg
      BY <2>3, <2>8 DEF Ahead, Do
    <3>2. ~target.numLock /\ "numlock" \notin KeysOut
      BY <1>3, <2>8, <3>1 DEF ViewInv
    <3>3. Pressed
      BY <2>2, <2>8, <3>2 DEF Pressed, View
    <3>4. QED
      BY <1>4, <1>5, <1>6, <2>1, <2>2, <2>8, <3>1, <3>3
  <2>9. QED
    BY <2>4, <2>6, <2>7, <2>8
<1>23. ASSUME Report PROVE ViewInv' /\ KeypadInv' /\ NoArrow'
  <2>1. UNCHANGED <<deviceVars, target>>
    BY <1>23 DEF Report
  <2>2. View /\ KeysOut' = KeysOut
    BY <2>1 DEF View, KeysOut, deviceVars
  <2>3. typing'.keypad = typing.keypad
    BY <1>1, <1>23 DEF Report, Typings
  <2>4. /\ L # <<>> /\ Now(L).op = "report" /\ Good(L') /\ L' = Tail(L) /\ Rest(L) = {}
    BY <1>23, ReportScript
  <2>5. ~First(Now(L')) /\ ~Ahead(L, "confirm")
    BY <1>1, <2>4, Passed DEF Ahead, Has
  <2>6. QED
    BY <1>8, <2>1, <2>2, <2>3, <2>4, <2>5
<1>24. L = <<>> => ~Ahead(L, "confirm")
  BY EmptyGood DEF Ahead, Has, NoStep, Do
<1>25. ASSUME StartAction PROVE ViewInv' /\ KeypadInv' /\ NoArrow'
  <2>1. UNCHANGED deviceVars /\ target' = [target EXCEPT !.text = <<>>]
    BY <1>25 DEF StartAction
  <2>2. View /\ KeysOut' = KeysOut /\ target'.text = <<>>
    BY <1>1, <2>1 DEF View, KeysOut, deviceVars, Targets
  <2>3. PICK text \in Seq(Symbols) : typing' = [NoText EXCEPT !.text = text]
    BY <1>25, StartScript
  <2>4. ~typing'.keypad
    BY <2>3 DEF NoText
  <2>5. L = <<>> /\ "numlock" \notin Now(L').arg /\ "kp1" \notin Now(L').arg
    BY <1>25, StartScript
  <2>6. Pressed
    BY <2>5 DEF Pressed
  <2>7. QED
    BY <1>4, <1>5, <1>6, <1>24, <2>2, <2>4, <2>5, <2>6
<1>26. ASSUME EndAction PROVE ViewInv' /\ KeypadInv' /\ NoArrow'
  <2>1. UNCHANGED deviceVars /\ target' = [target EXCEPT !.text = <<>>] /\ typing' = NoText /\ L' = L /\ L = <<>>
    BY <1>26 DEF EndAction, L
  <2>2. View /\ KeysOut' = KeysOut /\ target'.text = <<>> /\ ~typing'.keypad
    BY <1>1, <2>1 DEF View, KeysOut, deviceVars, Targets, NoText
  <2>3. "numlock" \notin Now(L').arg /\ "kp1" \notin Now(L').arg
    BY <2>1 DEF Now, NoStep, Do
  <2>4. Pressed
    BY <2>3 DEF Pressed
  <2>5. QED
    BY <1>4, <1>5, <1>6, <2>1, <2>2, <2>3, <2>4
<1>27. ASSUME LoopTop PROVE ViewInv' /\ KeypadInv' /\ NoArrow'
  <2>1. UNCHANGED <<deviceVars, typing, target>> /\ L = <<>>
    BY <1>27 DEF LoopTop, L
  <2>2. View /\ KeysOut' = KeysOut
    BY <2>1 DEF View, KeysOut, deviceVars
  <2>3. L' = <<>> \/ L' = ReleaseAll
    BY <1>1, <1>27, <2>1 DEF LoopTop, AbortScript, L
  <2>4. Now(L').arg = {}
    BY <2>3 DEF Now, ReleaseAll, NoStep, Do
  <2>5. Pressed /\ "kp1" \notin Now(L').arg
    BY <2>4 DEF Pressed
  <2>6. QED
    BY <1>4, <1>5, <1>6, <1>24, <2>1, <2>2, <2>5
<1>28. ASSUME Emergency \/ EndBatch \/ Replug \/ UNCHANGED vars PROVE ViewInv' /\ KeypadInv' /\ NoArrow'
  <2>1. UNCHANGED <<led, ledSeen, leds, endpoint, typing, target, call>> /\ L' = L
    BY <1>1, <1>28 DEF Emergency, EndBatch, Replug, vars, deviceVars, taskVars, L
  <2>2. View /\ KeysOut' = KeysOut /\ At("loop")' = At("loop")
    BY <2>1 DEF View, KeysOut, At
  <2>3. QED
    BY <1>7, <2>1, <2>2
<1>29. ASSUME Poll PROVE ViewInv' /\ KeypadInv' /\ NoArrow'
  <2>1. UNCHANGED <<led, ledSeen, script, call, typing>> /\ L' = L /\ endpoint' = NoReport
    BY <1>29 DEF Poll, taskVars, L
  <2>2. KeysOut' = {} /\ At("loop")' = At("loop")
    BY <2>1 DEF KeysOut, NoReport, At
  <2>3. CASE endpoint.kind = "mouse"
    <3>1. target'.text = target.text /\ View
      BY <1>29, <2>1, <2>3, PollFacts DEF View
    <3>2. QED
      BY <1>7, <2>1, <2>2, <3>1
  <2>4. CASE endpoint.kind = "keys"
    <3> DEFINE new == endpoint.down \ target.keys
               key == CHOOSE c \in new : TRUE
    <3>1. /\ target'.text = IF new \cap Chars # {} /\ endpoint.down \subseteq Chars
                            THEN Append(target.text, Symbol(key)) ELSE target.text
          /\ target'.numLock = IF "numlock" \in new THEN ~target.numLock ELSE target.numLock
          /\ leds' = IF "numlock" \in new THEN Append(leds, ~target.numLock) ELSE leds
      BY <1>29, <2>4, PollFacts
    <3>2. KeysOut = endpoint.down
      BY <2>4 DEF KeysOut
    <3>3. new # {} => key \in new
      OBVIOUS
    <3> HIDE DEF key
    <3>4. CASE "numlock" \in new
      <4>1. ledSeen /\ ~led /\ ~target.numLock /\ Ahead(L, "confirm") /\ leds = <<>> /\ ~typing.keypad
        BY <1>3, <3>2, <3>4 DEF ViewInv, KeypadInv
      <4>2. target'.numLock = TRUE /\ leds' = Append(<<>>, TRUE) /\ target'.text = target.text
        <5>1. "numlock" \notin Chars
          BY DEF Chars
        <5>2. (~target.numLock) = TRUE
          BY <4>1
        <5>3. QED
          BY <3>1, <3>4, <4>1, <5>1, <5>2
      <4>3. leds' = <<TRUE>>
        BY <4>2
      <4>4. ViewInv'
        BY <2>1, <2>2, <4>1, <4>2, <4>3 DEF ViewInv
      <4>5. "numlock" \in Now(L).arg => ledSeen /\ At("loop") = "sent"
        BY <1>3, <3>2, <3>4 DEF KeypadInv
      <4>6. "kp1" \notin Now(L).arg
        BY <1>3, <4>1 DEF KeypadInv
      <4>7. KeypadInv'
        BY <2>1, <2>2, <4>1, <4>5, <4>6 DEF KeypadInv
      <4>8. QED
        BY <1>6, <4>2, <4>4, <4>7
    <3>5. CASE "numlock" \notin new
      <4>1. View
        BY <2>1, <3>1, <3>5 DEF View
      <4>2. ViewInv' /\ KeypadInv'
        <5>1. Pressed /\ ("kp1" \in Now(L').arg => led)
          BY <1>3, <2>1, <2>2, <4>1 DEF Pressed, KeypadInv, View
        <5>2. QED
          BY <1>4, <1>5, <2>1, <2>2, <4>1, <5>1
      <4>3. NoArrow'
        <5>1. CASE target'.text = target.text
          BY <1>6, <5>1
        <5>2. CASE new \cap Chars # {} /\ endpoint.down \subseteq Chars
                   /\ target'.text = Append(target.text, Symbol(key))
          <6>1. key \in Chars /\ key \in KeysOut
            BY <3>2, <3>3, <5>2
          <6>2. key = "kp1" => target.numLock
            BY <1>3, <6>1 DEF KeypadInv, ViewInv
          <6>3. Symbol(key) # "arrow"
            BY <6>1, <6>2 DEF Symbol, Chars
          <6>4. Symbol(key) \in Marks
            BY <6>1 DEF Symbol, Chars, Marks, Keyboard
          <6>5. \A i \in DOMAIN target'.text : \/ i \in DOMAIN target.text /\ target'.text[i] = target.text[i]
                                               \/ target'.text[i] = Symbol(key)
            <7>1. ASSUME NEW q \in Seq(Marks), NEW x \in Marks, NEW i \in DOMAIN Append(q, x)
                  PROVE  (i \in DOMAIN q /\ Append(q, x)[i] = q[i]) \/ Append(q, x)[i] = x
              OBVIOUS
            <7>2. QED
              BY <1>1, <5>2, <6>4, <7>1
          <6>6. QED
            BY <1>3, <6>3, <6>5 DEF NoArrow
        <5>3. QED
          BY <3>1, <5>1, <5>2
      <4>4. QED
        BY <4>2, <4>3
    <3>6. QED
      BY <3>4, <3>5
  <2>5. QED
    BY <1>29, <2>3, <2>4, PollFacts
<1>30. ASSUME LedReport PROVE ViewInv' /\ KeypadInv' /\ NoArrow'
  <2>1. /\ UNCHANGED <<endpoint, script, call, typing, target>> /\ L' = L
        /\ leds # <<>> /\ led' = Head(leds) /\ leds' = Tail(leds) /\ ledSeen' = TRUE
    BY <1>30 DEF LedReport, taskVars, L
  <2>2. KeysOut' = KeysOut /\ At("loop")' = At("loop")
    BY <2>1 DEF KeysOut, At
  <2>3. /\ Head(<<FALSE>>) = FALSE /\ Tail(<<FALSE>>) = <<>>
        /\ Head(<<TRUE>>) = TRUE /\ Tail(<<TRUE>>) = <<>>
    <3>1. \A b : Head(<<b>>) = b /\ Tail(<<b>>) = <<>>
      OBVIOUS
    <3>2. Head(<<FALSE>>) = FALSE /\ Tail(<<FALSE>>) = <<>>
      BY <3>1, Zenon
    <3>3. Head(<<TRUE>>) = TRUE /\ Tail(<<TRUE>>) = <<>>
      BY <3>1, Zenon
    <3>4. QED
      BY <3>2, <3>3
  <2>4. CASE ~ledSeen
    <3>1. leds = <<FALSE>> /\ ~led /\ ~target.numLock /\ "numlock" \notin KeysOut
      BY <1>3, <2>1, <2>4 DEF ViewInv
    <3>2. led' = FALSE /\ leds' = <<>>
      BY <2>1, <2>3, <3>1
    <3>3. "numlock" \notin Now(L).arg /\ ~typing.keypad /\ "kp1" \notin Now(L).arg /\ "kp1" \notin KeysOut
      BY <1>3, <2>4, <3>1 DEF KeypadInv
    <3>4. ViewInv'
      BY <2>1, <2>2, <3>1, <3>2 DEF ViewInv
    <3>5. KeypadInv'
      BY <2>1, <2>2, <3>3 DEF KeypadInv
    <3>6. QED
      BY <1>6, <2>1, <3>4, <3>5
  <2>5. CASE ledSeen
    <3>1. ~led /\ target.numLock /\ leds = <<TRUE>>
      BY <1>3, <2>1, <2>5 DEF ViewInv
    <3>2. led' = TRUE /\ leds' = <<>>
      BY <2>1, <2>3, <3>1
    <3>3. "numlock" \notin KeysOut /\ ("numlock" \in Now(L).arg => At("loop") = "sent")
      BY <1>3, <3>1 DEF KeypadInv, ViewInv
    <3>4. ViewInv'
      BY <2>1, <2>2, <3>1, <3>2, <3>3 DEF ViewInv
    <3>5. KeypadInv'
      BY <2>1, <2>2, <3>2, <3>3 DEF KeypadInv
    <3>6. QED
      BY <1>6, <2>1, <3>4, <3>5
  <2>6. QED
    BY <1>1, <2>4, <2>5
<1>31. ASSUME Configure PROVE ViewInv' /\ KeypadInv' /\ NoArrow'
  <2>1. /\ UNCHANGED <<endpoint, ledSeen, led, script, call, typing, target>> /\ L' = L
        /\ ~ledSeen /\ leds' = <<target.numLock>>
    BY <1>31 DEF Configure, taskVars, L
  <2>2. KeysOut' = KeysOut /\ At("loop")' = At("loop")
    BY <2>1 DEF KeysOut, At
  <2>3. target.numLock = FALSE
    BY <1>1, <1>3, <2>1 DEF ViewInv
  <2>4. leds' = <<FALSE>>
    BY <2>1, <2>3
  <2>5. ViewInv'
    BY <1>3, <2>1, <2>2, <2>4 DEF ViewInv
  <2>6. KeypadInv'
    BY <1>3, <2>1, <2>2 DEF KeypadInv
  <2>7. QED
    BY <1>6, <2>1, <2>5, <2>6
<1>32. ASSUME Unplug PROVE ViewInv' /\ KeypadInv' /\ NoArrow'
  <2>1. /\ UNCHANGED <<ledSeen, led, script, call, typing>> /\ L' = L /\ endpoint' = NoReport
        /\ leds' = <<>> /\ target' = FreshTarget
    BY <1>32 DEF Unplug, taskVars, L
  <2>2. ~ledSeen
    BY <1>32 DEF Unplug
  <2>3. KeysOut' = {} /\ target'.numLock = FALSE /\ target'.text = <<>>
    BY <2>1 DEF KeysOut, NoReport, FreshTarget
  <2>4. ~led
    BY <1>3, <2>2 DEF ViewInv
  <2>5. "numlock" \notin Now(L).arg /\ ~typing.keypad /\ "kp1" \notin Now(L).arg
    BY <1>3, <2>2, <2>4 DEF KeypadInv
  <2>6. ViewInv'
    BY <2>1, <2>2, <2>3, <2>4 DEF ViewInv
  <2>7. KeypadInv'
    BY <2>1, <2>3, <2>5 DEF KeypadInv
  <2>8. QED
    BY <1>6, <2>3, <2>6, <2>7
<1>33. QED
  BY <1>10, <1>11, <1>12, <1>13, <1>15, <1>16, <1>17, <1>18, <1>19, <1>20, <1>21, <1>22, <1>23, <1>25,
     <1>26, <1>27, <1>28, <1>29, <1>30, <1>31, <1>32 DEF Next, Loop, Sending, Target, Tasks

-----------------------------------------------------------------------------
(* Typing: what the target received.                                       *)

(* A key of a character is in the endpoint, or at hand and not sent yet.   *)
Flying  == endpoint.kind = "keys" /\ endpoint.down # {} /\ endpoint.down \subseteq Chars
Pending == Flying \/ (Strike(Now(L)) /\ At("loop") # "sent")

(* Nothing was lost so far, and every character the loop has passed is     *)
(* queued or at hand.                                                      *)
Clear     == ~dropped /\ ~gaveUp /\ "text" \notin stale /\ "led" \notin stale /\ pc = "action"
Counts(c) == IF Strike(c) THEN 1 ELSE 0
Counting  == typing.queued + Counts(Now(L)) = typing.at

(* Then the target has the text up to the character the loop is at.        *)
Matches ==
  /\ Len(target.text) = IF Pending THEN typing.at - 1 ELSE typing.at
  /\ \A i \in 1 .. Len(target.text) : target.text[i] = typing.text[i]
  /\ Flying => /\ typing.at > 0 /\ target.keys = {}
               /\ endpoint.down = {Key(typing.text[typing.at], typing.keypad)}

TextInv == Clear /\ Counting => Matches

(* What was lost stays lost until the next action. *)
LEMMA ClearKept == ASSUME Basic, [Next]_vars PROVE Clear' => Clear \/ StartAction
<1>1. Clear' => ~dropped' /\ ~gaveUp' /\ "text" \notin stale' /\ "led" \notin stale' /\ pc' = "action"
  BY DEF Clear
<1>2. gaveUp => gaveUp'
  BY DEF Next, Loop, Sending, Target, SeesReady, TimesOut, Claims, MouseCall, KeyCall, Returns, Expand,
         Type, NextChar, NumLock, StartAction, Report, EndAction, EndBatch, LoopTop, Emergency, Poll,
         LedReport, Configure, Unplug, Replug, vars, histVars
<1>3. pc' = "action" => pc = "action" \/ StartAction
  BY DEF Next, Loop, Sending, Target, SeesReady, TimesOut, Claims, MouseCall, KeyCall, Returns, Expand,
         Type, NextChar, NumLock, Report, EndAction, EndBatch, LoopTop, Emergency, Poll,
         LedReport, Configure, Unplug, Replug, vars, taskVars
<1>4. pc = "action" /\ dropped => dropped'
  BY DEF Next, Loop, Sending, Target, SeesReady, TimesOut, Claims, MouseCall, KeyCall, Returns, Expand,
         Type, NextChar, NumLock, StartAction, Report, EndAction, EndBatch, LoopTop, Emergency, Poll,
         LedReport, Configure, Unplug, Replug, vars
<1>5. QED
  BY <1>1, <1>2, <1>3, <1>4, StaleKept DEF Clear

(* A key in the endpoint is that of the call just made, or of the one      *)
(* before the release at hand.                                             *)
LEMMA FlyingAt ==
  ASSUME Basic, KeysInv, Flying, ~dropped
  PROVE  /\ pc = "action" => (Down(Now(L)) /\ At("loop") = "sent") \/ (Up(Now(L)) /\ At("loop") # "sent")
         /\ pc # "batch"
<1>1. KeysDown # {}
  BY DEF Flying, KeysDown
<1>2. QED
  BY <1>1 DEF KeysInv

(* A chord is not a character, and the key of a character is a key. *)
LEMMA CharKey ==
  /\ \A k \in Chords : ~(k \subseteq Chars)
  /\ \A c \in Chars : \A b \in BOOLEAN : Key(c, b) \in Chars
BY DEF Chords, Chars, Key

(* What the target makes of the key of a character. *)
LEMMA KeySymbol ==
  ASSUME NEW c \in Symbols, NEW b \in BOOLEAN, b => target.numLock
  PROVE  Symbol(Key(c, b)) = c
BY DEF Symbols, Key, Symbol

(* Every step keeps the text of the target what was typed so far. *)
LEMMA TextStep ==
  ASSUME Basic, KeysInv, QueueInv, LedInv, TextInv, [Next]_vars
  PROVE  TextInv'
<1> SUFFICES ASSUME Clear', Counting' PROVE Matches'
  BY DEF TextInv
<1> DEFINE Same == /\ endpoint' = endpoint /\ target'.text = target.text /\ target'.keys = target.keys
                   /\ typing'.text = typing.text /\ typing'.at = typing.at
                   /\ typing'.queued = typing.queued /\ typing'.keypad = typing.keypad
           Open2 == At("loop")' # "sent" <=> At("loop") # "sent"
<1>1. /\ script \in [Tasks -> Seq(Steps)] /\ call \in [Tasks -> Calls] /\ Good(L)
      /\ "loop" \in Tasks /\ "httpd" \in Tasks /\ Tasks = {"loop", "httpd"}
      /\ script["loop"] = L /\ script["httpd"] = H
      /\ endpoint \in Reports /\ target \in Targets /\ target.text \in Seq(Marks) /\ Len(target.text) \in Nat
      /\ typing \in Typings /\ typing.text \in Seq(Symbols) /\ Len(typing.text) \in Nat
      /\ typing.queued \in Nat /\ typing.at \in Nat /\ typing.len \in Nat /\ typing.keypad \in BOOLEAN
      /\ L # <<>> => Now(L) \in Steps
  BY Known DEF L, H, Basic, TypeInv, Targets, Typings
<1>2. Clear' => Clear \/ StartAction
  BY ClearKept
<1>3. \A c : (Strike(c) => Counts(c) = 1) /\ (~Strike(c) => Counts(c) = 0)
  BY DEF Counts
<1>4. Clear /\ Flying => (Down(Now(L)) /\ At("loop") = "sent") \/ (Up(Now(L)) /\ At("loop") # "sent")
  BY FlyingAt DEF Clear
<1>5. Clear /\ Counting => Matches
  BY DEF TextInv
<1>6. ASSUME Clear, Same, Strike(Now(L')) <=> Strike(Now(L)), Strike(Now(L)) => Open2 PROVE Matches'
  <2>1. Counting
    BY <1>3, <1>6 DEF Counting
  <2>2. Matches
    BY <1>5, <1>6, <2>1
  <2>3. (Flying' <=> Flying) /\ (Pending' <=> Pending)
    BY <1>6 DEF Flying, Pending
  <2>4. QED
    BY <1>6, <2>2, <2>3 DEF Matches
<1> HIDE DEF Same, Open2
<1>7. L # <<>> => ~Strike(Now(Tail(L)))
  BY <1>1, Passed DEF First, Down
<1>8. ASSUME NEW t \in Tasks, SeesReady(t) \/ TimesOut(t) PROVE Matches'
  <2>1. ~StartAction /\ ~TimesOut(t)
    BY <1>8 DEF StartAction, SeesReady, TimesOut, Clear
  <2>2. /\ UNCHANGED <<endpoint, typing, target>> /\ L' = L
        /\ call[t].phase = "wait" /\ call' = [call EXCEPT ![t].phase = "claim"]
    BY <1>8, <2>1 DEF SeesReady, deviceVars, L
  <2>3. call'[t].phase = "claim" /\ \A u \in Tasks \ {t} : call'[u] = call[u]
    BY <1>1, <2>2 DEF Calls
  <2>4. Open2
    BY <1>1, <2>2, <2>3 DEF Open2, At
  <2>5. Same
    BY <2>2 DEF Same
  <2>6. QED
    BY <1>2, <1>6, <2>1, <2>2, <2>4, <2>5
<1>9. ASSUME Claims("loop") PROVE Matches'
  <2>1. /\ UNCHANGED <<typing, target>> /\ L' = L /\ pc' = pc /\ At("loop") = "claim" /\ Clear
    BY <1>2, <1>9 DEF Claims, At, L, StartAction
  <2>2. CASE ~Ready
    <3>1. endpoint' = endpoint /\ call'["loop"] = Retried(call["loop"])
      BY <1>1, <1>9, <2>2, ClaimDown
    <3>2. At("loop")' # "sent"
      BY <1>1, <3>1, RetriedType DEF At, Calls
    <3>3. Open2 /\ Same
      BY <2>1, <3>1, <3>2 DEF Open2, Same
    <3>4. QED
      BY <1>6, <2>1, <3>3
  <2>3. CASE Ready
    <3>1. /\ endpoint = NoReport /\ At("loop")' = "sent"
          /\ \/ Now(L).op \in KeyOps /\ endpoint' = Keys(Now(L).arg)
             \/ Now(L).op \in MouseOps /\ endpoint'.kind = "mouse"
      BY <1>1, <1>9, <2>3, ClaimDown DEF At
    <3>2. ~Flying
      BY <3>1 DEF Flying, NoReport
    <3>3. Counting /\ Matches
      BY <1>5, <2>1 DEF Counting
    <3>4. CASE Strike(Now(L))
      <4>1. /\ typing.queued < typing.at /\ typing.text[typing.at] \in Chars
            /\ Now(L).arg = {Key(typing.text[typing.at], typing.keypad)}
        BY <3>4 DEF QueueInv
      <4>2. Key(typing.text[typing.at], typing.keypad) \in Chars
        BY <1>1, <4>1, CharKey
      <4>3. endpoint' = Keys(Now(L).arg)
        BY <3>1, <3>4 DEF Strike, MouseOps
      <4>4. Flying' /\ endpoint'.down = {Key(typing'.text[typing'.at], typing'.keypad)}
        BY <2>1, <4>1, <4>2, <4>3 DEF Flying, Keys
      <4>5. target.keys = {}
        <5>1. KeysDown = target.keys
          BY <3>1 DEF KeysDown, NoReport
        <5>2. ~Up(Now(L))
          BY <3>4, Telling
        <5>3. QED
          BY <2>1, <5>1, <5>2 DEF KeysInv, Clear
      <4>6. Pending /\ Pending'
        BY <2>1, <3>4, <4>4 DEF Pending
      <4>7. typing.at > 0
        BY <1>1, <4>1
      <4>8. QED
        BY <2>1, <3>3, <4>4, <4>5, <4>6, <4>7 DEF Matches
    <3>5. CASE ~Strike(Now(L))
      <4>1. ~Flying'
        <5>1. CASE Now(L).op \in KeyOps /\ endpoint' = Keys(Now(L).arg)
          <6>1. Now(L) \in Steps
            BY <1>1, <1>9, AtRest, <2>1
          <6>2. Now(L).arg = {} \/ Now(L).arg \in Chords
            BY <3>5, <5>1, <6>1, StepFacts DEF Fitting, KeyOps, Strike
          <6>3. QED
            BY <5>1, <6>2, CharKey DEF Flying, Keys
        <5>2. CASE endpoint'.kind = "mouse"
          BY <5>2 DEF Flying
        <5>3. QED
          BY <3>1, <5>1, <5>2
      <4>2. ~Pending /\ ~Pending'
        BY <2>1, <3>2, <3>5, <4>1 DEF Pending
      <4>3. QED
        BY <2>1, <3>3, <4>1, <4>2 DEF Matches
    <3>6. QED
      BY <3>4, <3>5
  <2>4. QED
    BY <2>2, <2>3
<1>10. ASSUME Claims("httpd") PROVE Matches'
  <2>1. UNCHANGED <<typing, target>> /\ L' = L /\ pc' = pc /\ At("httpd") = "claim" /\ Clear
    BY <1>2, <1>10 DEF Claims, At, L, StartAction
  <2>2. "loop" \in Tasks \ {"httpd"}
    BY <1>1
  <2>3. At("loop")' = At("loop")
    BY <1>1, <1>10, <2>2, ClaimDown DEF At
  <2>4. CASE ~Ready
    <3>1. endpoint' = endpoint
      BY <1>1, <1>10, <2>4, ClaimDown
    <3>2. Open2 /\ Same
      BY <2>1, <2>3, <3>1 DEF Open2, Same
    <3>3. QED
      BY <1>6, <2>1, <3>2
  <2>5. CASE Ready
    <3>1. Now(H) \in {Do("keys", {}), Do("set", {})}
      BY <1>1, <2>1, Known, AtRest
    <3>2. Now(H).arg = {}
      BY <3>1, Telling
    <3>3. ~Flying /\ ~Flying'
      BY <1>1, <1>10, <2>5, <3>2, ClaimDown DEF Flying, Keys, NoReport
    <3>4. Pending' <=> Pending
      BY <2>1, <2>3, <3>3 DEF Pending
    <3>5. Counting /\ Matches
      BY <1>5, <2>1 DEF Counting
    <3>6. QED
      BY <2>1, <3>3, <3>4, <3>5 DEF Matches
  <2>6. QED
    BY <2>4, <2>5
<1>11. ASSUME KeyCall("loop") PROVE Matches'
  <2>1. /\ UNCHANGED <<endpoint, typing, target>> /\ L' = L /\ Clear /\ At("loop") = "none" /\ L # <<>>
        /\ Send("loop", Keys(Now(L).arg))
    <3>1. /\ UNCHANGED <<endpoint, typing, target, script, pc>> /\ call["loop"].phase = "none"
          /\ script["loop"] # <<>> /\ Send("loop", Keys(Head(script["loop"]).arg))
      BY <1>11 DEF KeyCall, Busy, Head1, deviceVars
    <3>2. L' = L /\ L # <<>> /\ Head(L) = Now(L)
      BY <3>1, Known DEF L
    <3>3. Clear
      BY <1>2, <3>1 DEF StartAction
    <3>4. QED
      BY <1>1, <3>1, <3>2, <3>3 DEF At
  <2>2. Keys(Now(L).arg) \in Reports
    BY <1>1, <2>1, StepFacts, ReportSet
  <2>3. At("loop")' # "sent"
    BY <1>1, <2>1, <2>2, Sent DEF At
  <2>4. Open2 /\ Same
    BY <2>1, <2>3 DEF Open2, Same
  <2>5. QED
    BY <1>6, <2>1, <2>4
<1>12. ASSUME NEW r, Send("httpd", r) PROVE At("loop")' = At("loop")
  BY <1>1, <1>12 DEF Send, At
<1>13. ASSUME KeyCall("httpd") \/ MouseCall("httpd") PROVE Matches'
  <2>1. UNCHANGED <<endpoint, script, pc, typing, target>> /\ At("loop")' = At("loop")
    BY <1>12, <1>13, HttpdMouse DEF KeyCall, MouseCall, deviceVars
  <2>2. Open2 /\ Same /\ L' = L
    BY <2>1 DEF Open2, Same, L
  <2>3. Clear
    BY <1>2, <2>1 DEF StartAction
  <2>4. QED
    BY <1>6, <2>2, <2>3

<1>14. ASSUME MouseCall("loop") PROVE Matches'
  <2>1. /\ UNCHANGED <<endpoint, typing, target, pc>> /\ L # <<>> /\ Now(L).op \in MouseOps
        /\ L' = L \/ L' = Tail(L)
    BY <1>14, LoopMouse DEF MouseCall
  <2>2. ~Strike(Now(L)) /\ ~Strike(Now(L'))
    BY <1>7, <2>1 DEF Strike, MouseOps
  <2>3. Same
    BY <2>1 DEF Same
  <2>4. Clear
    BY <1>2, <2>1 DEF StartAction
  <2>5. QED
    BY <1>6, <2>2, <2>3, <2>4
<1>15. ASSUME Returns("httpd") PROVE Matches'
  <2>1. /\ UNCHANGED <<endpoint, typing, target, pc>> /\ L' = L /\ call' = [call EXCEPT !["httpd"] = NoCall]
    BY <1>15, HttpdReturns DEF Returns, deviceVars
  <2>2. At("loop")' = At("loop")
    BY <1>1, <2>1 DEF At
  <2>3. Open2 /\ Same
    BY <2>1, <2>2 DEF Open2, Same
  <2>4. Clear
    BY <1>2, <2>1 DEF StartAction
  <2>5. QED
    BY <1>6, <2>1, <2>3, <2>4
<1>16. ASSUME Returns("loop") PROVE Matches'
  <2>1. /\ UNCHANGED <<endpoint, target, pc>> /\ L # <<>> /\ call' = [call EXCEPT !["loop"] = NoCall]
        /\ \/ /\ L' = Tail(L) /\ (Strike(Now(L)) => At("loop") = "sent")
           \/ /\ Now(L).op = "char" /\ At("loop") = "failed"
              /\ L' # <<>> /\ Now(L') = Do("again", Now(L).arg) /\ Rest(L') = Rest(L)
           \/ Now(L).op = "again" /\ At("loop") = "failed" /\ ~First(Now(L'))
        /\ typing' = IF At("loop") = "sent" /\ Strike(Now(L))
                     THEN [typing EXCEPT !.queued = @ + 1] ELSE typing
    BY <1>16, LoopReturns DEF Returns, At, deviceVars
  <2>2. Clear
    BY <1>2, <2>1 DEF StartAction
  <2>3. At("loop")' = "none"
    BY <1>1, <2>1 DEF At, NoCall
  <2>4. CASE Strike(Now(L)) /\ At("loop") = "sent" /\ L' = Tail(L)
    <3>1. /\ typing'.queued = typing.queued + 1 /\ typing'.at = typing.at
          /\ typing'.text = typing.text /\ typing'.keypad = typing.keypad
      BY <1>1, <2>1, <2>4 DEF Typings
    <3>2. ~Strike(Now(L'))
      BY <1>7, <2>1, <2>4
    <3>3. Counting
      BY <1>1, <1>3, <2>4, <3>1, <3>2 DEF Counting
    <3>4. (Flying' <=> Flying) /\ (Pending' <=> Pending)
      BY <2>1, <2>4, <3>2 DEF Flying, Pending
    <3>5. Matches
      BY <1>5, <2>2, <3>3
    <3>6. QED
      BY <2>1, <3>1, <3>4, <3>5 DEF Matches
  <2>5. CASE ~Strike(Now(L)) /\ L' = Tail(L)
    <3>1. Same
      BY <2>1, <2>5 DEF Same
    <3>2. ~Strike(Now(L'))
      BY <1>7, <2>1, <2>5
    <3>3. QED
      BY <1>6, <2>2, <2>5, <3>1, <3>2
  <2>6. CASE Now(L).op = "char" /\ At("loop") = "failed" /\ Now(L') = Do("again", Now(L).arg)
    <3>1. Same /\ Open2
      BY <2>1, <2>3, <2>6 DEF Same, Open2
    <3>2. Strike(Now(L)) /\ Strike(Now(L'))
      BY <2>6 DEF Strike, Do
    <3>3. QED
      BY <1>6, <2>2, <3>1, <3>2
  <2>7. CASE Now(L).op = "again" /\ At("loop") = "failed" /\ ~First(Now(L'))
    <3>1. typing' = typing /\ ~Strike(Now(L'))
      BY <2>1, <2>7 DEF First, Down
    <3>2. typing.queued = typing.at
      BY <1>1, <1>3, <3>1 DEF Counting
    <3>3. typing.queued < typing.at
      BY <2>7 DEF QueueInv, Strike
    <3>4. QED
      BY <1>1, <3>2, <3>3
  <2>8. QED
    BY <2>1, <2>4, <2>5, <2>6, <2>7 DEF Strike
<1>17. ASSUME Expand PROVE Matches'
  <2>1. /\ UNCHANGED <<endpoint, typing, target, pc>> /\ L # <<>> /\ ~Strike(Now(L))
        /\ L' = Tail(L) \/ Now(L').op \in {"set", "keys", "press"}
    BY <1>17, ExpandScript DEF Expand, deviceVars, Do, Strike
  <2>2. ~Strike(Now(L'))
    BY <1>7, <2>1 DEF Strike
  <2>3. Same
    BY <2>1 DEF Same
  <2>4. Clear
    BY <1>2, <2>1 DEF StartAction
  <2>5. QED
    BY <1>6, <2>1, <2>2, <2>3, <2>4
<1>18. ASSUME Type PROVE Matches'
  <2>1. /\ UNCHANGED <<endpoint, target>> /\ pc = "action" /\ L # <<>> /\ Now(L).op = "type"
        /\ L' = Tail(L) \/ Now(L').op = "next"
        /\ typing' = [typing EXCEPT !.len = IF mounted THEN Len(typing.text) ELSE 0]
    BY <1>18, TypeScript DEF Type, deviceVars, Do
  <2>2. ~Strike(Now(L)) /\ ~Strike(Now(L'))
    BY <1>7, <2>1 DEF Strike
  <2>3. Same
    BY <1>1, <2>1 DEF Same, Typings
  <2>4. Clear
    BY <1>2, <2>1 DEF StartAction
  <2>5. QED
    BY <1>6, <2>2, <2>3, <2>4
<1>19. ASSUME NextChar PROVE Matches'
  <2> DEFINE c == typing.text[typing.at + 1]
  <2>1. /\ UNCHANGED <<endpoint, target, call>> /\ pc = "action" /\ L # <<>> /\ Now(L).op = "next"
        /\ At("loop") = "none"
        /\ \/ L' = Tail(L) /\ typing' = typing
           \/ /\ typing.at < Len(typing.text) /\ typing' = [typing EXCEPT !.at = @ + 1]
              /\ IF c \in Chars THEN Now(L').op = "char" ELSE Now(L').op = "next"
    BY <1>1, <1>19, NextCharScript, Calling DEF NextChar, deviceVars, Do, At, Busy, Calls, Phases
  <2> HIDE DEF c
  <2>2. Clear
    BY <1>2, <2>1 DEF StartAction
  <2>3. ~Strike(Now(L)) /\ ~Down(Now(L)) /\ ~Up(Now(L))
    BY <2>1 DEF Strike, Down, Up
  <2>4. CASE L' = Tail(L) /\ typing' = typing
    <3>1. Same
      BY <2>1, <2>4 DEF Same
    <3>2. QED
      BY <1>6, <1>7, <2>1, <2>2, <2>3, <2>4, <3>1
  <2>5. CASE /\ typing' = [typing EXCEPT !.at = @ + 1]
             /\ IF c \in Chars THEN Now(L').op = "char" ELSE Now(L').op = "next"
    <3>1. /\ typing'.queued = typing.queued /\ typing'.at = typing.at + 1
          /\ typing'.text = typing.text
      BY <1>1, <2>5 DEF Typings
    <3>2. typing.queued <= typing.at
      BY DEF QueueInv
    <3>3. CASE c \in Chars
      <4>1. Strike(Now(L')) /\ At("loop")' # "sent"
        BY <2>1, <2>5, <3>3 DEF Strike, At
      <4>2. Counting
        BY <1>1, <1>3, <2>3, <3>1, <4>1 DEF Counting
      <4>3. Matches
        BY <1>5, <2>2, <4>2
      <4>4. ~Flying /\ ~Flying'
        BY <1>4, <2>1, <2>2, <2>3 DEF Flying
      <4>5. ~Pending /\ Pending'
        BY <2>3, <4>1, <4>4 DEF Pending
      <4>6. typing'.at - 1 = typing.at
        BY <1>1, <3>1
      <4>7. QED
        BY <2>1, <3>1, <4>3, <4>4, <4>5, <4>6 DEF Matches
    <3>4. CASE c \notin Chars
      <4>1. ~Strike(Now(L'))
        BY <2>5, <3>4 DEF Strike
      <4>2. typing.queued = typing.at + 1
        BY <1>1, <1>3, <3>1, <4>1 DEF Counting
      <4>3. QED
        BY <1>1, <3>2, <4>2
    <3>5. QED
      BY <3>3, <3>4
  <2>6. QED
    BY <2>1, <2>4, <2>5

<1>20. ASSUME NumLock PROVE Matches'
  <2>1. /\ UNCHANGED <<endpoint, target, call>> /\ pc = "action" /\ L # <<>>
        /\ Now(L).op \in {"numlock", "confirm"}
        /\ L' = Tail(L) \/ Now(L').op = "press"
        /\ \/ typing' = typing
           \/ typing' = [typing EXCEPT !.keypad = TRUE]
           \/ typing' = [typing EXCEPT !.keypad = FALSE]
    <3>1. UNCHANGED <<endpoint, target, call>>
      BY <1>20 DEF NumLock, deviceVars
    <3>2. Do("press", {"numlock"}).op = "press"
      BY DEF Do
    <3>3. QED
      BY <1>20, <3>1, <3>2, NumLockScript
  <2>2. Clear
    BY <1>2, <2>1 DEF StartAction
  <2>3. /\ typing'.queued = typing.queued /\ typing'.at = typing.at
        /\ typing'.text = typing.text
    BY <1>1, <2>1 DEF Typings
  <2>4. ~Strike(Now(L)) /\ ~Down(Now(L)) /\ ~Up(Now(L)) /\ ~Strike(Now(L'))
    BY <1>7, <2>1 DEF Strike, Down, Up
  <2>5. ~Flying /\ ~Flying'
    BY <1>4, <2>1, <2>2, <2>4 DEF Flying
  <2>6. ~Pending /\ ~Pending'
    BY <2>4, <2>5 DEF Pending
  <2>7. Counting
    BY <1>1, <1>3, <2>3, <2>4 DEF Counting
  <2>8. Matches
    BY <1>5, <2>2, <2>7
  <2>9. QED
    BY <2>1, <2>3, <2>5, <2>6, <2>8 DEF Matches
<1>21. ASSUME Report PROVE Matches'
  <2>1. /\ UNCHANGED <<endpoint, target, pc>> /\ L # <<>> /\ Now(L).op = "report" /\ L' = Tail(L)
        /\ typing' = [typing EXCEPT !.done = TRUE]
    BY <1>21, ReportScript DEF Report, deviceVars
  <2>2. ~Strike(Now(L)) /\ ~Strike(Now(L'))
    BY <1>7, <2>1 DEF Strike
  <2>3. Same
    BY <1>1, <2>1 DEF Same, Typings
  <2>4. Clear
    BY <1>2, <2>1 DEF StartAction
  <2>5. QED
    BY <1>6, <2>2, <2>3, <2>4
<1>22. ASSUME StartAction PROVE Matches'
  <2>1. /\ UNCHANGED <<endpoint, dropped>> /\ pc = "batch" /\ L = <<>> /\ ~Strike(Now(L'))
        /\ target' = [target EXCEPT !.text = <<>>]
    BY <1>22, StartScript DEF StartAction, deviceVars, Down
  <2>2. PICK text \in Seq(Symbols) : typing' = [NoText EXCEPT !.text = text]
    BY <1>22, StartScript
  <2>3. typing'.at = 0
    BY <2>2 DEF NoText
  <2>4. target'.text = <<>> /\ Len(target'.text) = 0
    BY <1>1, <2>1 DEF Targets
  <2>5. ~Flying'
    <3>1. ~Flying
      BY <2>1, FlyingAt DEF Clear
    <3>2. QED
      BY <2>1, <3>1 DEF Flying
  <2>6. ~Pending'
    BY <2>1, <2>5 DEF Pending
  <2>7. 1 .. 0 = {}
    OBVIOUS
  <2>8. QED
    BY <2>3, <2>4, <2>5, <2>6, <2>7 DEF Matches
<1>23. ASSUME EndAction \/ EndBatch \/ LoopTop PROVE Matches'
  BY <1>23 DEF EndAction, EndBatch, LoopTop, Clear
<1>24. ASSUME Emergency \/ LedReport \/ Configure \/ Replug \/ UNCHANGED vars PROVE Matches'
  <2>1. UNCHANGED <<endpoint, typing, target, call, pc>> /\ L' = L
    BY <1>1, <1>24 DEF Emergency, LedReport, Configure, Replug, vars, deviceVars, taskVars, L
  <2>2. Same /\ Open2
    BY <2>1 DEF Same, Open2, At
  <2>3. Clear
    BY <1>2, <2>1 DEF StartAction
  <2>4. QED
    BY <1>6, <2>1, <2>2, <2>3
<1>25. ASSUME Unplug PROVE Matches'
  BY <1>25 DEF Unplug, Clear, taskVars
<1>26. ASSUME Poll PROVE Matches'
  <2>1. UNCHANGED <<typing, call, pc>> /\ L' = L /\ endpoint' = NoReport
    BY <1>26 DEF Poll, taskVars, L
  <2>2. Clear
    BY <1>2, <2>1 DEF StartAction
  <2>3. ~Flying' /\ (Pending' <=> (Strike(Now(L)) /\ At("loop") # "sent"))
    BY <2>1 DEF Flying, NoReport, Pending, At
  <2>4. Counting /\ Matches
    BY <1>5, <2>1, <2>2 DEF Counting
  <2>5. CASE Flying
    <3> DEFINE c   == typing.text[typing.at]
               k   == Key(c, typing.keypad)
    <3>1. /\ endpoint.kind = "keys" /\ endpoint.down \subseteq Chars
          /\ typing.at > 0 /\ target.keys = {} /\ endpoint.down = {k}
      BY <2>4, <2>5 DEF Matches, Flying
    <3>2. Len(target.text) = typing.at - 1 /\ \A i \in 1 .. Len(target.text) : target.text[i] = typing.text[i]
      BY <2>4, <2>5 DEF Matches, Pending
    <3>3. c \in Symbols
      <4>1. typing.at <= Len(typing.text)
        BY <1>1, <3>1 DEF QueueInv
      <4>2. typing.at \in 1 .. Len(typing.text)
        BY <1>1, <3>1, <4>1
      <4>3. QED
        BY <1>1, <4>2
    <3>4. typing.keypad => target.numLock
      BY <2>2 DEF LedInv, Clear, KeypadInv, ViewInv
    <3>5. Symbol(k) = c
      BY <1>1, <3>3, <3>4, KeySymbol
    <3>6. k \in Chars
      BY <3>1
    <3> HIDE DEF c, k
    <3>7. target'.text = Append(target.text, c)
      <4>1. endpoint.down \ target.keys = {k}
        BY <3>1
      <4>2. {k} \cap Chars # {} /\ endpoint.down \subseteq Chars
        BY <3>1, <3>6
      <4>3. (CHOOSE x \in {k} : TRUE) = k
        OBVIOUS
      <4>4. QED
        BY <1>26, <3>1, <3>5, <4>1, <4>2, <4>3, PollFacts
    <3>8. c \in Marks
      <4>1. target' \in Targets
        BY <1>26, PollFacts
      <4>2. Symbol(k) \in Marks
        BY <3>6 DEF Symbol, Chars, Marks, Keyboard
      <4>3. QED
        BY <3>5, <4>2
    <3>9. /\ Len(target'.text) = Len(target.text) + 1
          /\ target'.text[Len(target.text) + 1] = c
          /\ \A i \in 1 .. Len(target.text) : target'.text[i] = target.text[i]
      BY <1>1, <3>7, <3>8, AppendProperties
    <3>10. Len(target'.text) = typing.at
      BY <1>1, <3>2, <3>9
    <3>11. target'.text[typing.at] = typing.text[typing.at]
      BY <1>1, <3>2, <3>9, <3>10 DEF c
    <3>12. \A i \in 1 .. Len(target'.text) : i = typing.at \/ i \in 1 .. Len(target.text)
      BY <1>1, <3>2, <3>10
    <3>13. \A i \in 1 .. Len(target'.text) : target'.text[i] = typing.text[i]
      BY <3>2, <3>9, <3>11, <3>12
    <3>14. ~Pending'
      BY <1>4, <2>2, <2>3, <2>5, Telling
    <3>15. QED
      BY <2>1, <2>3, <3>10, <3>13, <3>14 DEF Matches
  <2>6. CASE ~Flying
    <3>1. target'.text = target.text
      <4>1. CASE endpoint.kind = "mouse"
        BY <1>26, <4>1, PollFacts
      <4>2. CASE endpoint.kind = "keys"
        <5>1. endpoint.down = {} \/ ~(endpoint.down \subseteq Chars)
          BY <2>6, <4>2 DEF Flying
        <5>2. ~((endpoint.down \ target.keys) \cap Chars # {} /\ endpoint.down \subseteq Chars)
          BY <5>1
        <5>3. QED
          BY <1>26, <4>2, <5>2, PollFacts
      <4>3. QED
        BY <1>26, <4>1, <4>2, PollFacts
    <3>2. Pending' <=> Pending
      BY <2>3, <2>6 DEF Pending
    <3>3. QED
      BY <2>1, <2>3, <2>4, <3>1, <3>2 DEF Matches
  <2>7. QED
    BY <2>5, <2>6
<1>27. QED
  BY <1>8, <1>9, <1>10, <1>11, <1>13, <1>14, <1>15, <1>16, <1>17, <1>18, <1>19, <1>20, <1>21, <1>22, <1>23,
     <1>24, <1>25, <1>26 DEF Next, Loop, Sending, Target, Tasks

-----------------------------------------------------------------------------
(* The inductive invariant.                                                *)

IInv == Basic /\ KeysInv /\ HeldInv /\ PressInv /\ DownInv /\ QueueInv /\ LedInv /\ TextInv

(* The invariant holds at first. *)
LEMMA InitIInv == Init => IInv
<1> SUFFICES ASSUME Init PROVE IInv
  OBVIOUS
<1>1. /\ L = <<>> /\ H = <<>> /\ Now(L) = NoStep /\ Rest(L) = {} /\ Good(L)
      /\ NoStep.op = "none" /\ NoStep.arg = {}
  BY EmptyGood DEF Init, L, H, Tasks, NoStep, Do
<1>2. /\ At("loop") = "none" /\ At("httpd") = "none" /\ \A t \in Tasks : call[t].phase = "none"
      /\ call = [t \in Tasks |-> NoCall]
  BY DEF Init, At, Tasks, NoCall
<1>3. /\ target.keys = {} /\ target.buttons = {} /\ target.text = <<>> /\ target.numLock = FALSE
      /\ endpoint.kind = "none" /\ endpoint = NoReport
  BY DEF Init, FreshTarget, NoReport
<1>4. TypeInv
  <2>1. target \in Targets
    <3>1. <<>> \in Seq(Marks) /\ FALSE \in BOOLEAN
      OBVIOUS
    <3>2. QED
      BY <3>1 DEF Init, FreshTarget, Targets
  <2>2. leds \in Seq(BOOLEAN)
    <3>1. <<>> \in Seq(BOOLEAN)
      OBVIOUS
    <3>2. QED
      BY <3>1 DEF Init
  <2>3. script \in [Tasks -> Seq(Steps)]
    <3>1. <<>> \in Seq(Steps)
      OBVIOUS
    <3>2. QED
      BY <3>1 DEF Init
  <2>4. /\ mounted = TRUE /\ ledSeen = FALSE /\ led = FALSE /\ emergency = FALSE
        /\ dropped = FALSE /\ gaveUp = FALSE
    BY DEF Init
  <2>5. /\ mounted \in BOOLEAN /\ ledSeen \in BOOLEAN /\ led \in BOOLEAN /\ emergency \in BOOLEAN
        /\ dropped \in BOOLEAN /\ gaveUp \in BOOLEAN
    BY <2>4
  <2>6. call \in [Tasks -> Calls] /\ endpoint \in Reports
    BY <1>2, <1>3, ReportSet
  <2>7. typing \in Typings /\ held \subseteq Left /\ pc \in {"idle", "batch", "action"}
    BY EmptyText DEF Init
  <2>8. QED
    BY <2>1, <2>2, <2>3, <2>5, <2>6, <2>7 DEF TypeInv
<1>5. ScriptInv /\ CallInv
  BY <1>1, <1>2, <1>3 DEF Init, ScriptInv, CallInv, Releasing
<1>6. KeysInv /\ DownInv
  BY <1>3 DEF KeysInv, DownInv, KeysDown, ButtonsDown
<1>7. HeldInv /\ PressInv
  BY <1>2 DEF Init, HeldInv, PressInv
<1>8. QueueInv
  <2>1. typing = NoText /\ NoText.queued = 0 /\ NoText.at = 0 /\ NoText.len = 0 /\ NoText.done = FALSE
    BY DEF Init, NoText
  <2>2. ~Strike(Now(L)) /\ ~Ahead(L, "type") /\ ~Ahead(L, "next")
    BY <1>1 DEF Strike, Ahead, Has
  <2>3. QED
    BY <2>1, <2>2 DEF QueueInv
<1>9. LedInv
  <2>1. DOMAIN target.text = {}
    BY <1>3
  <2>2. KeysOut = {} /\ typing.keypad = FALSE
    BY <1>3 DEF KeysOut, Init, NoText
  <2>3. QED
    BY <1>1, <1>3, <2>1, <2>2 DEF Init, LedInv, ViewInv, KeypadInv, NoArrow
<1>10. TextInv
  BY DEF Init, TextInv, Clear
<1>11. QED
  BY <1>4, <1>5, <1>6, <1>7, <1>8, <1>9, <1>10 DEF IInv, Basic

(* Every step keeps the invariant. *)
LEMMA IInvStep == IInv /\ [Next]_vars => IInv'
<1> SUFFICES ASSUME IInv, [Next]_vars PROVE IInv'
  OBVIOUS
<1>1. Basic /\ KeysInv /\ HeldInv /\ PressInv /\ DownInv /\ QueueInv /\ LedInv /\ TextInv
  BY DEF IInv
<1>2. Basic' /\ KeysInv' /\ HeldInv'
  BY <1>1, BasicStep, KeysStep, HeldStep
<1>3. PressInv' /\ DownInv'
  BY <1>1, <1>2, PressStep, DownStep
<1>4. QueueInv' /\ LedInv' /\ TextInv'
  BY <1>1, QueueStep, LedStep, TextStep
<1>5. QED
  BY <1>2, <1>3, <1>4 DEF IInv

(* The invariant always holds. *)
LEMMA Inductive == Spec => []IInv
BY InitIInv, IInvStep, PTL DEF Spec

(* What is left to do when the loop rests: nothing. *)
LEMMA Rested ==
  ASSUME IInv, Quiet
  PROVE  /\ KeysDown = target.keys /\ ButtonsDown = target.buttons
         /\ ~dropped => target.keys = {}
         /\ "buttons" \notin stale => held = {}
         /\ ~dropped /\ "buttons" \notin stale => target.buttons = {}
<1>1. L = <<>> /\ pc = "idle" /\ endpoint.kind = "none"
  BY DEF Quiet, L, Tasks, NoReport
<1>2. Now(L) = NoStep /\ NoStep.op = "none" /\ Rest(L) = {} /\ ~Frees(Rest(L)) /\ ~Release(NoStep)
  BY <1>1, EmptyGood DEF NoStep, Do, Frees, Release
<1>3. KeysDown = target.keys /\ ButtonsDown = target.buttons
  BY <1>1 DEF KeysDown, ButtonsDown
<1>4. ~dropped => target.keys = {}
  <2>1. Now(L) # Do("keys", {}) /\ pc # "action"
    BY <1>1, <1>2 DEF Do
  <2>2. QED
    BY <1>3, <2>1 DEF IInv, KeysInv
<1>5. "buttons" \notin stale => held = {}
  BY <1>2 DEF IInv, HeldInv, Lets
<1>6. ~dropped /\ "buttons" \notin stale => target.buttons = {}
  BY <1>2, <1>3 DEF IInv, DownInv
<1>7. QED
  BY <1>3, <1>4, <1>5, <1>6

-----------------------------------------------------------------------------
(* The theorems.                                                           *)

(* Whatever the order in which httpd's emergency release, the batch and the *)
(* release of the abort take the endpoint, the target has no key and no     *)
(* button down once the loop rests, unless a report was given up or the     *)
(* cable was pulled in a drag: hid_release_all, hid_key_press and           *)
(* hid_mouse_click of hid_device.c.                                         *)
THEOREM PressesReleased == Spec => []LetsGo
<1>1. IInv => LetsGo
  <2> SUFFICES ASSUME IInv PROVE LetsGo
    OBVIOUS
  <2>1. TypeOK
    <3>1. TypeInv /\ QueueInv
      BY DEF IInv, Basic
    <3>2. typing.queued \in Nat /\ typing.at \in Nat /\ typing.len \in Nat
      BY <3>1 DEF TypeInv, Typings
    <3>3. typing.queued <= typing.len
      BY <3>1, <3>2 DEF QueueInv
    <3>4. endpoint.kind \in {"none", "keys", "mouse"}
      BY <3>1, ReportSet DEF TypeInv
    <3>5. \A t \in Tasks : call[t].phase \in {"none", "wait", "claim", "sent", "failed"}
      BY <3>1 DEF TypeInv, Calls, Phases
    <3>6. QED
      BY <3>1, <3>3, <3>4, <3>5 DEF TypeOK, TypeInv, Left
  <2>2. NothingHeld
    BY Rested DEF NothingHeld
  <2>3. QED
    BY <2>1, <2>2 DEF LetsGo
<1>2. QED
  BY Inductive, <1>1, PTL

(* s_last_buttons, from which every mouse report is built, is what the      *)
(* target has down whenever the loop rests, although httpd and the loop     *)
(* both write it and either may lose the endpoint to the other.             *)
THEOREM RecordAgrees == Spec => []ButtonsAgree
<1>1. IInv => ButtonsAgree
  BY Rested DEF ButtonsAgree
<1>2. QED
  BY Inductive, <1>1, PTL

(* A text of which hid_type_string counts some strokes, and every one of    *)
(* them as queued, is on the target, character by character, whether the    *)
(* digits went by the main row or by the keypad: not a text it counts as 0  *)
(* of 0 because the target was gone, and only while nothing disturbed it.   *)
THEOREM QueuedIsTyped == Spec => []TypedInFull
<1>1. IInv => TypedInFull
  <2> SUFFICES ASSUME IInv, AllQueued, typing.len # 0, Undisturbed
               PROVE  target.text = typing.text
    BY DEF TypedInFull
  <2>0. ~dropped /\ mounted /\ ~gaveUp /\ stale \cap {"text", "led"} = {}
    BY DEF Undisturbed
  <2>1. /\ typing \in Typings /\ target \in Targets /\ QueueInv /\ KeysInv /\ TextInv /\ Basic
    BY DEF IInv, Basic, TypeInv
  <2>2. /\ typing.text \in Seq(Symbols) /\ Len(typing.text) \in Nat /\ target.text \in Seq(Marks)
        /\ typing.queued \in Nat /\ typing.at \in Nat /\ typing.len \in Nat
    BY <2>1 DEF Typings, Targets
  <2>3. typing.done /\ L = <<>>
    BY <2>1 DEF AllQueued, QueueInv
  <2>4. pc = "action"
    BY <2>1, <2>3 DEF QueueInv, NoText
  <2>5. Now(L) = NoStep /\ ~Strike(NoStep) /\ ~Down(NoStep) /\ ~Up(NoStep)
    BY <2>3, EmptyGood DEF NoStep, Do, Strike, Down, Up
  <2>6. typing.queued = typing.at /\ typing.at = Len(typing.text)
    <3>1. typing.queued <= typing.at /\ typing.at <= typing.len
      BY <2>1 DEF QueueInv
    <3>2. typing.queued = typing.len /\ typing.len = Len(typing.text)
      BY <2>1 DEF AllQueued, QueueInv
    <3>3. QED
      BY <2>2, <3>1, <3>2
  <2>7. Clear /\ Counting
    BY <2>0, <2>2, <2>4, <2>5, <2>6 DEF Clear, Counting, Counts
  <2>8. ~Pending
    <3>1. ~Flying
      BY <2>0, <2>1, <2>4, <2>5, FlyingAt
    <3>2. QED
      BY <2>5, <3>1 DEF Pending
  <2>9. /\ Len(target.text) = Len(typing.text)
        /\ \A i \in 1 .. Len(target.text) : target.text[i] = typing.text[i]
    BY <2>1, <2>6, <2>7, <2>8 DEF TextInv, Matches
  <2>10. target.text \in Seq(Marks \cup Symbols) /\ typing.text \in Seq(Marks \cup Symbols)
    BY <2>2
  <2>11. QED
    BY <2>9, <2>10, SeqEqual
<1>2. QED
  BY Inductive, <1>1, PTL

(* The keypad types digits and moves no cursor: it is used only while Num   *)
(* Lock is on, by the LED that the target reported to                       *)
(* tud_hid_set_report_cb, unless hid_ensure_num_lock stopped waiting for it *)
(* once or the LED is that of another target.                               *)
THEOREM KeypadSafe == Spec => []KeypadConfirmed
<1>1. IInv => KeypadConfirmed
  BY DEF IInv, LedInv, NoArrow, KeypadConfirmed
<1>2. QED
  BY Inductive, <1>1, PTL
=============================================================================
