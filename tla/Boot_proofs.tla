----------------------------- MODULE Boot_proofs -----------------------------
(***************************************************************************)
(* Proofs about Boot, for any profiles, configurations and limits, through *)
(* any failure at boot, edit, network and restart: types, what the station *)
(* reports, what the short-term memory keeps, and what the profiles say.   *)
(***************************************************************************)
EXTENDS Boot, SequenceTheorems, TLAPS

(* The radio's events are handled in order, and it has at most two on the  *)
(* way: an address, and the loss of the link that came with it.            *)
EventInv ==
  \/ events = <<>>            /\ (ip <=> air = "linked")
  \/ events = <<"start">>     /\ air = "idle" /\ ~ip
  \/ events = <<"gotIp">>     /\ air = "linked"
  \/ events = <<"lost">>      /\ air = "idle"
  \/ events = <<"gotIp", "lost">> /\ air = "idle"

AirInv ==
  /\ air \in Airs /\ ip \in BOOLEAN /\ EventInv
  /\ netBits \subseteq {"CONNECTED", "FAIL"}
  /\ retries \in 0 .. RetryLimit /\ losses \in Nat /\ retries <= losses
  /\ inited \in BOOLEAN /\ sntp \in BOOLEAN /\ airLeft \in Nat
  /\ GivesUpLate

(* app_main gets to the loop last, after the length of the history is set; *)
(* nothing is remembered before.                                           *)
AfterStm == {"cloud", "hid", "agent", "buttons", "web", "loop", "up"}
OrderInv ==
  /\ step \in {"sd", "config", "uvc", "wifi"} => air = "off"
  /\ air = "off" => events = <<>>
  /\ task = "taken" => "loop" \in ready
  /\ "loop" \in ready => step = "up"
  /\ step \in AfterStm => historyMax > 0
  /\ "loop" \notin ready => entries = <<>> /\ ~overrun /\ told = 0 /\ forgotten = {}

LifeType ==
  /\ step \in {Order[i] : i \in DOMAIN Order} \cup Settled
  /\ config \in Configs \cup {NoFile} /\ prompt \in BOOLEAN
  /\ editing \in Editable \cup {NoFile}
  /\ ready \subseteq {Order[i] : i \in DOMAIN Order}
  /\ task \in {"none", "accepted", "taken"}
  /\ turn \in {"build", "cache", "answer", "append", "tell"}
  /\ ssid \in BOOLEAN /\ rebooting \in BOOLEAN

(* The ring of summaries.                                                  *)
StmInv ==
  /\ historyMax \in Nat /\ entries \in Seq(Seq(Nat)) /\ Len(entries) <= historyMax
  /\ overrun \in BOOLEAN /\ told \in 0 .. MaxTold /\ forgotten \subseteq 1 .. told
  /\ HistoryKept

(* The profiles; what has been read and not yet cached is the file, unless *)
(* it was edited meanwhile, and there is such a text only inside the turn. *)
ProfileInv ==
  /\ profile = [p \in Profiles |-> profile[p]]
  /\ \A p \in Profiles : profile[p] = NoFile \/ profile[p] \in Seq(Lines)
  /\ cacheId \in Profiles \cup {NoText} /\ active \in Profiles /\ edited \subseteq Profiles
  /\ blind \subseteq Profiles
  /\ reading # NoText /\ Default \notin edited => reading = profile[Default]
  /\ turn # "cache" => reading = NoText
  /\ ProfilesSound

BootInv == AirInv /\ OrderInv /\ LifeType /\ StmInv /\ ProfileInv

-----------------------------------------------------------------------------
(* What leaves the variables of a part alone leaves the part true.         *)

LEMMA AirSame == AirInv /\ UNCHANGED wifiVars => AirInv'
  BY DEF AirInv, EventInv, GivesUpLate, wifiVars

LEMMA StmSame == StmInv /\ UNCHANGED stmVars => StmInv'
  BY DEF StmInv, HistoryKept, stmVars

LEMMA ProfileSame ==
  ProfileInv /\ UNCHANGED profileVars /\ (turn' = turn \/ turn # "cache") => ProfileInv'
  BY DEF ProfileInv, ProfilesSound, CacheFresh, SaysItOnce, profileVars, cacheVars

-----------------------------------------------------------------------------
(* The order of app_main.                                                  *)

LEMMA Follows ==
  ASSUME NEW i \in DOMAIN Order
  PROVE  NextStep(Order[i]) = IF i = 15 THEN "up" ELSE Order[i + 1]
<1>1. DOMAIN Order = 1 .. 15 /\ Len(Order) = 15
  BY DEF Order
<1>2. \A k \in 1 .. 15 : Order[k] = Order[i] => k = i
  BY <1>1 DEF Order
<1>3. (CHOOSE k \in DOMAIN Order : Order[k] = Order[i]) = i
  BY <1>1, <1>2
<1>4. QED
  BY <1>1, <1>3 DEF NextStep

LEMMA Steps ==
  /\ \A s \in {Order[i] : i \in DOMAIN Order} :
       /\ NextStep(s) \in {Order[i] : i \in DOMAIN Order} \cup Settled
       /\ NextStep(s) \notin {"sd", "returned"}
       /\ s \in AfterStm \ {"loop"} => NextStep(s) \in AfterStm
       /\ (s \notin AfterStm /\ s # "stm") => NextStep(s) \notin AfterStm
  /\ {Order[i] : i \in DOMAIN Order} =
       {"sd", "config", "uvc", "wifi", "wifiWait", "sntp", "prompts", "sessions",
        "stm", "cloud", "hid", "agent", "buttons", "web", "loop"}
  /\ NextStep("loop") = "up"
  /\ NextStep("stm") = "cloud"
  /\ NextStep("wifiWait") = "sntp"
  /\ NextStep("sntp") = "prompts"
  /\ \A s \in {Order[i] : i \in DOMAIN Order} \ {"sd", "config", "uvc"} :
       NextStep(s) \notin {"sd", "config", "uvc", "wifi"}
<1>1. DOMAIN Order = 1 .. 15
  BY DEF Order
<1>2. \A i \in 1 .. 15 : NextStep(Order[i]) = IF i = 15 THEN "up" ELSE Order[i + 1]
  BY <1>1, Follows
<1>3. QED
  BY <1>1, <1>2 DEF Order, AfterStm, Settled

-----------------------------------------------------------------------------
(* The ring of summaries: what appending, dropping and merging leave in it.*)

Rising(s) == \A j, k \in DOMAIN s : j < k => s[j] < s[k]

LEMMA AppendKept ==
  ASSUME NEW es \in Seq(Seq(Nat)), NEW n \in Nat, InOrder(es),
         \A m \in Shown(es) : m < n
  PROVE  /\ Append(es, <<n>>) \in Seq(Seq(Nat))
         /\ Shown(Append(es, <<n>>)) = Shown(es) \cup {n}
         /\ InOrder(Append(es, <<n>>))
<1> DEFINE as == Append(es, <<n>>)
<1>1. /\ as \in Seq(Seq(Nat)) /\ Len(as) = Len(es) + 1
      /\ \A i \in 1 .. Len(es) : as[i] = es[i]
      /\ as[Len(es) + 1] = <<n>>
  OBVIOUS
<1>2. DOMAIN es = 1 .. Len(es) /\ DOMAIN as = 1 .. (Len(es) + 1) /\ Len(es) \in Nat
  BY <1>1
<1>3. Numbers(<<n>>) = {n} /\ DOMAIN <<n>> = {1}
  BY DEF Numbers
<1>4. \A i \in DOMAIN as : (i \in DOMAIN es /\ as[i] = es[i]) \/ (i = Len(es) + 1 /\ as[i] = <<n>>)
  BY <1>1, <1>2
<1>5. DOMAIN es \subseteq DOMAIN as /\ Len(es) + 1 \in DOMAIN as
  BY <1>2
<1> HIDE DEF as
<1>6. Shown(as) = Shown(es) \cup {n}
  <2>1. ASSUME NEW m \in Shown(as) PROVE m \in Shown(es) \cup {n}
    <3>1. PICK i \in DOMAIN as : m \in Numbers(as[i])
      BY <2>1 DEF Shown
    <3>2. QED
      BY <3>1, <1>3, <1>4 DEF Shown
  <2>2. ASSUME NEW m \in Shown(es) PROVE m \in Shown(as)
    <3>1. PICK i \in DOMAIN es : m \in Numbers(es[i])
      BY <2>2 DEF Shown
    <3>2. QED
      BY <3>1, <1>1, <1>2, <1>5 DEF Shown
  <2>3. n \in Shown(as)
    BY <1>1, <1>3, <1>5 DEF Shown
  <2>4. QED
    BY <2>1, <2>2, <2>3
<1>7. \A i \in DOMAIN as : \A j, k \in DOMAIN as[i] : j < k => as[i][j] < as[i][k]
  <2>1. ASSUME NEW i \in DOMAIN as, NEW j \in DOMAIN as[i], NEW k \in DOMAIN as[i], j < k
        PROVE  as[i][j] < as[i][k]
    <3>1. CASE as[i] = <<n>>
      BY <2>1, <3>1, <1>3
    <3>2. CASE i \in DOMAIN es /\ as[i] = es[i]
      BY <2>1, <3>2 DEF InOrder
    <3>3. QED
      BY <3>1, <3>2, <1>4
  <2>2. QED
    BY <2>1
<1>8. \A i, k \in DOMAIN as : i < k =>
        \A m \in Numbers(as[i]), q \in Numbers(as[k]) : m < q
  <2>1. ASSUME NEW i \in DOMAIN as, NEW k \in DOMAIN as, i < k,
               NEW m \in Numbers(as[i]), NEW q \in Numbers(as[k])
        PROVE  m < q
    <3>0. i \in 1 .. (Len(es) + 1) /\ k \in 1 .. (Len(es) + 1)
      BY <1>2
    <3>1. \A l \in Nat : \A x, y \in 1 .. (l + 1) : x < y => x \in 1 .. l /\ x # l + 1
      OBVIOUS
    <3>2. i \in DOMAIN es /\ as[i] = es[i]
      BY <2>1, <3>0, <3>1, <1>2, <1>4
    <3>3. CASE k \in DOMAIN es
      BY <2>1, <3>2, <3>3, <1>1, <1>2 DEF InOrder
    <3>4. CASE k = Len(es) + 1
      <4>1. q = n
        BY <2>1, <3>4, <1>1, <1>3
      <4>2. m \in Shown(es)
        BY <2>1, <3>2 DEF Shown
      <4>3. QED
        BY <4>1, <4>2
    <3>5. QED
      BY <3>3, <3>4, <1>4
  <2>2. QED
    BY <2>1
<1>9. InOrder(as)
  BY <1>7, <1>8 DEF InOrder
<1>10. QED
  BY <1>1, <1>6, <1>9 DEF as

LEMMA TailKept ==
  ASSUME NEW es \in Seq(Seq(Nat)), es # <<>>, InOrder(es)
  PROVE  /\ Tail(es) \in Seq(Seq(Nat)) /\ Len(Tail(es)) = Len(es) - 1
         /\ Shown(Tail(es)) = Shown(es) \ Numbers(es[1])
         /\ InOrder(Tail(es))
<1> DEFINE ts == Tail(es)
<1>1. /\ ts \in Seq(Seq(Nat)) /\ Len(ts) = Len(es) - 1
      /\ \A i \in 1 .. Len(ts) : ts[i] = es[i + 1]
  OBVIOUS
<1>2. /\ DOMAIN es = 1 .. Len(es) /\ DOMAIN ts = 1 .. (Len(es) - 1)
      /\ Len(es) \in Nat \ {0}
  BY <1>1
<1> HIDE DEF ts
<1>3. \A i \in DOMAIN ts : i + 1 \in DOMAIN es /\ ts[i] = es[i + 1] /\ i \in Nat
  BY <1>1, <1>2, SMTT(40)
<1>4. \A i \in DOMAIN es : i # 1 => i - 1 \in DOMAIN ts /\ ts[i - 1] = es[i] /\ 1 < i
  BY <1>1, <1>2, SMTT(40)
<1>5. \A i \in DOMAIN es : Numbers(es[i]) \subseteq Nat
  BY <1>2 DEF Numbers
<1>6. Shown(ts) = Shown(es) \ Numbers(es[1])
  <2>1. ASSUME NEW m \in Shown(ts) PROVE m \in Shown(es) \ Numbers(es[1])
    <3>1. PICK i \in DOMAIN ts : m \in Numbers(ts[i])
      BY <2>1 DEF Shown
    <3>2. i + 1 \in DOMAIN es /\ m \in Numbers(es[i + 1]) /\ 1 < i + 1
      BY <3>1, <1>2, <1>3
    <3>3. m \notin Numbers(es[1])
      <4>1. ASSUME m \in Numbers(es[1]) PROVE FALSE
        <5>1. 1 \in DOMAIN es
          BY <1>2
        <5>2. m < m
          BY <3>2, <4>1, <5>1 DEF InOrder
        <5>3. m \in Nat
          BY <4>1, <5>1, <1>5
        <5>4. QED
          BY <5>2, <5>3
      <4>2. QED
        BY <4>1
    <3>4. QED
      BY <3>2, <3>3 DEF Shown
  <2>2. ASSUME NEW m \in Shown(es) \ Numbers(es[1]) PROVE m \in Shown(ts)
    <3>1. PICK i \in DOMAIN es : m \in Numbers(es[i])
      BY <2>2 DEF Shown
    <3>2. i # 1
      BY <2>2, <3>1
    <3>3. QED
      BY <3>1, <3>2, <1>4 DEF Shown
  <2>3. QED
    BY <2>1, <2>2
<1>7. \A i \in DOMAIN ts : \A j, k \in DOMAIN ts[i] : j < k => ts[i][j] < ts[i][k]
  BY <1>3 DEF InOrder
<1>8. \A i, k \in DOMAIN ts : i < k =>
        \A m \in Numbers(ts[i]), q \in Numbers(ts[k]) : m < q
  <2>1. ASSUME NEW i \in DOMAIN ts, NEW k \in DOMAIN ts, i < k,
               NEW m \in Numbers(ts[i]), NEW q \in Numbers(ts[k])
        PROVE  m < q
    <3>1. i + 1 < k + 1 /\ i + 1 \in DOMAIN es /\ k + 1 \in DOMAIN es
      BY <2>1, <1>3
    <3>2. QED
      BY <2>1, <3>1, <1>3 DEF InOrder
  <2>2. QED
    BY <2>1
<1>9. InOrder(ts)
  BY <1>7, <1>8 DEF InOrder
<1>10. QED
  BY <1>1, <1>6, <1>9 DEF ts

LEMMA ConcatKept ==
  ASSUME NEW s \in Seq(Nat), NEW t \in Seq(Nat)
  PROVE  /\ s \o t \in Seq(Nat)
         /\ Numbers(s \o t) = Numbers(s) \cup Numbers(t)
         /\ Rising(s) /\ Rising(t) /\ (\A m \in Numbers(s), n \in Numbers(t) : m < n)
              => Rising(s \o t)
<1> DEFINE c == s \o t
           a == Len(s)
           b == Len(t)
<1>1. /\ c \in Seq(Nat) /\ Len(c) = a + b
      /\ \A i \in 1 .. a + b : c[i] = IF i <= a THEN s[i] ELSE t[i - a]
  OBVIOUS
<1>2. a \in Nat /\ b \in Nat /\ DOMAIN s = 1 .. a /\ DOMAIN t = 1 .. b
  OBVIOUS
<1>3. DOMAIN c = 1 .. (a + b)
  BY <1>1, <1>2
<1> HIDE DEF a, b, c
<1>4. \A i \in 1 .. a : i \in 1 .. (a + b) /\ i <= a
  BY <1>2
<1>5. \A i \in DOMAIN s : i \in DOMAIN c /\ c[i] = s[i]
  BY <1>1, <1>2, <1>3, <1>4
<1>6. \A i \in DOMAIN t : i + a \in DOMAIN c /\ c[i + a] = t[i]
  <2>1. ASSUME NEW i \in 1 .. b PROVE i + a \in 1 .. (a + b) /\ ~(i + a <= a) /\ (i + a) - a = i
    BY <1>2
  <2>2. QED
    BY <2>1, <1>1, <1>2, <1>3
<1>7. \A i \in DOMAIN c : i \notin DOMAIN s =>
        i - a \in DOMAIN t /\ c[i] = t[i - a] /\ i > a /\ i \in Nat
  <2>1. ASSUME NEW i \in 1 .. (a + b), i \notin 1 .. a
        PROVE  i - a \in 1 .. b /\ ~(i <= a) /\ i > a /\ i \in Nat
    BY <1>2, <2>1
  <2>2. QED
    BY <2>1, <1>1, <1>2, <1>3
<1>8. Numbers(c) = Numbers(s) \cup Numbers(t)
  <2>1. ASSUME NEW m \in Numbers(c) PROVE m \in Numbers(s) \cup Numbers(t)
    <3>1. PICK i \in DOMAIN c : m = c[i]
      BY <2>1 DEF Numbers
    <3>2. QED
      BY <3>1, <1>5, <1>7 DEF Numbers
  <2>2. ASSUME NEW m \in Numbers(s) \cup Numbers(t) PROVE m \in Numbers(c)
    BY <2>2, <1>5, <1>6 DEF Numbers
  <2>3. QED
    BY <2>1, <2>2
<1>9. ASSUME Rising(s), Rising(t), \A m \in Numbers(s), n \in Numbers(t) : m < n,
             NEW j \in DOMAIN c, NEW k \in DOMAIN c, j < k
      PROVE  c[j] < c[k]
  <2>1. CASE k \in DOMAIN s
    <3>1. j \in DOMAIN s
      BY <1>2, <1>3, <1>9, <2>1
    <3>2. QED
      BY <1>5, <1>9, <2>1, <3>1 DEF Rising
  <2>2. CASE j \in DOMAIN s /\ k \notin DOMAIN s
    <3>1. c[j] \in Numbers(s)
      BY <1>5, <2>2 DEF Numbers
    <3>2. c[k] \in Numbers(t)
      BY <1>7, <2>2 DEF Numbers
    <3>3. QED
      BY <1>9, <3>1, <3>2
  <2>3. CASE j \notin DOMAIN s /\ k \notin DOMAIN s
    <3>1. /\ j - a \in DOMAIN t /\ c[j] = t[j - a] /\ j \in Nat
          /\ k - a \in DOMAIN t /\ c[k] = t[k - a] /\ k \in Nat
      BY <1>7, <2>3
    <3>2. j - a < k - a
      BY <1>2, <1>9, <3>1
    <3>3. QED
      BY <1>9, <3>1, <3>2 DEF Rising
  <2>4. QED
    BY <2>1, <2>2, <2>3
<1>10. QED
  BY <1>1, <1>8, <1>9 DEF c, Rising

LEMMA MergedKept ==
  ASSUME NEW es \in Seq(Seq(Nat)), Len(es) >= 2, InOrder(es)
  PROVE  /\ Merged(es) \in Seq(Seq(Nat)) /\ Len(Merged(es)) = Len(es) - 1
         /\ Shown(Merged(es)) = Shown(es)
         /\ InOrder(Merged(es))
<1> DEFINE ms == Merged(es)
<1>0. es[1] \in Seq(Nat) /\ es[2] \in Seq(Nat) /\ Len(es) \in Nat /\ DOMAIN es = 1 .. Len(es)
  OBVIOUS
<1>1. /\ SubSeq(es, 3, Len(es)) \in Seq(Seq(Nat))
      /\ Len(SubSeq(es, 3, Len(es))) = Len(es) - 2
      /\ \A i \in 1 .. (Len(es) - 2) : SubSeq(es, 3, Len(es))[i] = es[i + 2]
  <2>1. \A i \in 3 .. Len(es) : es[i] \in Seq(Nat)
    BY <1>0
  <2>2. 3 \in Int /\ Len(es) \in Int /\ 3 <= Len(es) + 1
    BY <1>0
  <2>3. /\ SubSeq(es, 3, Len(es)) \in Seq(Seq(Nat))
        /\ Len(SubSeq(es, 3, Len(es))) = IF 3 <= Len(es) THEN Len(es) - 3 + 1 ELSE 0
        /\ \A i \in 1 .. Len(es) - 3 + 1 : SubSeq(es, 3, Len(es))[i] = es[3 + i - 1]
    BY <2>1, <2>2, SubSeqProperties
  <2>4. \A n \in Nat : n >= 2 =>
          /\ (IF 3 <= n THEN n - 3 + 1 ELSE 0) = n - 2 /\ n - 3 + 1 = n - 2
          /\ \A i \in 1 .. (n - 2) : 3 + i - 1 = i + 2
    OBVIOUS
  <2>5. QED
    BY <1>0, <2>3, <2>4
<1>2. es[1] \o es[2] \in Seq(Nat)
  BY <1>0
<1>3. /\ ms \in Seq(Seq(Nat)) /\ Len(ms) = Len(es) - 1
      /\ ms[1] = es[1] \o es[2]
      /\ \A i \in 2 .. (Len(es) - 1) : ms[i] = es[i + 1]
  BY <1>0, <1>1, <1>2, SMTT(40) DEF Merged
<1>4. DOMAIN ms = 1 .. (Len(es) - 1)
  BY <1>0, <1>3
<1>5. Numbers(es[1] \o es[2]) = Numbers(es[1]) \cup Numbers(es[2])
  BY <1>0, ConcatKept
<1> HIDE DEF ms
<1>6. \A i \in DOMAIN ms : i # 1 =>
        i + 1 \in DOMAIN es /\ ms[i] = es[i + 1] /\ 2 < i + 1 /\ i \in Nat /\ 1 < i
  <2>1. ASSUME NEW i \in 1 .. (Len(es) - 1), i # 1
        PROVE  /\ i + 1 \in 1 .. Len(es) /\ i \in 2 .. (Len(es) - 1)
               /\ 2 < i + 1 /\ i \in Nat /\ 1 < i
    BY <1>0, <2>1
  <2>2. QED
    BY <2>1, <1>0, <1>3, <1>4
<1>7. \A i \in DOMAIN es : i # 1 /\ i # 2 => i - 1 \in DOMAIN ms /\ ms[i - 1] = es[i]
  <2>1. ASSUME NEW i \in DOMAIN es, i # 1, i # 2
        PROVE  i - 1 \in DOMAIN ms /\ ms[i - 1] = es[i]
    <3>0. Len(es) \in Nat /\ i \in 1 .. Len(es)
      BY <1>0
    <3>1. \A n \in Nat : \A x \in 1 .. n : x # 1 /\ x # 2 =>
            x - 1 \in 2 .. (n - 1) /\ (x - 1) + 1 = x
      OBVIOUS
    <3>2. i - 1 \in 2 .. (Len(es) - 1) /\ (i - 1) + 1 = i
      BY <3>0, <3>1, <2>1
    <3>3. QED
      BY <1>0, <1>3, <1>4, <3>2
  <2>2. QED
    BY <2>1
<1>8. 1 \in DOMAIN ms /\ 1 \in DOMAIN es /\ 2 \in DOMAIN es
  BY <1>0, <1>4
<1>9. Numbers(ms[1]) = Numbers(es[1]) \cup Numbers(es[2])
  BY <1>3, <1>5
<1>10. Shown(ms) = Shown(es)
  <2>1. ASSUME NEW m \in Shown(ms) PROVE m \in Shown(es)
    <3>1. PICK i \in DOMAIN ms : m \in Numbers(ms[i])
      BY <2>1 DEF Shown
    <3>2. CASE i = 1
      BY <3>1, <3>2, <1>8, <1>9 DEF Shown
    <3>3. CASE i # 1
      BY <3>1, <3>3, <1>6 DEF Shown
    <3>4. QED
      BY <3>2, <3>3
  <2>2. ASSUME NEW m \in Shown(es) PROVE m \in Shown(ms)
    <3>1. PICK i \in DOMAIN es : m \in Numbers(es[i])
      BY <2>2 DEF Shown
    <3>2. CASE i = 1 \/ i = 2
      BY <3>1, <3>2, <1>8, <1>9 DEF Shown
    <3>3. CASE i # 1 /\ i # 2
      BY <3>1, <3>3, <1>7 DEF Shown
    <3>4. QED
      BY <3>2, <3>3
  <2>3. QED
    BY <2>1, <2>2
<1>11. \A i \in DOMAIN ms : \A j, k \in DOMAIN ms[i] : j < k => ms[i][j] < ms[i][k]
  <2>1. ASSUME NEW i \in DOMAIN ms, NEW j \in DOMAIN ms[i], NEW k \in DOMAIN ms[i], j < k
        PROVE  ms[i][j] < ms[i][k]
    <3>1. CASE i # 1
      BY <2>1, <3>1, <1>6 DEF InOrder
    <3>2. CASE i = 1
      <4>1. Rising(es[1]) /\ Rising(es[2])
        BY <1>8 DEF InOrder, Rising
      <4>2. \A m \in Numbers(es[1]), n \in Numbers(es[2]) : m < n
        <5>1. 1 < 2
          OBVIOUS
        <5>2. QED
          BY <5>1, <1>8 DEF InOrder
      <4>3. Rising(ms[1])
        BY <1>0, <1>3, <4>1, <4>2, ConcatKept
      <4>4. QED
        BY <2>1, <3>2, <4>3 DEF Rising
    <3>3. QED
      BY <3>1, <3>2
  <2>2. QED
    BY <2>1
<1>12. \A i, k \in DOMAIN ms : i < k =>
         \A m \in Numbers(ms[i]), q \in Numbers(ms[k]) : m < q
  <2>1. ASSUME NEW i \in DOMAIN ms, NEW k \in DOMAIN ms, i < k,
               NEW m \in Numbers(ms[i]), NEW q \in Numbers(ms[k])
        PROVE  m < q
    <3>1. k # 1 /\ k + 1 \in DOMAIN es /\ q \in Numbers(es[k + 1]) /\ 2 < k + 1 /\ 1 < k + 1
      BY <2>1, <1>4, <1>6
    <3>2. CASE i = 1
      <4>1. m \in Numbers(es[1]) \/ m \in Numbers(es[2])
        BY <2>1, <3>2, <1>9
      <4>2. QED
        BY <3>1, <4>1, <1>8 DEF InOrder
    <3>3. CASE i # 1
      <4>1. i + 1 \in DOMAIN es /\ m \in Numbers(es[i + 1]) /\ i + 1 < k + 1
        BY <2>1, <3>3, <1>6, <1>4
      <4>2. QED
        BY <3>1, <4>1 DEF InOrder
    <3>4. QED
      BY <3>2, <3>3
  <2>2. QED
    BY <2>1
<1>13. InOrder(ms)
  BY <1>11, <1>12 DEF InOrder
<1>14. QED
  BY <1>3, <1>10, <1>13 DEF ms

LEMMA EmptyRing ==
  /\ Shown(<<>>) = {} /\ InOrder(<<>>)
  /\ entries = <<>> /\ told = 0 /\ forgotten = {} /\ overrun = FALSE
       /\ historyMax \in Nat => StmInv
<1>1. DOMAIN <<>> = {} /\ <<>> \in Seq(Seq(Nat)) /\ Len(<<>>) = 0 /\ 1 .. 0 = {}
  OBVIOUS
<1>2. Shown(<<>>) = {} /\ InOrder(<<>>)
  BY <1>1 DEF Shown, InOrder
<1>3. ASSUME entries = <<>>, told = 0, forgotten = {}, overrun = FALSE, historyMax \in Nat
      PROVE  StmInv
  <2>1. told \in 0 .. MaxTold
    BY <1>3, KnowledgeAssumption
  <2>2. Shown(entries) = (1 .. told) \ forgotten /\ forgotten \subseteq 1 .. told
    BY <1>1, <1>2, <1>3
  <2>3. Len(entries) <= historyMax
    BY <1>1, <1>3
  <2>4. QED
    BY <1>1, <1>2, <1>3, <2>1, <2>2, <2>3 DEF StmInv, HistoryKept
<1>4. QED
  BY <1>2, <1>3

LEMMA StmStep == StmInv /\ historyMax > 0 /\ StmAdd => StmInv'
<1> SUFFICES ASSUME StmInv, historyMax > 0, StmAdd PROVE StmInv'
  OBVIOUS
<1>0. /\ historyMax \in Nat /\ entries \in Seq(Seq(Nat)) /\ Len(entries) <= historyMax
      /\ told \in 0 .. MaxTold /\ told \in Nat /\ MaxTold \in Nat /\ forgotten \subseteq 1 .. told
      /\ Shown(entries) = (1 .. told) \ forgotten /\ InOrder(entries)
      /\ told < MaxTold /\ ~(Full /\ historyMax = 1)
      /\ told' = told + 1 /\ historyMax' = historyMax /\ overrun' = overrun
  BY KnowledgeAssumption DEF StmInv, HistoryKept, StmAdd
<1>1. PICK merged \in BOOLEAN, copied \in BOOLEAN :
        /\ ~Full => merged
        /\ entries' = IF copied
             THEN Append(IF Full THEN Room(entries, merged) ELSE entries, <<told + 1>>)
             ELSE IF Full THEN Room(entries, merged) ELSE entries
        /\ forgotten' = forgotten \cup (IF copied THEN {} ELSE {told + 1})
             \cup (IF merged THEN {} ELSE Numbers(entries[1]))
  BY DEF StmAdd
<1> DEFINE kept == IF Full THEN Room(entries, merged) ELSE entries
           lost == IF merged THEN {} ELSE Numbers(entries[1])
<1>2. /\ kept \in Seq(Seq(Nat)) /\ Len(kept) + 1 <= historyMax
      /\ Shown(kept) = Shown(entries) \ lost /\ InOrder(kept)
      /\ lost \subseteq Shown(entries)
  <2>1. CASE ~Full
    <3>1. kept = entries /\ lost = {}
      BY <1>1, <2>1
    <3>2. Len(entries) + 1 <= historyMax
      <4>1. Len(entries) \in Nat
        BY <1>0
      <4>2. QED
        BY <1>0, <2>1, <4>1 DEF Full
    <3>3. QED
      BY <1>0, <3>1, <3>2
  <2>2. CASE Full
    <3>0. Len(entries) \in Nat /\ Len(entries) >= 2 /\ entries # <<>> /\ 1 \in DOMAIN entries
      BY <1>0, <2>2 DEF Full
    <3>1. CASE merged
      <4>1. kept = Merged(entries) /\ lost = {}
        BY <2>2, <3>1 DEF Room
      <4>2. QED
        BY <1>0, <3>0, <4>1, MergedKept
    <3>2. CASE ~merged
      <4>1. kept = Tail(entries) /\ lost = Numbers(entries[1])
        BY <2>2, <3>2 DEF Room
      <4>2. lost \subseteq Shown(entries)
        BY <3>0, <4>1 DEF Shown
      <4>3. /\ Tail(entries) \in Seq(Seq(Nat)) /\ Len(Tail(entries)) = Len(entries) - 1
            /\ Shown(Tail(entries)) = Shown(entries) \ Numbers(entries[1])
            /\ InOrder(Tail(entries))
        BY <1>0, <3>0, TailKept
      <4>4. Len(Tail(entries)) + 1 <= historyMax
        BY <1>0, <3>0, <4>3
      <4>5. QED
        BY <4>1, <4>2, <4>3, <4>4
    <3>3. QED
      BY <3>1, <3>2
  <2>3. QED
    BY <2>1, <2>2
<1>3. /\ entries' = IF copied THEN Append(kept, <<told + 1>>) ELSE kept
      /\ forgotten' = forgotten \cup (IF copied THEN {} ELSE {told + 1}) \cup lost
  BY <1>1
<1> HIDE DEF kept, lost
<1>4. told' \in 0 .. MaxTold /\ 1 .. told' = (1 .. told) \cup {told + 1}
      /\ told + 1 \notin 1 .. told /\ told + 1 \in Nat
  BY <1>0
<1>5. lost \subseteq 1 .. told /\ lost \cap forgotten = {} /\ told + 1 \notin lost
  BY <1>0, <1>2, <1>4
<1>6. forgotten' \subseteq 1 .. told'
  BY <1>0, <1>3, <1>4, <1>5
<1>7. \A m \in Shown(kept) : m < told + 1
  BY <1>0, <1>2
<1>8. /\ entries' \in Seq(Seq(Nat)) /\ Len(entries') <= historyMax'
      /\ Shown(entries') = (1 .. told') \ forgotten' /\ InOrder(entries')
  <2>1. CASE copied
    <3>1. /\ entries' = Append(kept, <<told + 1>>) /\ forgotten' = forgotten \cup lost
      BY <1>3, <2>1
    <3>2. /\ entries' \in Seq(Seq(Nat)) /\ InOrder(entries')
          /\ Shown(entries') = Shown(kept) \cup {told + 1}
      BY <1>2, <1>4, <1>7, <3>1, AppendKept
    <3>3. Len(entries') = Len(kept) + 1
      BY <1>2, <3>1
    <3>4. Shown(entries') = (1 .. told') \ forgotten'
      BY <1>0, <1>2, <1>4, <1>5, <3>1, <3>2
    <3>5. QED
      BY <1>0, <1>2, <3>2, <3>3, <3>4
  <2>2. CASE ~copied
    <3>1. /\ entries' = kept /\ forgotten' = forgotten \cup {told + 1} \cup lost
      BY <1>3, <2>2
    <3>2. Shown(entries') = (1 .. told') \ forgotten'
      BY <1>0, <1>2, <1>4, <1>5, <3>1
    <3>3. Len(entries') \in Nat
      BY <1>2, <3>1
    <3>4. QED
      BY <1>0, <1>2, <3>1, <3>2, <3>3
  <2>3. QED
    BY <2>1, <2>2
<1>9. (overrun => historyMax = 1)' /\ overrun' \in BOOLEAN /\ historyMax' \in Nat
  BY <1>0 DEF StmInv, HistoryKept
<1>10. QED
  BY <1>4, <1>6, <1>8, <1>9 DEF StmInv, HistoryKept

LEMMA OverrunStep == StmInv /\ StmOverrun => StmInv'
  BY DEF StmInv, HistoryKept, StmOverrun

-----------------------------------------------------------------------------
(* The radio and its events.                                               *)

LEMMA AppendPair ==
  ASSUME NEW S, NEW x \in S, NEW y \in S
  PROVE  Append(<<x>>, y) = <<x, y>>
<1> DEFINE s == <<x>>
           a == Append(s, y)
           b == <<x, y>>
<1>1. s \in Seq(S) /\ Len(s) = 1 /\ s[1] = x
  OBVIOUS
<1>2. b \in Seq(S) /\ Len(b) = 2 /\ b[1] = x /\ b[2] = y
  OBVIOUS
<1> HIDE DEF s
<1>3. /\ a \in Seq(S) /\ Len(a) = Len(s) + 1 /\ a[Len(s) + 1] = y
      /\ \A i \in 1 .. Len(s) : a[i] = s[i]
  <2>1. \A q \in Seq(S) :
          /\ Append(q, y) \in Seq(S) /\ Len(Append(q, y)) = Len(q) + 1
          /\ Append(q, y)[Len(q) + 1] = y
          /\ \A i \in 1 .. Len(q) : Append(q, y)[i] = q[i]
    <3>1. ASSUME NEW q \in Seq(S)
          PROVE  /\ Append(q, y) \in Seq(S) /\ Len(Append(q, y)) = Len(q) + 1
                 /\ Append(q, y)[Len(q) + 1] = y
                 /\ \A i \in 1 .. Len(q) : Append(q, y)[i] = q[i]
      <4>1. Append(q, y)[Len(q) + 1] = y
        BY AppendProperties, Zenon
      <4>2. QED
        BY <4>1
    <3>2. QED
      BY <3>1
  <2>2. QED
    BY <1>1, <2>1, Zenon
<1> HIDE DEF a, b
<1>4. Len(a) = 2 /\ a[1] = x /\ a[2] = y
  BY <1>1, <1>3
<1>5. \A i \in 1 .. Len(a) : i = 1 \/ i = 2
  BY <1>4
<1>6. a = b
  BY <1>2, <1>3, <1>4, <1>5, SeqEqual
<1>7. QED
  BY <1>6 DEF a, b, s

LEMMA JoinStep == AirInv /\ Join => AirInv' /\ air' # "off"
<1> SUFFICES ASSUME AirInv, Join PROVE AirInv' /\ air' # "off"
  OBVIOUS
<1>1. air = "connecting" /\ events = <<>> /\ ~ip
  BY DEF AirInv, EventInv, Join
<1>2. /\ UNCHANGED <<ip, netBits, retries, inited, sntp, losses>>
      /\ \/ air' = "linked" /\ events' = <<"gotIp">>
         \/ air' = "idle" /\ events' = <<"lost">>
  BY <1>1 DEF Join
<1>3. airLeft' \in Nat
  BY DEF AirInv, Join, Changed
<1>4. QED
  BY <1>1, <1>2, <1>3 DEF AirInv, EventInv, GivesUpLate, Airs

LEMMA DropStep == AirInv /\ Drop => AirInv' /\ air' # "off"
<1> SUFFICES ASSUME AirInv, Drop PROVE AirInv' /\ air' # "off"
  OBVIOUS
<1>1. air = "linked" /\ (events = <<>> \/ events = <<"gotIp">>)
  BY DEF AirInv, EventInv, Drop
<1>2. /\ UNCHANGED <<ip, netBits, retries, inited, sntp, losses>> /\ air' = "idle"
      /\ events' = Append(events, "lost")
  BY DEF Drop
<1>3. airLeft' \in Nat
  BY DEF AirInv, Drop, Changed
<1>4. Append(<<>>, "lost") = <<"lost">> /\ Append(<<"gotIp">>, "lost") = <<"gotIp", "lost">>
  <2>1. Append(<<>>, "lost") = <<"lost">>
    OBVIOUS
  <2>2. "gotIp" \in {"gotIp", "lost"} /\ "lost" \in {"gotIp", "lost"}
    OBVIOUS
  <2>3. QED
    BY <2>1, <2>2, AppendPair
<1>5. events' = <<"lost">> \/ events' = <<"gotIp", "lost">>
  BY <1>1, <1>2, <1>4
<1>6. QED
  BY <1>1, <1>2, <1>3, <1>5 DEF AirInv, EventInv, GivesUpLate, Airs

LEMMA LostStep ==
  AirInv /\ air = "idle" /\ OnLost =>
    /\ air' \in {"idle", "connecting"} /\ ~ip' /\ ip' \in BOOLEAN
    /\ netBits' \subseteq {"CONNECTED", "FAIL"}
    /\ retries' \in 0 .. RetryLimit /\ losses' \in Nat /\ retries' <= losses'
    /\ air' = "idle" => "FAIL" \in netBits' /\ losses' > RetryLimit
<1> SUFFICES ASSUME AirInv, air = "idle", OnLost
             PROVE  /\ air' \in {"idle", "connecting"} /\ ~ip' /\ ip' \in BOOLEAN
                    /\ netBits' \subseteq {"CONNECTED", "FAIL"}
                    /\ retries' \in 0 .. RetryLimit /\ losses' \in Nat /\ retries' <= losses'
                    /\ air' = "idle" => "FAIL" \in netBits' /\ losses' > RetryLimit
  OBVIOUS
<1>0. /\ retries \in 0 .. RetryLimit /\ losses \in Nat /\ retries <= losses
      /\ RetryLimit \in Nat /\ netBits \subseteq {"CONNECTED", "FAIL"}
  BY WifiAssumption DEF AirInv
<1>1. ip' = FALSE /\ losses' = losses + 1
  BY DEF OnLost
<1>2. CASE retries < RetryLimit
  <2>1. /\ air' = "connecting" /\ retries' = retries + 1
        /\ netBits' = netBits \ {"CONNECTED"}
    BY <1>2 DEF OnLost, Connect
  <2>2. retries' \in 0 .. RetryLimit /\ losses' \in Nat /\ retries' <= losses'
    BY <1>0, <1>1, <1>2, <2>1
  <2>3. QED
    BY <1>0, <1>1, <2>1, <2>2
<1>3. CASE ~(retries < RetryLimit)
  <2>1. /\ air' = "idle" /\ retries' = retries
        /\ netBits' = (netBits \ {"CONNECTED"}) \cup {"FAIL"}
    BY <1>3 DEF OnLost
  <2>2. /\ retries' \in 0 .. RetryLimit /\ losses' \in Nat /\ retries' <= losses'
        /\ losses' > RetryLimit
    BY <1>0, <1>1, <1>3, <2>1
  <2>3. QED
    BY <1>0, <1>1, <2>1, <2>2
<1>4. QED
  BY <1>2, <1>3

LEMMA HandleStep == AirInv /\ Handle => AirInv' /\ air' # "off"
<1> SUFFICES ASSUME AirInv, Handle PROVE AirInv' /\ air' # "off"
  OBVIOUS
<1>0. UNCHANGED <<inited, sntp, airLeft>> /\ events' = Tail(events) /\ events # <<>>
  BY DEF Handle
<1>1. CASE events = <<"start">>
  <2>1. events' = <<>> /\ OnStart
    BY <1>1 DEF Handle
  <2>2. air = "idle" /\ ~ip
    BY <1>1 DEF AirInv, EventInv
  <2>3. air' = "connecting" /\ UNCHANGED <<ip, netBits, retries, losses>>
    BY <2>1, <2>2 DEF OnStart, Connect
  <2>4. QED
    BY <1>0, <2>1, <2>2, <2>3 DEF AirInv, EventInv, GivesUpLate, Airs
<1>2. CASE events = <<"lost">>
  <2>1. events' = <<>> /\ OnLost
    BY <1>2 DEF Handle
  <2>2. air = "idle"
    BY <1>2 DEF AirInv, EventInv
  <2>3. QED
    BY <1>0, <2>1, <2>2, LostStep DEF AirInv, EventInv, GivesUpLate, Airs
<1>3. CASE events = <<"gotIp">> \/ events = <<"gotIp", "lost">>
  <2>0. /\ Head(<<"gotIp">>) = "gotIp" /\ Head(<<"gotIp", "lost">>) = "gotIp"
        /\ Tail(<<"gotIp">>) = <<>> /\ Tail(<<"gotIp", "lost">>) = <<"lost">>
    OBVIOUS
  <2>1. OnGotIp
    <3>1. Head(events) = "gotIp"
      BY <1>3, <2>0
    <3>2. QED
      BY <3>1 DEF Handle
  <2>2. \/ events' = <<>> /\ air = "linked"
        \/ events' = <<"lost">> /\ air = "idle"
    <3>1. CASE events = <<"gotIp">>
      BY <1>0, <2>0, <3>1 DEF AirInv, EventInv
    <3>2. CASE events = <<"gotIp", "lost">>
      <4>1. air = "idle"
        BY <3>2 DEF AirInv, EventInv
      <4>2. QED
        BY <1>0, <2>0, <3>2, <4>1
    <3>3. QED
      BY <1>3, <3>1, <3>2
  <2>3. /\ ip' = TRUE /\ retries' = 0 /\ losses' = 0 /\ air' = air
        /\ netBits' \subseteq {"CONNECTED", "FAIL"}
    BY <2>1 DEF OnGotIp, AirInv
  <2>4. retries' \in 0 .. RetryLimit /\ losses' \in Nat /\ retries' <= losses'
    BY <2>3, WifiAssumption
  <2>5. QED
    BY <1>0, <2>2, <2>3, <2>4 DEF AirInv, EventInv, GivesUpLate, Airs
<1>4. QED
  BY <1>0, <1>1, <1>2, <1>3 DEF AirInv, EventInv

LEMMA StartStep == AirInv /\ air = "off" /\ StartStation => AirInv' /\ air' # "off"
<1> SUFFICES ASSUME AirInv, air = "off", StartStation PROVE AirInv' /\ air' # "off"
  OBVIOUS
<1>1. events = <<>> /\ ~ip
  BY DEF AirInv, EventInv
<1>2. /\ air' = "idle" /\ events' = <<"start">>
      /\ UNCHANGED <<ip, netBits, retries, inited, sntp, airLeft, losses>>
  BY DEF StartStation
<1>3. QED
  BY <1>1, <1>2 DEF AirInv, EventInv, GivesUpLate, Airs

LEMMA WaitedStep == AirInv /\ StationWaited => AirInv' /\ UNCHANGED <<air, events>>
<1>1. StationWaited => inited' \in BOOLEAN
  <2>1. ("CONNECTED" \in netBits) \in BOOLEAN
    OBVIOUS
  <2>2. QED
    BY <2>1, Zenon DEF StationWaited
<1>2. QED
  BY <1>1 DEF AirInv, EventInv, GivesUpLate, StationWaited

LEMMA SntpStep == AirInv /\ StartSntp => AirInv' /\ UNCHANGED <<air, events>>
<1>1. AirInv /\ StartSntp => sntp' \in BOOLEAN
  BY Zenon DEF StartSntp, AirInv
<1>2. QED
  BY <1>1 DEF AirInv, EventInv, GivesUpLate, StartSntp

-----------------------------------------------------------------------------
(* The profiles, their cache, and the page that writes behind its back.    *)

(* A text that says nothing twice. *)
Once(text) ==
  \A i, j \in DOMAIN text : i < j => <<text[i], text[j]>> \notin Restates

LEMMA GetStep == ProfileInv /\ GetDefault /\ turn' = "cache" => ProfileInv'
<1> SUFFICES ASSUME ProfileInv, GetDefault, turn' = "cache" PROVE ProfileInv'
  OBVIOUS
<1>0. UNCHANGED <<profile, cacheId, cacheText, active, blind>> /\ reading = NoText
  BY DEF GetDefault
<1>1. CASE CacheHit
  <2>1. UNCHANGED <<reading, edited>>
    BY <1>1 DEF GetDefault
  <2>2. QED
    BY <1>0, <2>1 DEF ProfileInv, ProfilesSound, CacheFresh, SaysItOnce
<1>2. CASE ~CacheHit
  <2>1. /\ reading' = NoText \/ reading' = profile[Default]
        /\ edited' = edited \ {Default}
    BY <1>2 DEF GetDefault
  <2>2. cacheText = NoText
    BY <1>2 DEF CacheHit, ProfileInv, ProfilesSound, CacheFresh
  <2>3. QED
    BY <1>0, <2>1, <2>2 DEF ProfileInv, ProfilesSound, CacheFresh, SaysItOnce
<1>3. QED
  BY <1>1, <1>2

LEMMA CacheStep == ProfileInv /\ CacheDefault /\ turn' = "answer" => ProfileInv'
<1> SUFFICES ASSUME ProfileInv, CacheDefault, turn' = "answer" PROVE ProfileInv'
  OBVIOUS
<1>1. /\ reading # NoText /\ reading' = NoText /\ UNCHANGED <<profile, active, edited, blind>>
      /\ \/ cacheId' = Default /\ cacheText' = reading
         \/ cacheId' = cacheId /\ cacheText' = cacheText
  BY DEF CacheDefault
<1>2. Default \in Profiles
  BY KnowledgeAssumption
<1>3. QED
  BY <1>1, <1>2 DEF ProfileInv, ProfilesSound, CacheFresh, SaysItOnce

LEMMA SwitchStep == ProfileInv /\ SwitchProfile /\ turn # "cache" => ProfileInv'
  BY DEF ProfileInv, ProfilesSound, CacheFresh, SaysItOnce, SwitchProfile, cacheVars

LEMMA DiscoverStep ==
  ASSUME ProfileInv, turn # "cache", NEW l \in Lines, AppendLine(l)
  PROVE  ProfileInv'
<1> DEFINE old == Text(active)
           new == Append(old, l)
<1>0. /\ active \in Profiles /\ reading = NoText
      /\ UNCHANGED <<reading, active, edited>>
      /\ cacheId' = NoText /\ cacheText' = NoText
      /\ profile' = [profile EXCEPT ![active] = new]
      /\ (~Similar(old, l) /\ blind' = blind) \/ blind' = blind \cup {active}
  BY DEF AppendLine, Invalidated, ProfileInv
<1>1. old \in Seq(Lines) /\ (active \notin blind => Once(old))
  <2>1. CASE profile[active] = NoFile
    <3>1. old = <<>>
      BY <2>1 DEF Text
    <3>2. DOMAIN old = {} /\ old \in Seq(Lines)
      BY <3>1
    <3>3. QED
      BY <3>2 DEF Once
  <2>2. CASE profile[active] # NoFile
    BY <1>0, <2>2 DEF Text, ProfileInv, ProfilesSound, SaysItOnce, Once
  <2>3. QED
    BY <2>1, <2>2
<1> HIDE DEF old
<1>2. new \in Seq(Lines) /\ (active \notin blind' => Once(new))
  <2>1. /\ new \in Seq(Lines) /\ Len(new) = Len(old) + 1 /\ Len(old) \in Nat
        /\ \A i \in 1 .. Len(old) : new[i] = old[i]
    BY <1>1
  <2>2. new[Len(old) + 1] = l
    BY <1>1, AppendProperties
  <2>3. DOMAIN old = 1 .. Len(old) /\ DOMAIN new = 1 .. (Len(old) + 1)
    BY <1>1, <2>1
  <2> HIDE DEF new
  <2>4. ASSUME active \notin blind', NEW i \in DOMAIN new, NEW j \in DOMAIN new, i < j
        PROVE  <<new[i], new[j]>> \notin Restates
    <3>0. ~Similar(old, l) /\ active \notin blind
      BY <1>0, <2>4
    <3>1. \A n \in Nat : \A x, y \in 1 .. (n + 1) :
            x < y => x \in 1 .. n /\ (y \in 1 .. n \/ y = n + 1)
      OBVIOUS
    <3>2. i \in DOMAIN old /\ new[i] = old[i] /\ (j \in DOMAIN old \/ j = Len(old) + 1)
      BY <2>1, <2>3, <2>4, <3>1
    <3>3. CASE j \in DOMAIN old
      BY <1>1, <2>1, <2>3, <2>4, <3>0, <3>2, <3>3 DEF Once
    <3>4. CASE j = Len(old) + 1
      BY <2>2, <3>0, <3>2, <3>4 DEF Similar
    <3>5. QED
      BY <3>2, <3>3, <3>4
  <2>5. QED
    BY <2>1, <2>4 DEF Once
<1> HIDE DEF new
<1>3. /\ profile' = [p \in Profiles |-> profile'[p]]
      /\ profile'[active] = new
      /\ \A p \in Profiles : p # active => profile'[p] = profile[p]
  BY <1>0 DEF ProfileInv
<1>4. SaysItOnce'
  BY <1>0, <1>2, <1>3 DEF SaysItOnce, Once, ProfileInv, ProfilesSound
<1>5. CacheFresh'
  BY <1>0 DEF CacheFresh
<1>6. QED
  BY <1>0, <1>2, <1>3, <1>4, <1>5 DEF ProfileInv, ProfilesSound

LEMMA WriteStep ==
  ASSUME ProfileInv, NEW p \in Profiles, NEW text, WriteProfile(p, text),
         text \in {NoFile} \cup {t \in Seq(Lines) : Once(t)}, turn' = turn
  PROVE  ProfileInv'
<1>0. /\ profile' = [profile EXCEPT ![p] = text]
      /\ edited' = edited \cup {p} /\ blind' = blind \ {p}
      /\ UNCHANGED <<cacheId, cacheText, reading, active>>
  BY DEF WriteProfile, cacheVars
<1>1. /\ profile' = [q \in Profiles |-> profile'[q]]
      /\ profile'[p] = text
      /\ \A q \in Profiles : q # p => profile'[q] = profile[q]
  BY <1>0 DEF ProfileInv
<1>2. SaysItOnce'
  <2>1. \A q \in Profiles \ blind' : q = p \/ (q \in Profiles \ blind /\ profile'[q] = profile[q])
    BY <1>0, <1>1
  <2>2. profile'[p] # NoFile => Once(profile'[p])
    BY <1>1
  <2>3. \A q \in Profiles \ blind : profile[q] # NoFile => Once(profile[q])
    BY DEF ProfileInv, ProfilesSound, SaysItOnce, Once
  <2>4. \A q \in Profiles \ blind' : profile'[q] # NoFile => Once(profile'[q])
    BY <2>1, <2>2, <2>3
  <2> QED BY <2>4 DEF SaysItOnce, Once
<1>3. Default \in Profiles
  BY KnowledgeAssumption
<1>4. CacheFresh'
  BY <1>0, <1>1, <1>3 DEF CacheFresh, ProfileInv, ProfilesSound
<1>5. reading' # NoText /\ Default \notin edited' => reading' = profile'[Default]
  BY <1>0, <1>1, <1>3 DEF ProfileInv
<1>6. QED
  BY <1>0, <1>1, <1>2, <1>4, <1>5 DEF ProfileInv, ProfilesSound

LEMMA ForgetStep == ProfileInv /\ Forget => ProfileInv' /\ StmInv'
<1> SUFFICES ASSUME ProfileInv, Forget PROVE ProfileInv' /\ StmInv'
  OBVIOUS
<1>1. /\ entries' = <<>> /\ overrun' = FALSE /\ told' = 0 /\ forgotten' = {}
      /\ historyMax' = 0 /\ cacheId' = NoText /\ cacheText' = NoText
      /\ reading' = NoText /\ active' = Default /\ UNCHANGED <<profile, edited, blind>>
  BY DEF Forget
<1>2. ProfileInv'
  BY <1>1, KnowledgeAssumption DEF ProfileInv, ProfilesSound, CacheFresh, SaysItOnce
<1>3. QED
  <2>1. (entries = <<>> /\ told = 0 /\ forgotten = {} /\ overrun = FALSE
           /\ historyMax \in Nat => StmInv)'
    BY EmptyRing, PTL
  <2>2. QED
    BY <1>1, <1>2, <2>1

-----------------------------------------------------------------------------
(* app_main, step by step.                                                 *)

Stages == {Order[i] : i \in DOMAIN Order}

LEMMA Advance ==
  ASSUME OrderInv, LifeType, NEW s \in Stages \ {"stm"}, step = s,
         \/ step' = NextStep(s) /\ ready' = ready \cup {s}
         \/ step' \in {NextStep(s), "returned"} /\ ready' = ready,
         UNCHANGED <<air, events, stmVars, task>>
  PROVE  OrderInv' /\ step' \in Stages \cup Settled /\ ready' \subseteq Stages
<1>1. /\ NextStep(s) \in Stages \cup Settled
      /\ s \in AfterStm \ {"loop"} => NextStep(s) \in AfterStm
      /\ s \notin AfterStm => NextStep(s) \notin AfterStm
      /\ s \notin {"sd", "config", "uvc"} => NextStep(s) \notin {"sd", "config", "uvc", "wifi"}
      /\ s = "loop" => NextStep(s) = "up"
  BY Steps DEF Stages
<1>2. s # "up" /\ "returned" \in Settled /\ "returned" \notin AfterStm
  BY Steps DEF Stages, Settled, AfterStm
<1>3. step' \in Stages \cup Settled /\ ready' \subseteq Stages
  BY <1>1, <1>2 DEF LifeType, Stages
<1>4. "loop" \notin ready
  BY <1>2 DEF OrderInv
<1>5. "loop" \in ready' => step' = "up"
  BY <1>1, <1>4
<1>6. step' \in {"sd", "config", "uvc", "wifi"} => air' = "off"
  BY <1>1 DEF OrderInv
<1>7. step' \in AfterStm => historyMax' > 0
  BY <1>1, <1>2 DEF OrderInv, stmVars
<1>8. QED
  BY <1>3, <1>4, <1>5, <1>6, <1>7 DEF OrderInv, stmVars

LEMMA OtherStep ==
  ASSUME BootInv, OtherSteps, UNCHANGED <<wifiVars, stmVars, profileVars, cardVars>>,
         RestOfLife
  PROVE  BootInv'
<1> USE DEF BootInv
<1>0. /\ UNCHANGED <<task, turn, rebooting, air, events, config, prompt, editing>>
  BY DEF RestOfLife, wifiVars, cardVars
<1> DEFINE Goes == \E s \in Stages \ {"stm"} :
             /\ step = s
             /\ \/ step' = NextStep(s) /\ ready' = ready \cup {s}
                \/ step' \in {NextStep(s), "returned"} /\ ready' = ready
<1>1. Goes /\ ssid' \in BOOLEAN
  <2>1. ASSUME NEW s \in {"sd", "uvc", "sessions", "cloud", "agent", "loop"}, Fatal(s)
        PROVE  Goes /\ ssid' = ssid
    BY <2>1, Steps DEF Fatal, Came, Stages
  <2>2. ASSUME NEW s \in {"hid", "buttons", "web"}, Optional(s)
        PROVE  Goes /\ ssid' = ssid
    BY <2>2, Steps DEF Optional, Proceed, Came, Stages
  <2>3. ASSUME LoadConfig PROVE Goes /\ ssid' \in BOOLEAN
    <3>1. Goes
      BY <2>3, Steps DEF LoadConfig, Proceed, Came, Stages
    <3>2. ssid' \in BOOLEAN
      <4>1. ssid' = (config # NoFile /\ config.ssid)
        BY <2>3 DEF LoadConfig
      <4>2. config # NoFile => config.ssid \in BOOLEAN
        BY BootAssumption DEF LifeType
      <4>3. (config # NoFile /\ config.ssid) \in BOOLEAN
        OBVIOUS
      <4>4. QED
        BY <4>1, <4>3, Zenon
    <3>3. QED
      BY <3>1, <3>2
  <2>4. ASSUME LoadPrompts PROVE Goes /\ ssid' = ssid
    BY <2>4, Steps DEF LoadPrompts, Came, Stages
  <2>5. ssid \in BOOLEAN
    BY DEF LifeType
  <2>6. QED
    BY <2>1, <2>2, <2>3, <2>4, <2>5 DEF OtherSteps, CreateLoop
<1>2. OrderInv' /\ step' \in Stages \cup Settled /\ ready' \subseteq Stages
  BY <1>0, <1>1, Advance
<1>3. LifeType'
  BY <1>0, <1>1, <1>2 DEF LifeType, Stages
<1>4. AirInv' /\ StmInv' /\ ProfileInv'
  BY <1>0, AirSame, StmSame, ProfileSame
<1>5. QED
  BY <1>2, <1>3, <1>4

LEMMA InitStmStep ==
  ASSUME BootInv, InitStm, UNCHANGED <<wifiVars, profileVars, cardVars>>, RestOfLife
  PROVE  BootInv'
<1> USE DEF BootInv
<1>0. /\ UNCHANGED <<task, turn, rebooting, air, events, config, prompt, editing,
                     ssid, entries, overrun, told, forgotten>>
      /\ step = "stm" /\ step' = "cloud" /\ ready' = ready \cup {"stm"}
  BY Steps DEF RestOfLife, wifiVars, cardVars, InitStm, Proceed, Came
<1>1. historyMax' \in Nat /\ historyMax' > 0
  <2>1. HistoryLength \in Nat
    <3>1. config # NoFile => config.len \in Nat
      BY BootAssumption DEF LifeType
    <3>2. DefaultLen \in Nat
      BY BootAssumption
    <3>3. QED
      BY <3>1, <3>2 DEF HistoryLength
  <2>2. historyMax' = IF HistoryLength > 0 THEN HistoryLength ELSE DefaultLen
    BY DEF InitStm, StmInit
  <2>3. DefaultLen \in Nat /\ DefaultLen > 0
    BY BootAssumption
  <2>4. QED
    BY <2>1, <2>2, <2>3
<1>2. "loop" \notin ready /\ "loop" \notin ready'
  BY <1>0 DEF OrderInv
<1>3. OrderInv'
  BY <1>0, <1>1, <1>2 DEF OrderInv, AfterStm
<1>4. LifeType'
  BY <1>0, Steps DEF LifeType
<1>5. StmInv'
  <2>1. entries = <<>> /\ told = 0 /\ forgotten = {} /\ overrun = FALSE
    BY <1>2 DEF OrderInv, StmInv
  <2>2. (entries = <<>> /\ told = 0 /\ forgotten = {} /\ overrun = FALSE
           /\ historyMax \in Nat => StmInv)'
    BY EmptyRing, PTL
  <2>3. QED
    BY <1>0, <1>1, <2>1, <2>2
<1>6. QED
  BY <1>0, <1>3, <1>4, <1>5, AirSame, ProfileSame

LEMMA NetStep ==
  ASSUME BootInv, StartWifi \/ WaitWifi \/ SyncTime,
         UNCHANGED <<stmVars, profileVars, cardVars>>, RestOfLife
  PROVE  BootInv'
<1> USE DEF BootInv
<1>0. UNCHANGED <<task, turn, rebooting, config, prompt, editing>>
  BY DEF RestOfLife, cardVars
<1>1. CASE StartWifi
  <2>1. step = "wifi" /\ air = "off" /\ ssid' = ssid
    BY <1>1 DEF StartWifi, OrderInv
  <2>2. AirInv' /\ (air' = "off" => events' = <<>>)
    BY <1>1, <2>1, AirSame, StartStep DEF StartWifi, wifiVars, OrderInv
  <2>3. step' \in {"wifiWait", "sntp"} /\ (ready' = ready \/ ready' = ready \cup {"wifi"})
    BY <1>1 DEF StartWifi, Came
  <2>4. LifeType'
    BY <1>0, <2>1, <2>3, Steps DEF LifeType
  <2>5. OrderInv'
    BY <1>0, <2>1, <2>2, <2>3 DEF OrderInv, AfterStm, stmVars
  <2>6. QED
    BY <1>0, <2>2, <2>4, <2>5, StmSame, ProfileSame
<1>2. CASE WaitWifi \/ SyncTime
  <2>1. AirInv' /\ UNCHANGED <<air, events>>
    BY <1>2, WaitedStep, SntpStep DEF WaitWifi, SyncTime
  <2>2. /\ step \in {"wifiWait", "sntp"} /\ step' = NextStep(step)
        /\ ready' = ready /\ ssid' = ssid
    BY <1>2 DEF WaitWifi, SyncTime, Proceed
  <2>3. OrderInv' /\ step' \in Stages \cup Settled /\ ready' \subseteq Stages
    <3>1. step \in Stages \ {"stm"}
      BY <2>2, Steps DEF Stages
    <3>2. QED
      BY <1>0, <2>1, <2>2, <3>1, Advance
  <2>4. LifeType'
    BY <1>0, <2>2, <2>3 DEF LifeType, Stages
  <2>5. QED
    BY <1>0, <2>1, <2>3, <2>4, StmSame, ProfileSame
<1>3. QED
  BY <1>1, <1>2

LEMMA MainStep == BootInv /\ Main => BootInv'
  BY OtherStep, InitStmStep, NetStep DEF Main

-----------------------------------------------------------------------------
(* The services, and the turns of the agent loop.                          *)

LEMMA TaskStep == BootInv /\ (StartTask \/ TakeTask \/ AskReboot) => BootInv'
<1> SUFFICES ASSUME BootInv, StartTask \/ TakeTask \/ AskReboot PROVE BootInv'
  OBVIOUS
<1> USE DEF BootInv
<1>1. /\ UNCHANGED <<wifiVars, knowledgeVars, cardVars, step, ssid, ready, turn>>
      /\ task' \in {"none", "accepted", "taken"} /\ rebooting' \in BOOLEAN
      /\ task' = "taken" => "loop" \in ready
  BY DEF StartTask, TakeTask, AskReboot, LifeType, OrderInv
<1>2. UNCHANGED <<wifiVars, stmVars, profileVars, turn>>
  BY <1>1 DEF knowledgeVars
<1>3. LifeType'
  BY <1>1 DEF LifeType, cardVars
<1>4. OrderInv'
  BY <1>1, <1>2 DEF OrderInv, wifiVars, stmVars
<1>5. QED
  BY <1>2, <1>3, <1>4, AirSame, StmSame, ProfileSame

LEMMA TurnStep == BootInv /\ Turn => BootInv'
<1> SUFFICES ASSUME BootInv, Turn PROVE BootInv'
  OBVIOUS
<1> USE DEF BootInv
<1>1. /\ UNCHANGED <<wifiVars, cardVars, step, ssid, ready, task, rebooting>>
      /\ task = "taken"
      /\ turn' \in {"build", "cache", "answer", "append", "tell"}
  BY DEF Turn, Build, Cache, Switch, Stay, Discover, Tell, InTurn
<1>2. LifeType'
  BY <1>1 DEF LifeType, cardVars
<1>3. "loop" \in ready /\ step = "up" /\ historyMax > 0
  BY <1>1 DEF OrderInv, AfterStm
<1>4. StmInv' /\ historyMax' = historyMax
  <2>1. CASE Build \/ Cache \/ Switch \/ Stay \/ Discover
    BY <2>1, StmSame DEF Build, Cache, Switch, Stay, Discover, knowledgeVars, stmVars
  <2>2. CASE Tell
    BY <2>2, <1>3, StmSame, StmStep, OverrunStep DEF Tell, StmAdd, StmOverrun, stmVars
  <2>3. QED
    BY <2>1, <2>2 DEF Turn
<1>5. OrderInv'
  BY <1>1, <1>3, <1>4 DEF OrderInv, wifiVars, AfterStm
<1>6. ProfileInv'
  <2>1. CASE Build
    BY <2>1, GetStep DEF Build, InTurn
  <2>2. CASE Cache
    <3>1. turn' = "answer"
      BY <2>2 DEF Cache, InTurn
    <3>2. CASE reading = NoText
      BY <2>2, <3>1, <3>2 DEF Cache, ProfileInv, ProfilesSound, CacheFresh, SaysItOnce,
                              profileVars, cacheVars
    <3>3. CASE reading # NoText
      BY <2>2, <3>1, <3>3, CacheStep DEF Cache
    <3>4. QED
      BY <3>2, <3>3
  <2>3. CASE Switch
    BY <2>3, SwitchStep DEF Switch, InTurn
  <2>4. CASE Stay
    BY <2>4, ProfileSame DEF Stay, InTurn, knowledgeVars
  <2>5. CASE Discover
    BY <2>5, ProfileSame, DiscoverStep DEF Discover, InTurn
  <2>6. CASE Tell
    BY <2>6, ProfileSame DEF Tell, InTurn
  <2>7. QED
    BY <2>1, <2>2, <2>3, <2>4, <2>5, <2>6 DEF Turn
<1>7. QED
  BY <1>1, <1>2, <1>4, <1>5, <1>6, AirSame

-----------------------------------------------------------------------------
(* The page edits the card.                                                *)

LEMMA EditFramed ==
  ASSUME BootInv, EditFrame, ProfileInv',
         config' \in Configs \cup {NoFile}, prompt' \in BOOLEAN,
         editing' \in Editable \cup {NoFile}
  PROVE  BootInv'
<1> USE DEF BootInv
<1>1. UNCHANGED <<wifiVars, stmVars, step, ssid, ready, task, turn, rebooting>>
  BY DEF EditFrame, lifeVars
<1>2. LifeType'
  BY <1>1 DEF LifeType
<1>3. OrderInv'
  BY <1>1 DEF OrderInv, wifiVars, stmVars
<1>4. QED
  BY <1>1, <1>2, <1>3, AirSame, StmSame

LEMMA EmptiedStep ==
  ASSUME BootInv, NEW f \in Editable, Emptied(f), turn' = turn
  PROVE  ProfileInv' /\ config' \in Configs \cup {NoFile} /\ prompt' \in BOOLEAN
<1> USE DEF BootInv
<1>0. config \in Configs \cup {NoFile} /\ prompt \in BOOLEAN
  BY DEF LifeType
<1>1. CASE f = "config"
  BY <1>0, <1>1, ProfileSame DEF Emptied
<1>2. CASE f = "prompt"
  BY <1>0, <1>2, ProfileSame DEF Emptied
<1>3. CASE f # "config" /\ f # "prompt"
  <2>1. f \in Profiles /\ WriteProfile(f, <<>>) /\ UNCHANGED <<config, prompt>>
    BY <1>3 DEF Emptied, Editable
  <2>2. <<>> \in Seq(Lines) /\ Once(<<>>)
    BY DEF Once
  <2>3. QED
    BY <1>0, <2>1, <2>2, WriteStep
<1>4. QED
  BY <1>1, <1>2, <1>3

LEMMA EditStep ==
  BootInv /\ (\E f \in Editable : Truncate(f) \/ Delete(f)) => BootInv'
<1> SUFFICES ASSUME BootInv, NEW f \in Editable, Truncate(f) \/ Delete(f) PROVE BootInv'
  OBVIOUS
<1> USE DEF BootInv
<1>0. EditFrame /\ turn' = turn
  BY DEF Truncate, Delete, EditFrame, lifeVars
<1>1. CASE Truncate(f)
  BY <1>0, <1>1, EmptiedStep, EditFramed DEF Truncate
<1>2. CASE Delete(f)
  <2>0. editing' \in Editable \cup {NoFile} /\ config \in Configs \cup {NoFile}
        /\ prompt \in BOOLEAN
    BY <1>2 DEF Delete, LifeType
  <2>1. CASE f \in Profiles
    <3>1. WriteProfile(f, NoFile) /\ UNCHANGED <<config, prompt>>
      BY <1>2, <2>1 DEF Delete, DeleteFile
    <3>2. ProfileInv /\ turn' = turn /\ WriteProfile(f, NoFile)
      BY <1>0, <3>1
    <3>3. ProfileInv'
      BY <2>1, <3>2, WriteStep
    <3>4. QED
      BY <1>0, <2>0, <3>1, <3>3, EditFramed
  <2>2. CASE f \notin Profiles
    <3>1. Emptied(f)
      BY <1>2, <2>2 DEF Delete, DeleteFile
    <3>2. QED
      BY <1>0, <2>0, <3>1, EmptiedStep, EditFramed
  <2>3. QED
    BY <2>1, <2>2
<1>3. QED
  BY <1>1, <1>2

LEMMA FillStep == BootInv /\ Fill => BootInv'
<1> SUFFICES ASSUME BootInv, Fill PROVE BootInv'
  OBVIOUS
<1> USE DEF BootInv
<1>0. /\ EditFrame /\ turn' = turn /\ editing' = NoFile
      /\ config \in Configs \cup {NoFile} /\ prompt \in BOOLEAN
      /\ editing \in Editable
  BY DEF Fill, EditFrame, lifeVars, LifeType
<1>1. CASE editing = "config"
  BY <1>0, <1>1, ProfileSame, EditFramed DEF Fill
<1>2. CASE editing = "prompt"
  <2>1. prompt' = TRUE /\ UNCHANGED <<config, profileVars>>
    BY <1>2 DEF Fill
  <2>2. QED
    BY <1>0, <2>1, ProfileSame, EditFramed
<1>3. CASE editing # "config" /\ editing # "prompt"
  <2>1. /\ editing \in Profiles /\ UNCHANGED <<config, prompt>>
        /\ \E l \in Lines : WriteProfile(editing, <<l>>)
    BY <1>0, <1>3 DEF Fill, Editable
  <2>2. PICK l \in Lines : WriteProfile(editing, <<l>>)
    BY <2>1
  <2>3. <<l>> \in Seq(Lines) /\ Once(<<l>>)
    BY DEF Once
  <2>4. QED
    BY <1>0, <2>1, <2>2, <2>3, WriteStep, EditFramed
<1>4. QED
  BY <1>1, <1>2, <1>3

-----------------------------------------------------------------------------
(* Power goes; the network changes.                                        *)

LEMMA RestartStep == BootInv /\ Restart => BootInv'
<1> SUFFICES ASSUME BootInv, Restart PROVE BootInv'
  OBVIOUS
<1> USE DEF BootInv
<1>1. ProfileInv' /\ StmInv'
  BY ForgetStep DEF Restart
<1>2. AirInv'
  <2>1. /\ air' = "off" /\ events' = <<>> /\ ip' = FALSE /\ netBits' = {} /\ retries' = 0
        /\ inited' = FALSE /\ sntp' = FALSE /\ losses' = 0 /\ airLeft' = airLeft
    BY DEF Restart
  <2>2. 0 \in 0 .. RetryLimit /\ 0 \in Nat /\ 0 <= 0
    BY WifiAssumption
  <2>3. QED
    BY <2>1, <2>2 DEF AirInv, EventInv, GivesUpLate, Airs
<1>3. /\ step' = "sd" /\ ssid' = FALSE /\ ready' = {} /\ task' = "none"
      /\ turn' = "build" /\ rebooting' = FALSE /\ editing' = NoFile
      /\ UNCHANGED <<config, prompt>> /\ air' = "off" /\ events' = <<>>
      /\ entries' = <<>> /\ overrun' = FALSE /\ told' = 0 /\ forgotten' = {}
  BY DEF Restart, Forget
<1>4. LifeType'
  BY <1>3, Steps DEF LifeType
<1>5. OrderInv'
  BY <1>3 DEF OrderInv, AfterStm
<1>6. QED
  BY <1>1, <1>2, <1>4, <1>5

LEMMA AirStep == BootInv /\ Air => BootInv'
<1> SUFFICES ASSUME BootInv, Air PROVE BootInv'
  OBVIOUS
<1> USE DEF BootInv
<1>1. AirInv' /\ air' # "off"
  BY JoinStep, DropStep, HandleStep DEF Air, Network
<1>2. UNCHANGED <<stmVars, profileVars, cardVars, lifeVars>>
  BY DEF Air, knowledgeVars
<1>3. air # "off"
  <2>1. air = "off" => events = <<>>
    BY DEF OrderInv
  <2>2. QED
    BY <2>1 DEF Air, Network, Join, Drop, Handle
<1>4. OrderInv'
  BY <1>1, <1>2, <1>3 DEF OrderInv, stmVars, lifeVars
<1>5. LifeType'
  BY <1>2 DEF LifeType, cardVars, lifeVars
<1>6. QED
  BY <1>1, <1>2, <1>4, <1>5, StmSame, ProfileSame DEF lifeVars

-----------------------------------------------------------------------------
LEMMA FirstInv == Init => BootInv
<1> SUFFICES ASSUME Init PROVE BootInv
  OBVIOUS
<1>1. AirInv
  <2>1. airLeft \in Nat
    BY BootAssumption DEF Init
  <2>2. /\ air = "off" /\ events = <<>> /\ ip = FALSE /\ netBits = {} /\ retries = 0
        /\ inited = FALSE /\ sntp = FALSE /\ losses = 0
    BY DEF Init, WifiInit
  <2>3. 0 \in 0 .. RetryLimit /\ 0 \in Nat /\ 0 <= 0
    BY WifiAssumption
  <2>4. QED
    BY <2>1, <2>2, <2>3 DEF AirInv, EventInv, GivesUpLate, Airs
<1>2. StmInv
  BY EmptyRing DEF Init, KnowledgeInit
<1>3. ProfileInv
  BY KnowledgeAssumption DEF Init, KnowledgeInit, ProfileInv, ProfilesSound, CacheFresh, SaysItOnce
<1>4. LifeType
  BY Steps DEF Init, PowerOn, LifeType
<1>5. OrderInv
  BY DEF Init, PowerOn, WifiInit, KnowledgeInit, OrderInv, AfterStm
<1>6. QED
  BY <1>1, <1>2, <1>3, <1>4, <1>5 DEF BootInv

LEMMA StutterStep == BootInv /\ UNCHANGED vars => BootInv'
<1> SUFFICES ASSUME BootInv, UNCHANGED vars PROVE BootInv'
  OBVIOUS
<1>1. UNCHANGED <<wifiVars, stmVars, profileVars, lifeVars, cardVars>>
  BY DEF vars, knowledgeVars
<1>2. LifeType' /\ OrderInv'
  BY <1>1 DEF BootInv, LifeType, OrderInv, wifiVars, stmVars, lifeVars, cardVars
<1>3. QED
  BY <1>1, <1>2, AirSame, StmSame, ProfileSame DEF BootInv, lifeVars

(* What every state of every life satisfies. *)
THEOREM BootInvariant == Spec => []BootInv
<1>1. Init => BootInv
  BY FirstInv
<1>2. BootInv /\ [Next]_vars => BootInv'
  BY MainStep, TaskStep, TurnStep, EditStep, FillStep, RestartStep, AirStep, StutterStep
     DEF Next
<1>3. QED
  BY <1>1, <1>2, PTL DEF Spec

(* Types, of the Wi-Fi manager, of what is remembered and of app_main.     *)
THEOREM BootTypes == Spec => []TypeOK
<1>1. BootInv => TypeOK
  <2>1. AirInv => WifiTypeOK
    <3>1. ASSUME EventInv
          PROVE  events \in Seq({"start", "gotIp", "lost"}) /\ Len(events) <= 2
      <4>1. CASE events = <<>>
        BY <4>1
      <4>2. CASE \E e \in {"start", "gotIp", "lost"} : events = <<e>>
        BY <4>2
      <4>3. CASE events = <<"gotIp", "lost">>
        BY <4>3
      <4>4. QED
        BY <3>1, <4>1, <4>2, <4>3 DEF EventInv
    <3>2. QED
      BY <3>1 DEF AirInv, WifiTypeOK
  <2>2. StmInv /\ ProfileInv => KnowledgeTypeOK
    BY DEF StmInv, ProfileInv, KnowledgeTypeOK
  <2>3. QED
    BY <2>1, <2>2 DEF BootInv, LifeType, TypeOK
<1>2. QED
  BY <1>1, BootInvariant, PTL

(* However the network comes and goes: once its events are handled, the    *)
(* station reports an address exactly while it has a link, and it stands   *)
(* still only after all of its retries have failed one after another.      *)
(* wifi_manager.c: event_handler.                                          *)
THEOREM NetworkAlwaysTold == Spec => []NetworkTold
<1>1. BootInv => NetworkTold
  BY DEF BootInv, AirInv, EventInv, NetworkTold, AddressIsLive
<1>2. QED
  BY <1>1, BootInvariant, PTL

(* The short-term memory says every summary since boot, once and in order, *)
(* except what an allocation failure cost, whatever its length; only a     *)
(* length of one makes it read past its array. short_term_mem.c: stm_add.  *)
THEOREM HistoryAlwaysKept == Spec => []HistoryKept
<1>1. BootInv => HistoryKept
  BY DEF BootInv, StmInv
<1>2. QED
  BY <1>1, BootInvariant, PTL

(* A cached profile is the file unless the page wrote it since, and no     *)
(* profile says a thing twice. profile_manager.c: profile_mgr_get_default, *)
(* profile_mgr_append; web_server.c: fs_write_handler.                     *)
THEOREM ProfilesAlwaysSound == Spec => []ProfilesSound
<1>1. BootInv => ProfilesSound
  BY DEF BootInv, ProfileInv
<1>2. QED
  BY <1>1, BootInvariant, PTL

=============================================================================
