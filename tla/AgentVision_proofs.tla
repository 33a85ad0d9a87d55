------------------------- MODULE AgentVision_proofs -------------------------
(***************************************************************************)
(* Proofs about AgentVision, for every set of screens, every next_view the *)
(* model may send and every configured number of retries and blind rounds: *)
(* views stay inside the frame, a request shows the frame of its step, the *)
(* boxes of an answer are mapped with the view its picture shows, steps    *)
(* are skipped only on the screen the model saw, and trying again ends.    *)
(***************************************************************************)
EXTENDS AgentVision, TLAPS

(* A view inside the frame and with an area.                               *)
Inside(v) == /\ 0 <= v.y0 /\ v.y0 + MinExtent <= v.y1 /\ v.y1 <= Unit
             /\ 0 <= v.x0 /\ v.x0 + MinExtent <= v.x1 /\ v.x1 <= Unit
Views == {v \in [y0 : Int, x0 : Int, y1 : Int, x1 : Int, scale : {1, 2, 4}] : Inside(v)}

Pictures == [frame : Frames \cup {NoFrame}, key : Views, shows : Views]
Phases   == {"none", "prepare", "serialize", "send", "answered", "failed"}
Queries  == [phase : Phases, frame : Frames \cup {NoFrame}, view : Views, reuse : BOOLEAN,
             picture : Pictures, attempt : Nat, sent : Nat, refused : BOOLEAN]

VisionType ==
  /\ screen \in Frames /\ print \in Frames \cup {NoFrame} /\ seen \in Frames \cup {NoFrame}
  /\ agent \in {"idle", "running", "stopping"}
  /\ pc \in {"top", "capture", "query", "adopt"}
  /\ view \in Views /\ boxView \in Views /\ cache \in Pictures /\ query \in Queries
  /\ waitMode \in BOOLEAN /\ lost \in BOOLEAN
  /\ blind \in 0 .. MaxBlindRounds /\ fails \in 0 .. 3

(* Where the loop stands, as far as the query and the state tell.          *)
FlowInv ==
  /\ query.phase # "none" <=> pc \in {"query", "adopt"}
  /\ pc = "adopt" => query.phase = "answered"
  /\ agent = "idle" => pc = "top"
  /\ fails = 3 => agent = "idle"
  /\ unanswered = fails
  /\ pc = "query" => ~waitMode

(* The attempts of a query, and what has been sent in them.                *)
RetryInv ==
  /\ query.attempt <= MaxRetries /\ query.sent <= query.attempt + 1
  /\ query.phase \in {"prepare", "serialize", "send"} => query.sent <= query.attempt
  /\ query.refused => query.phase = "failed"

(* The query is about the last frame and the view in force; so is its      *)
(* picture, and the payload, unless it is about to be replaced.            *)
QueryInv == query.phase # "none" => query.frame = print /\ query.view = view
CacheInv ==
  /\ ~lost /\ cache.frame # NoFrame
       => cache.frame = print \/ (query.phase = "prepare" /\ ~query.reuse)
  /\ ~lost /\ query.phase \in {"serialize", "send", "answered"} /\ HasPicture
       => query.picture.frame = print /\ query.picture.key = view
  /\ pc = "adopt" => boxView = view

(* The loop waits only while the fingerprint is that of the picture in the *)
(* answered request, if that picture was made for its screen.              *)
WaitInv == waitMode /\ ~lost /\ seen # NoFrame => print = seen

VisionInv == VisionType /\ FlowInv /\ RetryInv /\ QueryInv /\ CacheInv /\ WaitInv

-----------------------------------------------------------------------------
(* view_normalize.                                                         *)
LEMMA Sizes == Unit = 1000 /\ MinExtent = 20
BY DEF Unit, MinExtent

LEMMA GrownInside ==
  ASSUME NEW a \in Int, NEW b \in Int
  PROVE  LET g == Grown(Clamped(a, b))
         IN  /\ g.lo \in Int /\ g.hi \in Int
             /\ 0 <= g.lo /\ g.lo + MinExtent <= g.hi /\ g.hi <= Unit
<1> DEFINE r == Clamped(a, b)
           c == (r.lo + r.hi) \div 2
<1>1. r.lo \in Int /\ r.hi \in Int /\ 0 <= r.lo /\ r.hi <= Unit
  BY Sizes DEF Clamped, Larger, Smaller
<1>2. c \in Int /\ MinExtent \div 2 = 10
  BY <1>1, Sizes
<1>3. Grown(r) = IF r.hi - r.lo >= MinExtent THEN r
                 ELSE LET below == IF c - 10 < 0 THEN [lo |-> 0, hi |-> c + 10 - (c - 10)]
                                                 ELSE [lo |-> c - 10, hi |-> c + 10]
                      IN  IF below.hi > Unit
                          THEN [lo |-> below.lo - (below.hi - Unit), hi |-> Unit]
                          ELSE below
  BY <1>2 DEF Grown
<1> HIDE DEF r, c
<1>4. CASE r.hi - r.lo >= MinExtent
  BY <1>1, <1>3, <1>4, Sizes DEF r
<1>5. CASE ~(r.hi - r.lo >= MinExtent)
  <2>1. CASE c - 10 < 0
    BY <1>2, <1>3, <1>5, <2>1, Sizes DEF r
  <2>2. CASE ~(c - 10 < 0)
    BY <1>2, <1>3, <1>5, <2>2, Sizes DEF r
  <2>3. QED
    BY <2>1, <2>2
<1>6. QED
  BY <1>4, <1>5

LEMMA GrownKeeps ==
  ASSUME NEW a \in Int, NEW b \in Int, 0 <= a, a + MinExtent <= b, b <= Unit
  PROVE  Grown(Clamped(a, b)) = [lo |-> a, hi |-> b]
BY Sizes DEF Grown, Clamped, Larger, Smaller

LEMMA FullView == Full \in Views
BY Sizes DEF Full, Views, Inside

(* Whatever box is asked for, the view is inside the frame and not empty.  *)
LEMMA NormalizedView ==
  ASSUME NEW v, v.y0 \in Int, v.x0 \in Int, v.y1 \in Int, v.x1 \in Int
  PROVE  Normalized(v) \in Views
<1> DEFINE y == Grown(Clamped(v.y0, v.y1))
           x == Grown(Clamped(v.x0, v.x1))
           s == IF v.scale \in {1, 2, 4} THEN v.scale ELSE 1
<1>1. /\ y.lo \in Int /\ y.hi \in Int /\ 0 <= y.lo /\ y.lo + MinExtent <= y.hi /\ y.hi <= Unit
      /\ x.lo \in Int /\ x.hi \in Int /\ 0 <= x.lo /\ x.lo + MinExtent <= x.hi /\ x.hi <= Unit
  BY GrownInside
<1>2. Normalized(v) = IF y.hi > y.lo /\ x.hi > x.lo
                      THEN [y0 |-> y.lo, x0 |-> x.lo, y1 |-> y.hi, x1 |-> x.hi, scale |-> s]
                      ELSE Full
  BY DEF Normalized
<1>3. s \in {1, 2, 4}
  OBVIOUS
<1> HIDE DEF y, x, s
<1>4. [y0 |-> y.lo, x0 |-> x.lo, y1 |-> y.hi, x1 |-> x.hi, scale |-> s] \in Views
  BY <1>1, <1>3 DEF Views, Inside
<1> QED
  BY <1>2, <1>4, FullView

(* A view that is in order stays as it is.                                 *)
LEMMA NormalizedKeeps ==
  ASSUME NEW v \in Views PROVE Normalized(v) = v
<1>0. /\ v \in [y0 : Int, x0 : Int, y1 : Int, x1 : Int, scale : {1, 2, 4}]
      /\ 0 <= v.y0 /\ v.y0 + MinExtent <= v.y1 /\ v.y1 <= Unit
      /\ 0 <= v.x0 /\ v.x0 + MinExtent <= v.x1 /\ v.x1 <= Unit
  BY DEF Views, Inside
<1>1. /\ Grown(Clamped(v.y0, v.y1)) = [lo |-> v.y0, hi |-> v.y1]
      /\ Grown(Clamped(v.x0, v.x1)) = [lo |-> v.x0, hi |-> v.x1]
  BY <1>0, GrownKeeps
<1>2. Normalized(v) = [y0 |-> v.y0, x0 |-> v.x0, y1 |-> v.y1, x1 |-> v.x1, scale |-> v.scale]
  BY <1>0, <1>1, Sizes DEF Normalized
<1> QED
  BY <1>0, <1>2

LEMMA AdoptedView ==
  ASSUME view \in Views, NEW r \in Requested \cup {Absent}
  PROVE  Adopted(r) \in Views
<1>1. CASE r = Absent
  BY <1>1 DEF Adopted
<1>2. CASE r # Absent
  <2> DEFINE wide == ~r.box \/ Abs(r.y1 - r.y0) < MinExtent \/ Abs(r.x1 - r.x0) < MinExtent
             v    == IF wide THEN Full
                     ELSE [y0 |-> r.y0, x0 |-> r.x0, y1 |-> r.y1, x1 |-> r.x1, scale |-> 1]
             w    == [v EXCEPT !.scale = r.scale]
  <2>1. Adopted(r) = Normalized(w)
    BY <1>2 DEF Adopted
  <2>2. w.y0 \in Int /\ w.x0 \in Int /\ w.y1 \in Int /\ w.x1 \in Int
    BY <1>2, VisionAssumption DEF Full, Unit
  <2> QED
    BY <2>1, <2>2, NormalizedView
<1> QED
  BY <1>1, <1>2

-----------------------------------------------------------------------------
(* The client, one step of a query at a time.                              *)
LEMMA Retries == MaxRetries \in 0 .. 3 /\ DOMAIN Backoff = 1 .. 4
BY RetriesAssumption DEF MaxRetries, Backoff

LEMMA NextAttemptType ==
  ASSUME NEW q \in Queries, q.phase = "send", q.attempt <= MaxRetries,
         q.sent <= q.attempt + 1, ~q.refused
  PROVE  LET n == NextAttempt(q)
         IN  /\ n \in Queries /\ n.phase \in {"send", "failed"} /\ ~n.refused
             /\ n.attempt <= MaxRetries /\ n.sent <= n.attempt + 1
             /\ n.phase = "send" => n.sent <= n.attempt
             /\ n.frame = q.frame /\ n.view = q.view /\ n.picture = q.picture
<1>0. /\ q.attempt \in Nat /\ q.sent \in Nat /\ MaxRetries \in Nat
  BY Retries DEF Queries
<1>1. CASE q.attempt < MaxRetries
  BY <1>0, <1>1 DEF NextAttempt, Queries
<1>2. CASE ~(q.attempt < MaxRetries)
  BY <1>0, <1>2 DEF NextAttempt, Queries, Phases
<1> QED
  BY <1>1, <1>2

LEMMA AfterType ==
  ASSUME NEW q \in Queries, q.phase = "send", q.attempt <= MaxRetries,
         q.sent <= q.attempt, ~q.refused, NEW outcome \in Outcomes
  PROVE  LET n == After(q, outcome)
         IN  /\ n \in Queries /\ n.phase \in {"send", "answered", "failed"}
             /\ n.refused => n.phase = "failed"
             /\ n.attempt <= MaxRetries /\ n.sent <= n.attempt + 1
             /\ n.phase = "send" => n.sent <= n.attempt
             /\ n.frame = q.frame /\ n.view = q.view /\ n.picture = q.picture
<1> DEFINE sent == [q EXCEPT !.sent = @ + 1]
<1>1. /\ sent \in Queries /\ sent.phase = "send" /\ sent.attempt = q.attempt
      /\ sent.sent = q.sent + 1 /\ sent.refused = q.refused
      /\ sent.frame = q.frame /\ sent.view = q.view /\ sent.picture = q.picture
      /\ sent.sent <= sent.attempt + 1
  BY DEF Queries
<1>2. CASE outcome = "answer"
  BY <1>1, <1>2 DEF After, Queries, Phases
<1>3. CASE outcome = "refused"
  BY <1>1, <1>3 DEF After, Queries, Phases
<1>4. CASE outcome \notin {"answer", "refused"}
  <2>1. After(q, outcome) = NextAttempt(sent)
    BY <1>4 DEF After
  <2> HIDE DEF sent
  <2> QED
    BY <1>1, <2>1, NextAttemptType
<1> QED
  BY <1>2, <1>3, <1>4

LEMMA NoQueryType ==
  /\ NoPicture \in Pictures /\ NoQuery \in Queries /\ NoQuery.phase = "none"
  /\ NoQuery.sent = 0 /\ NoQuery.attempt = 0 /\ NoQuery.refused = FALSE
BY FullView DEF NoPicture, NoQuery, Pictures, Queries, Phases

(* The client's steps keep the invariant.                                  *)
LEMMA ClientStep ==
  VisionInv /\ Client => VisionInv'
<1> SUFFICES ASSUME VisionInv, Client PROVE VisionInv'
  OBVIOUS
<1> USE DEF VisionInv, VisionType, FlowInv, RetryInv, QueryInv, CacheInv, WaitInv, HasPicture,
        loopVars, histVars, Client
<1>0. /\ cache \in Pictures /\ query \in Queries /\ lost \in BOOLEAN /\ view \in Views
      /\ query.phase \in Phases /\ query.frame \in Frames \cup {NoFrame} /\ query.view \in Views
      /\ query.picture \in Pictures /\ query.attempt \in Nat /\ query.sent \in Nat
      /\ query.refused \in BOOLEAN /\ query.reuse \in BOOLEAN
      /\ cache.frame \in Frames \cup {NoFrame} /\ cache.key \in Views /\ cache.shows \in Views
  BY DEF Queries, Pictures
<1>1. CASE Reuse
  <2>1. /\ query' \in Queries /\ query'.phase = "serialize" /\ query'.picture = cache
        /\ query'.frame = query.frame /\ query'.view = query.view /\ query'.sent = query.sent
        /\ query'.attempt = query.attempt /\ query'.refused = query.refused
    BY <1>0, <1>1 DEF Reuse, Queries, Phases
  <2>2. cache.frame # NoFrame /\ cache.key = view
    BY <1>0, <1>1, NormalizedKeeps DEF Reuse, CanReuse, SameView
  <2> QED
    BY <1>0, <1>1, <2>1, <2>2 DEF Reuse
<1>2. CASE Encode
  <2>1. CASE lost' = TRUE
    <3>1. /\ query' \in Queries /\ query'.phase = "failed" /\ cache' = cache
          /\ query'.frame = query.frame /\ query'.view = query.view /\ query'.sent = query.sent
          /\ query'.attempt = query.attempt /\ query'.refused = query.refused
      BY <1>0, <1>2, <2>1 DEF Encode, Queries, Phases
    <3> QED
      BY <1>0, <1>2, <2>1, <3>1 DEF Encode
  <2>2. CASE lost' = FALSE
    <3>1. PICK shown \in Transformed :
            /\ cache' = [frame |-> query.frame, key |-> query.view, shows |-> shown]
            /\ query' = [query EXCEPT !.phase = "serialize", !.picture = cache']
      BY <1>2, <2>2 DEF Encode
    <3>2. shown \in Views
      BY <1>0, FullView DEF Transformed
    <3>3. cache' \in Pictures /\ cache'.frame = query.frame /\ cache'.key = query.view
      BY <1>0, <3>1, <3>2 DEF Pictures
    <3>4. /\ query' \in Queries /\ query'.phase = "serialize" /\ query'.picture = cache'
          /\ query'.frame = query.frame /\ query'.view = query.view /\ query'.sent = query.sent
          /\ query'.attempt = query.attempt /\ query'.refused = query.refused
      BY <1>0, <3>1, <3>3 DEF Queries, Phases
    <3> QED
      BY <1>0, <1>2, <2>2, <3>3, <3>4 DEF Encode
  <2> QED
    BY <1>2, <2>1, <2>2 DEF Encode
<1>3. CASE Serialize
  <2>1. /\ query' \in Queries /\ query'.phase \in {"send", "failed"}
        /\ query'.picture \in {query.picture, NoPicture}
        /\ query'.frame = query.frame /\ query'.view = query.view /\ query'.sent = query.sent
        /\ query'.attempt = query.attempt /\ query'.refused = query.refused
    <3>1. CASE query' = [query EXCEPT !.phase = "failed"]
      BY <1>0, <3>1 DEF Queries, Phases
    <3>2. ASSUME NEW shown \in {query.picture, NoPicture},
                 query' = [query EXCEPT !.phase = "send", !.picture = shown]
          PROVE  /\ query' \in Queries /\ query'.phase \in {"send", "failed"}
                 /\ query'.picture \in {query.picture, NoPicture}
                 /\ query'.frame = query.frame /\ query'.view = query.view /\ query'.sent = query.sent
                 /\ query'.attempt = query.attempt /\ query'.refused = query.refused
      <4>1. shown \in Pictures
        BY <1>0, <3>2, NoQueryType
      <4>2. /\ query' \in Queries /\ query'.phase = "send" /\ query'.picture = shown
            /\ query'.frame = query.frame /\ query'.view = query.view
            /\ query'.sent = query.sent
            /\ query'.attempt = query.attempt /\ query'.refused = query.refused
        BY <1>0, <3>2, <4>1 DEF Queries, Phases
      <4> QED
        BY <3>2, <4>2
    <3> QED
      BY <1>3, <3>1, <3>2 DEF Serialize
  <2>2. NoPicture.frame = NoFrame
    BY DEF NoPicture
  <2> QED
    BY <1>0, <1>3, <2>1, <2>2 DEF Serialize
<1>4. CASE EnsureFails
  <2>1. /\ query' \in Queries /\ query'.phase \in {"send", "failed"} /\ ~query'.refused
        /\ query'.attempt <= MaxRetries /\ query'.sent <= query'.attempt + 1
        /\ query'.phase = "send" => query'.sent <= query'.attempt
        /\ query'.frame = query.frame /\ query'.view = query.view
        /\ query'.picture = query.picture
    BY <1>0, <1>4, NextAttemptType DEF EnsureFails
  <2> QED
    BY <1>0, <1>4, <2>1 DEF EnsureFails
<1>5. CASE Exchange
  <2>1. /\ query' \in Queries /\ query'.phase \in {"send", "answered", "failed"}
        /\ query'.refused => query'.phase = "failed"
        /\ query'.attempt <= MaxRetries /\ query'.sent <= query'.attempt + 1
        /\ query'.phase = "send" => query'.sent <= query'.attempt
        /\ query'.frame = query.frame /\ query'.view = query.view
        /\ query'.picture = query.picture
    <3>1. PICK outcome \in Outcomes : query' = After(query, outcome)
      BY <1>5 DEF Exchange
    <3>2. query.phase = "send" /\ ~query.refused /\ query.sent <= query.attempt
      BY <1>0, <1>5 DEF Exchange
    <3> QED
      BY <1>0, <3>1, <3>2, AfterType
  <2> QED
    BY <1>0, <1>5, <2>1 DEF Exchange
<1> QED
  BY <1>1, <1>2, <1>3, <1>4, <1>5 DEF ClientNext

-----------------------------------------------------------------------------
(* The loop.                                                               *)
LEMMA VisionInit == Init => VisionInv
<1> SUFFICES ASSUME Init PROVE VisionInv
  OBVIOUS
<1>1. waitMode \in BOOLEAN /\ lost \in BOOLEAN
  BY Zenon DEF Init, ClientInit
<1>2. blind \in 0 .. MaxBlindRounds /\ fails \in 0 .. 3
  BY VisionAssumption DEF Init
<1>3. VisionType
  BY <1>1, <1>2, NoQueryType, FullView DEF Init, ClientInit, VisionType
<1>4. FlowInv /\ RetryInv /\ QueryInv /\ CacheInv /\ WaitInv
  BY NoQueryType, Retries
     DEF Init, ClientInit, FlowInv, RetryInv, QueryInv, CacheInv, WaitInv, NoPicture, HasPicture
<1> QED
  BY <1>3, <1>4 DEF VisionInv

LEMMA AskStep == VisionInv /\ Ask => VisionInv'
<1> SUFFICES ASSUME VisionInv, Ask PROVE VisionInv'
  OBVIOUS
<1>0. /\ VisionType /\ FlowInv /\ RetryInv /\ QueryInv /\ CacheInv
      /\ ReuseImage \in BOOLEAN
  BY DEF VisionInv, ReuseImage
<1>1. query' = [NoQuery EXCEPT !.phase = "prepare", !.frame = screen, !.view = view,
                               !.reuse = ReuseImage]
  BY <1>0, NormalizedKeeps DEF Ask, Asked, VisionType
<1>2. /\ query' \in Queries /\ query'.phase = "prepare" /\ query'.frame = screen
      /\ query'.view = view /\ query'.reuse = ReuseImage /\ query'.refused = FALSE
      /\ query'.sent = 0 /\ query'.attempt = 0
  BY <1>0, <1>1, NoQueryType DEF Queries, Phases, VisionType
<1>3. ReuseImage => screen = print
  BY DEF ReuseImage, SameFrame
<1>4. VisionType'
  <2>1. waitMode' \in BOOLEAN
    BY Zenon DEF Ask
  <2>2. blind' \in 0 .. MaxBlindRounds
    BY VisionAssumption DEF Ask
  <2> QED
    BY <1>0, <1>2, <2>1, <2>2 DEF Ask, VisionType
<1>5. FlowInv' /\ RetryInv' /\ QueryInv' /\ WaitInv'
  BY <1>0, <1>2, Retries DEF Ask, FlowInv, RetryInv, QueryInv, WaitInv
<1>6. CacheInv'
  BY <1>0, <1>2, <1>3 DEF Ask, CacheInv, HasPicture, FlowInv
<1> QED
  BY <1>4, <1>5, <1>6 DEF VisionInv

LEMMA VisionStep == VisionInv /\ [Next]_vars => VisionInv'
<1> SUFFICES ASSUME VisionInv, [Next]_vars PROVE VisionInv'
  OBVIOUS
<1> USE NoQueryType, Retries, VisionAssumption
    DEF VisionInv, VisionType, FlowInv, RetryInv, QueryInv, CacheInv, WaitInv,
        HasPicture, loopVars, histVars, clientVars
<1>1. CASE Start
  BY <1>1, FullView DEF Start
<1>2. CASE Stop \/ ScreenChanges
  BY <1>2 DEF Stop, ScreenChanges
<1>3. CASE Top
  BY <1>3 DEF Top
<1>4. CASE CaptureFails
  BY <1>4 DEF CaptureFails, Failed
<1>5. CASE Skip
  BY <1>5 DEF Skip, SkipQuery, ReuseImage, SameFrame
<1>6. CASE Ask
  BY <1>6, AskStep
<1>7. CASE Client
  BY <1>7, ClientStep
<1>8. CASE QueryFails
  BY <1>8 DEF QueryFails, Failed
<1>9. CASE Act
  <2>1. query.picture.frame \in Frames \cup {NoFrame}
    BY DEF Queries, Pictures
  <2>2. waitMode' \in BOOLEAN
    BY <1>9, Zenon DEF Act
  <2> QED
    BY <1>9, <2>1, <2>2 DEF Act
<1>10. CASE Adopt
  BY <1>10, AdoptedView DEF Adopt
<1>11. CASE UNCHANGED vars
  BY <1>11 DEF vars
<1> QED
  BY <1>1, <1>2, <1>3, <1>4, <1>5, <1>6, <1>7, <1>8, <1>9, <1>10, <1>11 DEF Next, Loop

-----------------------------------------------------------------------------
(* The picture in a request is the frame of its step, prepared for the view *)
(* in force, even when an older payload is reused, unless an encoding has  *)
(* failed since that payload was made (cloud_client_query).                *)
THEOREM PictureAlwaysScreen == Spec => []PictureIsScreen
<1>1. VisionInv => PictureIsScreen
  BY DEF VisionInv, CacheInv, PictureIsScreen
<1> QED
  BY <1>1, VisionInit, VisionStep, PTL DEF Spec

(* The boxes of an answer are mapped with the view its picture shows, not  *)
(* with the one asked for in the answer (action_executor_set_view).        *)
THEOREM BoxesAlwaysMatch == Spec => []BoxesMatchPicture
<1>1. VisionInv => BoxesMatchPicture
  BY DEF VisionInv, FlowInv, CacheInv, BoxesMatchPicture
<1> QED
  BY <1>1, VisionInit, VisionStep, PTL DEF Spec

(* Every view is inside the frame, three failures in a row end a task, and *)
(* a query is sent at most four times (view_normalize, fail_count, the     *)
(* retry loop of cloud_client).                                            *)
THEOREM TriesAlwaysEnd == Spec => []TriesEnd
<1>1. VisionInv => TypeOK
  BY DEF VisionInv, VisionType, FlowInv, TypeOK, Views, Inside, Queries, Phases, Pictures
<1>2. VisionInv => GivesUp
  BY DEF VisionInv, VisionType, FlowInv, GivesUp
<1>3. VisionInv => BoundedRetries
  BY Retries DEF VisionInv, VisionType, RetryInv, BoundedRetries, Queries
<1> QED
  BY <1>1, <1>2, <1>3, VisionInit, VisionStep, PTL DEF Spec, TriesEnd

(* A step is skipped only while the screen shows the picture of the last   *)
(* answered request, if it had one and no encoding has failed since it was *)
(* made (agent_set_wait_skip_policy).                                      *)
THEOREM SkipsSeenOnly == Spec => SkipSeenOnly
<1>1. VisionInv /\ [Next]_vars => [Skipped /\ ~lost /\ seen # NoFrame => screen = seen]_vars
  <2> SUFFICES ASSUME VisionInv, Next, Skipped, ~lost, seen # NoFrame PROVE screen = seen
    OBVIOUS
  <2>1. Skip
    BY DEF Skipped, Next, Start, Stop, ScreenChanges, Loop, Top, CaptureFails, Failed, Ask,
           Client, QueryFails, Act, Adopt, VisionInv, VisionType, FlowInv, loopVars
  <2> QED
    BY <2>1 DEF Skip, SkipQuery, ReuseImage, SameFrame, VisionInv, WaitInv
<1> QED
  BY <1>1, VisionInit, VisionStep, PTL DEF Spec, SkipSeenOnly
=============================================================================
