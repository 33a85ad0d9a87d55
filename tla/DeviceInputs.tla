---------------------------- MODULE DeviceInputs ----------------------------
(***************************************************************************)
(* The inputs the program has no say in -- a camera's descriptors, a box   *)
(* in the model's answer, the answer itself, text in UTF-8 -- arrive one   *)
(* at a time, and the properties compare what the program's pure functions *)
(* make of each with what it means.                                        *)
(***************************************************************************)
EXTENDS UvcDescriptors, ModelAnswer

CONSTANTS Cameras,  \* descriptions of cameras
          Wants,    \* formats a caller of uvc_host_stream_open asks for
          Limits,   \* limits on the packet size (MAX_MPS_IN)
          Views,    \* fields of view the model asked for
          Boxes,    \* boxes in its answers
          Answers,  \* answers
          Texts,    \* texts
          Rooms,    \* sizes of buffers they are copied into
          Width, Height

VARIABLE input

P == INSTANCE ScreenPoint

FrameRecords  == [res : Nat, intervals : Seq(Nat), from : Nat, to : Nat,
                  step : Nat \ {0}]
FormatRecords == [format : STRING, frames : Seq(FrameRecords), closed : BOOLEAN]

\* A camera has formats, "unknown" when the driver does not know them and else
\* each of them once ("none" is how its search says it is at none of them), every
\* one with frames, and every packet has a size.
\* A screen has no more pixels than the absolute axis of the mouse has steps, a
\* box that is not missing has four bounds, a buffer has room for the
\* terminator, and a list in an answer is a sequence of any entries.
ASSUME InputAssumption ==
    /\ \A cam \in Cameras :
         /\ cam.formats \in Seq(FormatRecords) /\ cam.formats # <<>>
         /\ cam.packets \in Seq(Nat \ {0}) /\ cam.bulk \in Nat /\ cam.overclaims \in Nat
         /\ \A k \in DOMAIN cam.formats :
              /\ cam.formats[k].format # "none"
              /\ cam.formats[k].frames # <<>>
              /\ \A j \in DOMAIN cam.formats :
                   cam.formats[j].format = cam.formats[k].format
                       => j = k \/ cam.formats[k].format = "unknown"
    /\ Wants \subseteq [format : STRING \ {"unknown"}, res : Nat, fps : Nat]
    /\ Limits \subseteq Nat
    /\ Width \in 1 .. P!AbsMax /\ Height \in 1 .. P!AbsMax
    /\ Views \subseteq [y0 : Int, x0 : Int, y1 : Int, x1 : Int, scale : Int]
    /\ \A box \in Boxes : box = <<>> \/ box \in [1 .. 4 -> Int]
    /\ \A a \in Answers : a.object.list \in Seq(ToSet(a.object.list))
    /\ Texts \subseteq Seq(Bytes)
    /\ Rooms \subseteq Nat \ {0}

Nothing == [kind |-> "none"]
Inputs ==
         [kind : {"camera"}, camera : Cameras]
    \cup [kind : {"box"}, view : Views, box : Boxes]
    \cup [kind : {"answer"}, answer : Answers]
    \cup [kind : {"text"}, text : Texts]

Init == input = Nothing

\* One input arrives; the functions have no memory of the one before.
Arrive == /\ input = Nothing
          /\ \E i \in Inputs : input' = i

Done == /\ input # Nothing
        /\ input' = Nothing

Next == Arrive \/ Done
Spec == Init /\ [][Next]_input

-----------------------------------------------------------------------------
(* What a camera is, and the descriptors an honest one sends: every format    *)
(* announces the frames that follow it, numbered from 1.                      *)
FrameDescriptors(frames) ==
    [i \in DOMAIN frames |-> [Plain EXCEPT !.kind = "frame", !.index = i,
                                 !.res = frames[i].res,
                                 !.intervals = frames[i].intervals,
                                 !.from = frames[i].from, !.to = frames[i].to,
                                 !.step = frames[i].step]]

FormatBlock(f, i) ==
    <<[Plain EXCEPT !.kind = "format", !.index = i, !.format = f.format,
                    !.frames = Len(f.frames)]>>
    \o FrameDescriptors(f.frames)
    \o (IF f.closed THEN <<[Plain EXCEPT !.kind = "class", !.index = 1]>> ELSE <<>>)

StreamBody(cam) ==
    FlattenSeq([i \in DOMAIN cam.formats |-> FormatBlock(cam.formats[i], i)])

Setting(n, alt, packet) ==
    [Plain EXCEPT !.kind = "interface", !.video = TRUE, !.streaming = TRUE,
                  !.number = n, !.setting = alt, !.mps = packet,
                  !.endpoints = IF packet = 0 THEN 0 ELSE 1]

\* A microphone in front, the video function, its streaming interface 2 and the
\* alternate settings behind the formats.
Descriptors(cam) ==
    LET body == StreamBody(cam) IN
       <<[Plain EXCEPT !.kind = "iad"], [Plain EXCEPT !.kind = "interface"],
         [Plain EXCEPT !.kind = "iad", !.video = TRUE],
         [Plain EXCEPT !.kind = "interface", !.video = TRUE, !.number = 1],
         [Plain EXCEPT !.kind = "vcheader", !.inside = <<2>>],
         Setting(2, 0, cam.bulk),
         [Plain EXCEPT !.kind = "vsheader",
                       !.claimed = Len(body) + 1 + cam.overclaims]>>
    \o body
    \o (IF cam.bulk # 0 THEN <<>>
        ELSE [a \in DOMAIN cam.packets |-> Setting(2, a, cam.packets[a])])

FrameIntervals(f) ==
    IF f.intervals # <<>> THEN ToSet(f.intervals)
    ELSE {f.from + k * f.step : k \in 0 .. ((f.to - f.from) \div f.step)}
DefaultInterval(f) == Head(f.intervals \o <<f.from>>)

\* The camera's own meaning of a pair of indices and an interval.
Meaning(cam, request) ==
    IF /\ request # <<>>
       /\ request[1] \in DOMAIN cam.formats
       /\ request[2] \in DOMAIN cam.formats[request[1]].frames
    THEN <<cam.formats[request[1]].format,
           cam.formats[request[1]].frames[request[2]].res, request[3]>>
    ELSE <<>>

\* A frame keeps to its own intervals: the one it is asked for if it has that.
Settles(f, interval) ==
    IF interval \in FrameIntervals(f) THEN {interval} ELSE FrameIntervals(f)

\* The camera answers with the frame it was asked for, or with the one it had.
Replies(cam, request) ==
    IF Meaning(cam, request) # <<>>
    THEN {<<request[1], request[2], i>> :
             i \in Settles(cam.formats[request[1]].frames[request[2]], request[3])}
    ELSE {<<1, 1, DefaultInterval(cam.formats[1].frames[1])>>}

\* A frame of the wanted size, at the wanted rate as the driver compares rates.
IsWanted(f, want) ==
    /\ f.res = want.res
    /\ want.fps = 0 \/ \E i \in FrameIntervals(f) : RateEqual(want.fps, i)

\* The interval of the wanted rate.
WantedInterval(f, want) ==
    IF want.fps = 0 THEN DefaultInterval(f) ELSE IntervalOf(want.fps)

\* The wanted frames of the wanted format, as <<format, resolution, interval>>.
Offered(cam, want) ==
    UNION {UNION {{<<f.format, r.res, i>> : i \in Settles(r, WantedInterval(r, want))} :
                  r \in {g \in ToSet(f.frames) : IsWanted(g, want)}} :
           f \in {h \in ToSet(cam.formats) : h.format = want.format}}

\* A format the camera offers is found and negotiated as asked for: the format,
\* the size, and the very interval where the frame has it
\* (uvc_host_stream_control_probe: set, then get).
OpensOffered(cam, ds) ==
    \A want \in Wants : Offered(cam, want) # {} =>
        /\ \A limit \in Limits : BestAlternate(ds, 2, limit) # -1 =>
              Claimed(ds, 0, want, limit) = <<2, BestAlternate(ds, 2, limit)>>
        /\ \A reply \in Replies(cam, SetRequest(ds, 2, want)) :
              GetAnswer(ds, 2, reply) \in Offered(cam, want)

\* Whatever indices the camera answers with, the driver reads them as the
\* camera means them, and refuses those that mean nothing.
KnowsWhatItGets(cam, ds) ==
    \A f, i \in 0 .. Len(ds) :
        GetAnswer(ds, 2, <<f, i, 1>>) = Meaning(cam, <<f, i, 1>>)

\* The frames of the formats the driver knows, in the camera's order.
Listed(f) == IF f.format = "unknown" THEN <<>> ELSE f.frames
NamesIn(cam) ==
    FlattenSeq([k \in DOMAIN cam.formats |->
                  [j \in DOMAIN Listed(cam.formats[k]) |->
                      [format |-> cam.formats[k].format,
                       res |-> cam.formats[k].frames[j].res]]])

AllListed(cam, ds) == FrameList(ds, 0, FrameCount(ds, 0)) = NamesIn(cam)

\* Every frame of a known format is counted; the list names only such frames and
\* no more than there are, and all of them when every block of a known format is
\* closed by a descriptor of another kind.
ListsWhatIsThere(cam, ds) ==
    LET list == FrameList(ds, 0, FrameCount(ds, 0))
        flat == NamesIn(cam)
    IN /\ Connected(ds) = <<Len(flat)>>
       /\ ToSet(list) \subseteq ToSet(flat) /\ Len(list) <= Len(flat)
       /\ (\A k \in DOMAIN cam.formats : cam.formats[k].format = "unknown"
                                         \/ cam.formats[k].closed) => AllListed(cam, ds)

\* The interface claimed can carry a packet, within the limit, and no other
\* setting within the limit carries a larger one.
BestSetting(cam, ds) ==
    \A limit \in Limits :
        LET packets == IF cam.bulk # 0 THEN {cam.bulk} ELSE ToSet(cam.packets)
            best    == BestAlternate(ds, 2, limit)
        IN IF \A p \in packets : p > limit THEN best = -1
           ELSE Packet(ds, 2, best) = Max({p \in packets : p <= limit})

(* Whatever an honest camera describes -- formats in any order, among them     *)
(* ones the driver does not know, the same resolution in several, stepped or   *)
(* listed rates, a header that claims more than there is -- the driver opens   *)
(* what is offered with the format and size asked for, reads every answer as   *)
(* the camera means it, counts the frames it knows, lists no others and claims *)
(* the best alternate setting (uvc_descriptor_parsing.c,                       *)
(* uvc_host_stream_control).  What becomes of a format that is not offered, and *)
(* of the list when a block is not closed, is below.                           *)
DescriptorsAgree ==
    input.kind = "camera" =>
        LET cam == input.camera
            ds  == Descriptors(cam)
        IN /\ IsUvcDevice(ds)
           /\ OpensOffered(cam, ds)
           /\ KnowsWhatItGets(cam, ds)
           /\ ListsWhatIsThere(cam, ds)
           /\ BestSetting(cam, ds)

(* Frame descriptors are looked for "directly after Format": a frame the       *)
(* camera does not offer in the wanted format is not found (the comment in     *)
(* uvc_desc_get_frame_format_by_format; the search goes on through the frames  *)
(* of the formats behind it).                                                  *)
RefusesOthers ==
    input.kind = "camera" =>
        \A want \in Wants : Offered(input.camera, want) = {} =>
            SetRequest(Descriptors(input.camera), 2, want) = <<>>

(* The list has all the frames of the interface (uvc_desc_get_frame_list as    *)
(* its header describes it; the descriptor that ends a block of frames is      *)
(* consumed, be it the next format).                                           *)
ListsAllFrames ==
    input.kind = "camera" => AllListed(input.camera, Descriptors(input.camera))

-----------------------------------------------------------------------------
\* The pixels of the screen the model's picture showed.
Shows(view, p) ==
    LET v == P!SetView(view)
    IN /\ p.x >= (v.x0 * Width) \div P!Unit - 1 /\ p.x <= (v.x1 * Width) \div P!Unit
       /\ p.y >= (v.y0 * Height) \div P!Unit - 1 /\ p.y <= (v.y1 * Height) \div P!Unit

PointOf(view, box) == P!BoxPoint(P!SetView(view), box, Width, Height)
Normalised(box) == \A k \in 1..4 : box[k] \in 0 .. P!Unit

(* Every box that is one puts the pointer on the screen; one in [0,1] inside  *)
(* the part of the screen the picture showed, one in pixels at the same place *)
(* whatever the picture showed; the cursor the model is told of is within a   *)
(* pixel of it, and a drag between two such points moves only between them    *)
(* and ends at the second (box_to_pixel, pixel_to_abs, build_status_text).    *)
PointsRight ==
    input.kind = "box" /\ input.box # <<>> =>
        LET p == PointOf(input.view, input.box)
            q == PointOf(P!Full, input.box)
            path == P!DragPath(q.x, p.x)
        IN /\ p.x \in 0 .. (Width - 1) /\ p.y \in 0 .. (Height - 1)
           /\ Normalised(input.box) => Shows(input.view, p)
           /\ P!InPixels(input.box) => p = q
           /\ p.x - P!Cursor(P!Absolute(p.x, Width), Width) \in {0, 1}
           /\ p.y - P!Cursor(P!Absolute(p.y, Height), Height) \in {0, 1}
           /\ path[8] = p.x
           /\ \A k \in 1..8 : /\ path[k] <= P!Larger(p.x, q.x)
                              /\ path[k] >= P!Smaller(p.x, q.x)

-----------------------------------------------------------------------------
(* An answer that is accepted has only actions the executor can run, in the    *)
(* order given and none of them lost, what the model itself said about being   *)
(* done is kept, and an error that says nothing about it ends the task         *)
(* (json_parser_parse).                                                        *)
AnswerUsable(answer) ==
    LET got == Parse(answer)
        o   == answer.object
        kept == {k \in DOMAIN o.list : WellFormed(o.list[k])}
    IN got # Refused =>
         /\ \A k \in DOMAIN got.actions :
                /\ got.actions[k].type # ""
                /\ DOMAIN got.actions[k].fields = DOMAIN ActionDefaults
         /\ o.actions = "array" =>
                /\ Len(got.actions) = Cardinality(kept)
                /\ \A k \in kept : got.actions[Cardinality(kept \cap 1 .. k)].type
                                       = Lower(o.list[k].type)
         /\ o.done # Absent => got.done = o.done
         /\ (o.actions = Absent /\ o.action_type = "error" /\ o.done = Absent)
                => got.done = "true"

Valid(s) ==
    LET good[r \in 1 .. (Len(s) + 1)] ==
            r = Len(s) + 1 \/ (Whole(s, r) /\ good[r + SeqLen(s[r])])
    IN good[1]

\* Valid text stays valid and is shortened no more than it has to be; any text,
\* cut anywhere, is valid and as long after it is repaired.
TextKept(s) ==
    /\ Valid(Sanitized(s)) /\ Len(Sanitized(s)) = Len(s)
    /\ Valid(s) => Sanitized(s) = s
    /\ \A room \in Rooms :
         LET short == Copy(room, s) IN
           /\ Len(short) < room /\ short = SubSeq(s, 1, Len(short))
           /\ Valid(s) => Valid(short)
           /\ Valid(s) /\ Len(short) < Len(s) =>
                Len(short) + SeqLen(s[Len(short) + 1]) >= room

(* Text the program did not write is taken as it was meant: the model's answer *)
(* keeps its actions and its verdict, and no text it cuts or repairs becomes   *)
(* invalid UTF-8, for which the API would refuse the whole request             *)
(* (json_parser.c, utf8_util.h).                                               *)
TextsKept ==
    /\ input.kind = "answer" => AnswerUsable(input.answer)
    /\ input.kind = "text" => TextKept(input.text)
=============================================================================
