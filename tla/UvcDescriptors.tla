---------------------------- MODULE UvcDescriptors ----------------------------
(***************************************************************************)
(* How uvc_descriptor_parsing.c reads the configuration descriptor of a    *)
(* camera, and how uvc_control.c negotiates a format with what it found.   *)
(* A configuration is the sequence of its descriptors, one record each;    *)
(* byte offsets become positions in it.  `index` is the byte a format      *)
(* descriptor calls bFormatIndex and a frame descriptor bFrameIndex: both  *)
(* lie at the same offset and the code reads it without asking which.      *)
(* Rates are whole numbers of frames per second, 0 for the default, and    *)
(* intervals count 100 ns; the conversions between them are done exactly   *)
(* (the rounding of the code's floats is left out).                        *)
(***************************************************************************)
EXTENDS Integers, Sequences, FiniteSets, FiniteSetsExt, SequencesExt

Plain == [kind |-> "other", index |-> 0, number |-> 0, setting |-> 0,
          video |-> FALSE, streaming |-> FALSE, endpoints |-> 0, mps |-> 0,
          inside |-> <<>>, claimed |-> 0, format |-> "unknown", frames |-> 0,
          res |-> 0, intervals |-> <<>>, from |-> 0, to |-> 0, step |-> 1]

\* Descriptors of type UVC_CS_INTERFACE; only these are looked at one by one.
ClassKinds == {"vcheader", "vsheader", "format", "frame", "class"}

FirstOf(S) == IF S = {} THEN 0 ELSE Min(S)

\* usb_parse_next_descriptor_of_type: the next of these kinds after position
\* `from`, up to position `to`; 0 stands for NULL.
NextOf(ds, from, to, kinds) ==
    FirstOf({i \in (from + 1) .. to : ds[i].kind \in kinds})

NextClass(ds, from, to) == NextOf(ds, from, to, ClassKinds)

\* uvc_desc_is_uvc_device
IsUvcDevice(ds) ==
    \E i \in DOMAIN ds : ds[i].kind = "interface" /\ ds[i].video

\* usb_parse_interface_descriptor (of the USB host library)
Interface(ds, n, alt) ==
    FirstOf({i \in DOMAIN ds : /\ ds[i].kind = "interface"
                               /\ ds[i].number = n /\ ds[i].setting = alt})

\* uvc_desc_get_streaming_input_header: the first class-specific descriptor
\* behind alternate setting 0 must be the header.
InputHeader(ds, n) ==
    LET at   == Interface(ds, n, 0)
        head == NextClass(ds, at, Len(ds))
    IN IF /\ at # 0 /\ ds[at].video /\ ds[at].streaming
          /\ head # 0 /\ ds[head].kind = "vsheader"
       THEN head ELSE 0

\* uvc_desc_get_safe_wTotalLength: the last position the header may claim
\* (a broken camera claims more than there is).
LastInside(ds, head) == Min({Len(ds), head + ds[head].claimed - 1})

\* uvc_desc_is_format_desc, uvc_desc_is_frame_desc, uvc_desc_parse_format
IsFormat(d) == d.kind = "format"
IsFrame(d)  == d.kind = "frame"
Parsed(d)   == d.format

\* The intervals a frame descriptor lists, or steps through.  (A step of 0
\* never leaves the loop in uvc_desc_format_is_equal; it has no model.)
Intervals(d) ==
    IF d.intervals # <<>> THEN ToSet(d.intervals)
    ELSE {d.from + k * d.step : k \in 0 .. ((d.to - d.from) \div d.step)}

\* A second in units of 100 ns: UVC_DESC_FPS_TO_DWFRAMEINTERVAL divides it by
\* the rate and cuts the fraction off.
Second == 10000000
IntervalOf(fps) == Second \div fps

\* FLOAT_EQUAL of a rate and that of an interval: |fps - Second / i| < 0.0001,
\* without fractions.  Neither 166666 nor 166667 is 60 frames per second.
RateEqual(fps, i) ==
    LET room == (i - 1) \div 10000
    IN (fps * i - Second) \in (-room) .. room

\* uvc_desc_format_is_equal
FrameEqual(d, want) ==
    /\ IsFrame(d)
    /\ d.res = want.res
    /\ want.fps = 0 \/ \E i \in Intervals(d) : RateEqual(want.fps, i)

\* uvc_desc_get_frame_format_by_format: the first format of the kind, and the
\* first equal frame behind it -- wherever that frame is.
ByFormat(ds, n, want) ==
    LET head == InputHeader(ds, n)
        last == LastInside(ds, head)
        fmt  == FirstOf({i \in (head + 1) .. last :
                             IsFormat(ds[i]) /\ Parsed(ds[i]) = want.format})
        frm  == FirstOf({i \in (fmt + 1) .. last : FrameEqual(ds[i], want)})
    IN IF head = 0 \/ fmt = 0 \/ frm = 0 THEN <<>> ELSE <<fmt, frm>>

\* uvc_desc_is_format_supported
Supported(ds, n, want) == want.format = "default" \/ ByFormat(ds, n, want) # <<>>

\* uvc_desc_get_control_interface_header: the header of the video function
\* number `idx`.  (One with no class descriptor behind it has no model: the
\* code reads the type of a NULL descriptor.)
ControlHeader(ds, idx) ==
    LET iads == {i \in DOMAIN ds : ds[i].kind = "iad" /\ ds[i].video}
        mine == FirstOf({i \in iads : Cardinality({j \in iads : j < i}) = idx})
        head == NextClass(ds, mine, Len(ds))
    IN IF mine # 0 /\ head # 0 /\ ds[head].kind = "vcheader" THEN head ELSE 0

\* uvc_desc_get_streaming_interface_num: the first streaming interface of the
\* function that has the format; -1 when none has.
StreamingInterface(ds, idx, want) ==
    LET head == ControlHeader(ds, idx)
        good == {k \in DOMAIN ds[head].inside :
                     Supported(ds, ds[head].inside[k], want)}
    IN IF head = 0 \/ good = {} THEN -1 ELSE ds[head].inside[Min(good)]

(* Mutant: the number of frames of the format is not compared. *)
ByIndexUnbounded(ds, n, formatIndex, frameIndex) ==
    LET head == InputHeader(ds, n)
        last == LastInside(ds, head)
        fmt  == FirstOf({i \in (head + 1) .. last :
                             IsFormat(ds[i]) /\ ds[i].index = formatIndex})
        frm  == FirstOf({i \in (fmt + 1) .. last :
                             /\ ds[i].kind \in ClassKinds
                             /\ ds[i].index = frameIndex})
    IN IF head = 0 \/ fmt = 0 \/ frm = 0 THEN <<>> ELSE <<fmt, frm>>

\* uvc_desc_get_frame_format_by_index: the first class descriptor behind the
\* format that carries the index, if the format has that many frames.
ByIndex(ds, n, formatIndex, frameIndex) ==
    LET head == InputHeader(ds, n)
        last == LastInside(ds, head)
        fmt  == FirstOf({i \in (head + 1) .. last :
                             IsFormat(ds[i]) /\ ds[i].index = formatIndex})
        frm  == FirstOf({i \in (fmt + 1) .. last :
                             /\ ds[i].kind \in ClassKinds
                             /\ ds[i].index = frameIndex})
    IN IF \/ formatIndex = 0 \/ frameIndex = 0 \/ head = 0 \/ fmt = 0 \/ frm = 0
          \/ ds[fmt].frames < frameIndex
       THEN <<>> ELSE <<fmt, frm>>

-----------------------------------------------------------------------------
\* uvc_desc_get_frame_list.  Counting sums what the formats announce; listing
\* walks the descriptors, and the one that ends a block of frames is consumed.
Inside(ds, head) == SubSeq(ds, head + 1, LastInside(ds, head))
IsKnown(d) == IsFormat(d) /\ Parsed(d) # "unknown"

CountFrames(inside) ==
    FoldLeft(LAMBDA n, d : IF IsKnown(d) THEN n + d.frames ELSE n, 0, inside)

FrameCount(ds, idx) ==
    LET vc   == ControlHeader(ds, idx)
        head == InputHeader(ds, ds[vc].inside[1])
    IN IF vc = 0 \/ ds[vc].inside = <<>> \/ head = 0 THEN -1
       ELSE CountFrames(Inside(ds, head))

ListStep(st, d, size) ==
    IF d.kind \notin ClassKinds THEN st
    ELSE IF st.format = "none"
    THEN IF IsKnown(d) THEN [st EXCEPT !.format = Parsed(d)] ELSE st
    ELSE IF ~IsFrame(d) \/ (size # 0 /\ Len(st.list) > size - 1)
         THEN [st EXCEPT !.format = "none"]
         ELSE [st EXCEPT !.list = Append(@, [format |-> st.format, res |-> d.res])]

ListFrames(inside, size) ==
    FoldLeft(LAMBDA st, d : ListStep(st, d, size),
             [format |-> "none", list |-> <<>>], inside)

FrameList(ds, idx, size) ==
    LET vc   == ControlHeader(ds, idx)
        head == InputHeader(ds, ds[vc].inside[1])
    IN IF vc = 0 \/ ds[vc].inside = <<>> \/ head = 0 THEN <<>>
       ELSE ListFrames(Inside(ds, head), size).list

-----------------------------------------------------------------------------
\* uvc_desc_get_streaming_intf_and_ep: the alternate setting with the largest
\* packet that is not larger than the limit.  One that has not exactly one
\* endpoint (setting 0 may have none) ends the search with an error.
Settings(ds, n) == {ds[i].setting : i \in {j \in DOMAIN ds :
                        ds[j].kind = "interface" /\ ds[j].number = n}}

Packet(ds, n, alt) == ds[Interface(ds, n, alt)].mps

BestAlternate(ds, n, limit) ==
    LET asked  == 0 .. (Cardinality(Settings(ds, n)) - 1)
        broken == \E a \in asked :
                     LET i == Interface(ds, n, a) IN
                         \/ i = 0 \/ ~ds[i].video \/ ~ds[i].streaming
                         \/ ds[i].endpoints # 1 /\ ~(a = 0 /\ ds[i].endpoints = 0)
        fits   == {a \in asked : /\ ds[Interface(ds, n, a)].endpoints = 1
                                 /\ Packet(ds, n, a) <= limit}
        best   == {a \in fits : \A b \in fits : Packet(ds, n, b) <= Packet(ds, n, a)}
    IN IF broken \/ fits = {} THEN -1 ELSE Max(best)

\* uvc_host_interface_check: the user is told of each video function and of
\* the number of its frames.
Connected(ds) ==
    LET functions == {i \in DOMAIN ds : /\ ds[i].kind = "interface"
                                        /\ ds[i].video /\ ~ds[i].streaming}
    IN [k \in 1 .. Cardinality(functions) |-> FrameCount(ds, k - 1)]

\* uvc_claim_interface: the interface and the setting a stream is opened on.
Claimed(ds, idx, want, limit) ==
    LET n == StreamingInterface(ds, idx, want)
    IN IF n = -1 \/ BestAlternate(ds, n, limit) = -1 THEN <<>>
       ELSE <<n, BestAlternate(ds, n, limit)>>

-----------------------------------------------------------------------------
\* uvc_host_stream_control, SET: what goes into the request, <<>> if refused.
SetRequest(ds, n, want) ==
    LET found == ByFormat(ds, n, want) IN
    IF found = <<>> THEN <<>>
    ELSE <<ds[found[1]].index, ds[found[2]].index,
           IF want.fps # 0 THEN IntervalOf(want.fps)
           ELSE Head(ds[found[2]].intervals \o <<ds[found[2]].from>>)>>

\* uvc_host_stream_control, GET: what the driver makes of the answer (the rate
\* it tells the caller is that of the interval).
GetAnswer(ds, n, answer) ==
    LET found == ByIndex(ds, n, answer[1], answer[2]) IN
    IF found = <<>> THEN <<>>
    ELSE <<Parsed(ds[found[1]]), ds[found[2]].res, answer[3]>>
=============================================================================
