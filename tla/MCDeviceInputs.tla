--------------------------- MODULE MCDeviceInputs ---------------------------
EXTENDS DeviceInputs

Frame(res, intervals) ==
    [res |-> res, intervals |-> intervals, from |-> 0, to |-> 0, step |-> 1]
\* 30, 15 and 10 frames per second.
Stepped(res) == [res |-> res, intervals |-> <<>>, from |-> 333333, to |-> 1000000,
                 step |-> 333333]

MCFrames == {<<Frame(480, <<333333>>)>>, <<Frame(720, <<333334, 166666>>)>>, <<Stepped(720)>>,
             <<Frame(480, <<400000>>), Frame(720, <<333333>>)>>,
             <<Stepped(720), Frame(1080, <<400000>>), Frame(480, <<333333>>)>>}
MCFormats == [format : {"YUY2", "MJPEG", "unknown"}, frames : MCFrames, closed : BOOLEAN]
\* One format, two, and a third one behind them or two that are not known.
MCSequences == {<<f>> : f \in MCFormats} \cup
               {<<f, g>> : f \in MCFormats, g \in MCFormats} \cup
               {<<f, g, h>> : f \in {e \in MCFormats : Len(e.frames) = 1 /\ e.format # "MJPEG"},
                              g \in {e \in MCFormats : Len(e.frames) = 2},
                              h \in {e \in MCFormats : Len(e.frames) = 3 /\ e.format # "YUY2"}}
MCCameras ==
    [formats : {s \in MCSequences : \A j, k \in DOMAIN s :
                   s[j].format = s[k].format => j = k \/ s[k].format = "unknown"},
     packets : {<<1, 3>>, <<2, 5, 3>>}, bulk : {0, 4}, overclaims : {0, 9}]
MCDistinct == {c \in MCCameras : /\ c.bulk # 0 => c.packets = <<1, 3>>
                                 /\ Len(c.formats) = 3 => c.bulk = 0 /\ c.overclaims = 0}
MCWants == [format : {"YUY2", "MJPEG"}, res : {480, 720, 1080}, fps : {0, 15, 25, 30, 60}]

MCView(y0, x0, y1, x1) == [y0 |-> y0, x0 |-> x0, y1 |-> y1, x1 |-> x1, scale |-> 1]
MCViews == {MCView(0, 0, 1000, 1000), MCView(500, 250, 1000, 750),
            MCView(900, 900, 900, 900), MCView(-200, 300, 400, 1700),
            MCView(333, 667, 666, 999)}
MCBounds == {-300, 0, 333, 500, 1000, 300000, 900000}
MCBoxes == {<<>>} \cup {<<a, b, c, d>> : a \in MCBounds, b \in MCBounds,
                                       c \in MCBounds, d \in MCBounds}

MCEntries == {[type |-> t, fields |-> <<>>] : t \in {"", "click", "CLICK"}} \cup
             {[type |-> "type", fields |-> [hold |-> "9"]]}
MCAnswers ==
    [form : {"plain", "prose", "braces"},
     object : [action_type : {Absent, "", "error", "Error", "CLICK"},
               fields : {[delay_after |-> "2", hold |-> "9"]}, actions : {Absent, "notAnArray", "array"},
               list : BoundedSeq(MCEntries, 3), plan_update : BOOLEAN,
               done : {Absent, "true", "false"}, need_screen : {Absent, "false"}]]
MCTexts == BoundedSeq({"a", "c", "2", "3", "x"}, 5)
=============================================================================
