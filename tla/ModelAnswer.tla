----------------------------- MODULE ModelAnswer -----------------------------
(***************************************************************************)
(* What the program makes of a text it did not write: the model's answer   *)
(* (json_parser.c) and UTF-8 it has to shorten or repair (utf8_util.h).    *)
(*                                                                         *)
(* An answer is [form, object]: how the JSON is wrapped, and which of the  *)
(* fields the parser looks at are there.  A field that is missing is       *)
(* Absent; `actions` tells whether the field is an array and `list` what   *)
(* is in it.  JSON itself (cJSON) is left out.  Text is a sequence of      *)
(* bytes, and a byte is "a" (ASCII), "c" (continuation), "2", "3" or "4"   *)
(* (the lead byte of a character of so many) or "x" (never valid).         *)
(***************************************************************************)
EXTENDS Integers, Sequences, SequencesExt

Absent == "absent"
Refused == [actions |-> <<"refused">>]

\* strip_markdown_fences and the second attempt between the outermost braces:
\* fences and prose around the object are read through, but not prose that has
\* braces of its own, a text without an object or a value that is not one.
Readable(answer) == answer.form \in {"plain", "fenced", "fencedNoEnd", "prose"}

\* json_parser_set_action_defaults: a field the action has is kept.
ActionDefaults == [delay_after |-> "0.05", button |-> "left",
                   hold |-> "0", wait_seconds |-> "0.0"]
Defaulted(fields) == [f \in DOMAIN ActionDefaults |->
                         IF f \in DOMAIN fields THEN fields[f] ELSE ActionDefaults[f]]

\* The capital letters of the types that occur.
Lower(t) == IF t = "CLICK" THEN "click" ELSE IF t = "Error" THEN "error" ELSE t

\* An entry is [type, fields]; type is "" for an entry the parser drops: not an
\* object, no action_type, not a string, or empty.
WellFormed(a) == a.type # ""

(* Mutant: the index moves on although the array shifted left. *)
ValidatedSkips(actions) ==
    FoldLeft(LAMBDA st, a :
                 IF st.skip \/ WellFormed(a)
                 THEN [skip |-> FALSE,
                       kept |-> Append(st.kept, [type |-> Lower(a.type),
                                                 fields |-> Defaulted(a.fields)])]
                 ELSE [st EXCEPT !.skip = TRUE],
             [skip |-> FALSE, kept |-> <<>>], actions).kept

\* The loop that removes malformed entries in place and completes the others.
Validated(actions) ==
    FoldLeft(LAMBDA kept, a :
                 IF WellFormed(a)
                 THEN Append(kept, [type |-> Lower(a.type), fields |-> Defaulted(a.fields)])
                 ELSE kept,
             <<>>, actions)

\* json_parser_set_response_defaults.  A duplicate added later never wins:
\* cJSON_GetObjectItem returns the first, so the error branch's own done:true
\* counts only when the model gave none.
ResponseDefaults(o, actions, done) ==
    [actions           |-> actions,
     done              |-> IF o.done = Absent THEN done ELSE o.done,
     need_screen       |-> IF o.need_screen = Absent THEN "true" ELSE o.need_screen]

\* A lone action at the top level, wrapped into a list of one: of its fields
\* these are copied, so that its delay_after is lost.
Lone(o) == o.action_type # Absent /\ o.actions = Absent
LoneFields == {"box_2d", "from_box", "to_box", "button", "key", "text", "delta_x",
               "delta_y", "wait_seconds", "hold"}
Wrapped(o) ==
    <<[type |-> o.action_type,
       fields |-> [f \in DOMAIN o.fields \cap LoneFields |-> o.fields[f]]]>>

\* json_parser_parse
Parse(answer) ==
    LET o == answer.object
        wrapped == IF Lone(o) THEN Wrapped(o) ELSE o.list
    IN IF \/ ~Readable(answer)
          \/ Lone(o) /\ o.action_type = ""
          \/ ~Lone(o) /\ o.actions # "array"
          \/ ~o.plan_update
       THEN Refused
       ELSE IF Lone(o) /\ o.action_type = "error"
            THEN ResponseDefaults(o, <<>>, "true")
            ELSE ResponseDefaults(o, Validated(wrapped), "false")

-----------------------------------------------------------------------------
Bytes == {"a", "c", "2", "3", "4", "x"}

\* utf8_seq_len; 0 for a byte that cannot start a character.
SeqLen(b) == CASE b = "a" -> 1 [] b = "2" -> 2 [] b = "3" -> 3 [] b = "4" -> 4
               [] OTHER -> 0

\* The character at r is whole: its continuation bytes are all there.
Whole(s, r) ==
    LET need == SeqLen(s[r])
    IN need > 0 /\ \A k \in 1 .. (need - 1) : r + k <= Len(s) /\ s[r + k] = "c"

(* Mutant: the byte of the terminator is given away as well. *)
CopyOneMore(dstLen, s) ==
    LET stop[r \in 0 .. Len(s)] ==
            IF r = Len(s) THEN r
            ELSE LET need == IF SeqLen(s[r + 1]) = 0 THEN 1 ELSE SeqLen(s[r + 1])
                 IN IF r + need > dstLen THEN r
                    ELSE IF r + need > Len(s) THEN Len(s) ELSE stop[r + need]
    IN SubSeq(s, 1, stop[0])

\* utf8_copy into a buffer of dstLen bytes.  A lead byte at the end that
\* promises more than there is copies the terminator with it, which ends the
\* text; that the loop then reads on behind it is left out.
Copy(dstLen, s) ==
    LET stop[r \in 0 .. Len(s)] ==
            IF r = Len(s) THEN r
            ELSE LET need == IF SeqLen(s[r + 1]) = 0 THEN 1 ELSE SeqLen(s[r + 1])
                 IN IF r + need > dstLen - 1 THEN r
                    ELSE IF r + need > Len(s) THEN Len(s) ELSE stop[r + need]
    IN SubSeq(s, 1, stop[0])

\* utf8_sanitize: a byte that is not part of a whole character becomes '?'.
Sanitized(s) ==
    LET from[r \in 1 .. (Len(s) + 1)] ==
            IF r = Len(s) + 1 THEN <<>>
            ELSE IF Whole(s, r)
                 THEN SubSeq(s, r, r + SeqLen(s[r]) - 1) \o from[r + SeqLen(s[r])]
                 ELSE <<"a">> \o from[r + 1]
    IN from[1]
=============================================================================
