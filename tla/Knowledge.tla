----------------------------- MODULE Knowledge -----------------------------
(* What the agent remembers between its steps: the ring of plan summaries  *)
(* of short_term_mem.c, in RAM, and the device profiles of                 *)
(* profile_manager.c, files that the model appends to, that one cache      *)
(* entry serves and that the web page's editor writes behind its back.     *)
(*                                                                         *)
(* Summaries are numbered in the order they are told. Similarity of lines  *)
(* (normalize_line, line_overlap) is the relation Restates.                *)
EXTENDS Naturals, Sequences, FiniteSets

CONSTANTS Profiles,     \* profile identifiers
          Default,      \* cfg.default_profile
          Lines,        \* lines of a profile
          Restates,     \* <<old, new>>: new says again what old says
          MaxBytes,     \* PROFILE_MAX_BYTES, in lines
          NoFile, NoText,
          MaxTold       \* bound: summaries told

ASSUME KnowledgeAssumption ==
  /\ Default \in Profiles /\ Restates \subseteq Lines \X Lines
  /\ \A l \in Lines : <<l, l>> \in Restates
  /\ MaxBytes \in Nat /\ MaxTold \in Nat

VARIABLES historyMax,   \* s_max_len
          entries,      \* s_entries: each one the numbers merged into it
          overrun,      \* stm_add has read past the array
          told,         \* summaries told since boot
          forgotten,    \* those that an allocation failure has cost
          profile,      \* the .md file of each profile
          cacheId, cacheText,   \* s_cache_id, s_cache_content
          reading,      \* what profile_mgr_get has read and not yet cached
          active,       \* ctx->active_profile
          edited,       \* profiles written by the web page since they were read
          blind         \* profiles with a line that was compared with nothing

stmVars == <<historyMax, entries, overrun, told, forgotten>>
cacheVars == <<cacheId, cacheText, reading>>
profileVars == <<profile, cacheVars, active, edited, blind>>
knowledgeVars == <<stmVars, profileVars>>

-----------------------------------------------------------------------------
(* Short-term memory. *)

Numbers(s) == {s[i] : i \in DOMAIN s}

(* stm_get_all_formatted: what the model is shown, entry after entry.      *)
Shown(es) == UNION {Numbers(es[i]) : i \in DOMAIN es}

InOrder(es) ==
  /\ \A i \in DOMAIN es : \A j, k \in DOMAIN es[i] : j < k => es[i][j] < es[i][k]
  /\ \A i, k \in DOMAIN es : i < k =>
       \A m \in Numbers(es[i]), n \in Numbers(es[k]) : m < n

(* Mutant: the merged string has room for the first of the two only. *)
MergedTruncated(es) == <<es[1]>> \o SubSeq(es, 3, Len(es))

(* The two oldest entries become one. *)
Merged(es) == <<es[1] \o es[2]>> \o SubSeq(es, 3, Len(es))

(* Mutant: room is made one summary too late. *)
FullTooLate == Len(entries) > historyMax

Full == Len(entries) >= historyMax

(* What makes room: the merge, or dropping the oldest entry when the       *)
(* merged string cannot be allocated.                                      *)
Room(es, allocated) == IF allocated THEN Merged(es) ELSE Tail(es)

(* stm_add. The copy of the summary may fail too, and is then dropped.     *)
StmAdd ==
  /\ told < MaxTold /\ ~overrun
  /\ ~(Full /\ historyMax = 1)
  /\ told' = told + 1
  /\ \E merged, copied \in BOOLEAN :
       LET kept == IF Full THEN Room(entries, merged) ELSE entries
       IN  /\ ~Full => merged
           /\ entries' = IF copied THEN Append(kept, <<told + 1>>) ELSE kept
           /\ forgotten' = forgotten \cup (IF copied THEN {} ELSE {told + 1})
                \cup (IF merged THEN {} ELSE Numbers(entries[1]))
  /\ UNCHANGED <<historyMax, overrun>>

(* With room for one entry only, a full memory has no second one to merge: *)
(* s_entries[1] lies past the array and what follows is undefined.         *)
StmOverrun ==
  /\ told < MaxTold /\ ~overrun
  /\ Full /\ historyMax = 1
  /\ overrun' = TRUE
  /\ UNCHANGED <<historyMax, entries, told, forgotten>>

(* stm_init: a length of 0 means 10. *)
StmInit(len, default) == historyMax' = IF len > 0 THEN len ELSE default

-----------------------------------------------------------------------------
(* Profiles. *)

(* profile_mgr_get_default answers from the cache when it holds that       *)
(* profile. Otherwise it reads the file without the mutex: a web edit may  *)
(* come between the reading and the caching. An empty file is no profile,  *)
(* one there is no memory to read is like one that cannot be cached.       *)
CacheHit == cacheText # NoText /\ cacheId = Default

GetDefault ==
  /\ reading = NoText
  /\ IF CacheHit
       THEN UNCHANGED <<reading, edited>>
       ELSE /\ reading' = IF profile[Default] \in {NoFile, <<>>}
                            THEN NoText ELSE profile[Default]
            /\ edited' = edited \ {Default}
  /\ UNCHANGED <<profile, cacheId, cacheText, active, blind>>

(* The copies for the cache may fail; the cache then stays as it was. *)
CacheDefault ==
  /\ reading # NoText /\ reading' = NoText
  /\ \/ cacheId' = Default /\ cacheText' = reading
     \/ UNCHANGED <<cacheId, cacheText>>
  /\ UNCHANGED <<profile, active, edited, blind>>

(* request_profile of the model's answer. It decides where discoveries go, *)
(* not which profile the model is shown.                                   *)
SwitchProfile ==
  /\ \E p \in Profiles : active' = p
  /\ UNCHANGED <<profile, cacheVars, edited, blind>>

(* Mutant: only exact repetitions are recognized. *)
SimilarExactly(text, line) == \E i \in DOMAIN text : text[i] = line

(* profile_has_similar_line: the existing text restates the new line. *)
Similar(text, line) == \E i \in DOMAIN text : <<text[i], line>> \in Restates

Text(p) == IF profile[p] = NoFile THEN <<>> ELSE profile[p]

Invalidated == cacheId' = NoText /\ cacheText' = NoText

(* Mutant: the cached copy survives the append. *)
AppendLineKeepsCache(line) ==
  /\ Len(Text(active)) < MaxBytes /\ ~Similar(Text(active), line)
  /\ profile' = [profile EXCEPT ![active] = Append(Text(active), line)]
  /\ UNCHANGED <<cacheVars, active, edited, blind>>

(* profile_mgr_append, when the profile is not full, does not say this     *)
(* already -- or there is no memory to read or to copy what it says -- and *)
(* can be opened. In every other case it changes nothing.                  *)
AppendLine(line) ==
  /\ Len(Text(active)) < MaxBytes
  /\ \/ ~Similar(Text(active), line) /\ UNCHANGED blind
     \/ blind' = blind \cup {active}
  /\ profile' = [profile EXCEPT ![active] = Append(Text(active), line)]
  /\ Invalidated
  /\ UNCHANGED <<reading, active, edited>>

(* The web page writes or deletes a profile file; it tells nobody. *)
WriteProfile(p, text) ==
  /\ profile' = [profile EXCEPT ![p] = text]
  /\ edited' = edited \cup {p} /\ blind' = blind \ {p}
  /\ UNCHANGED <<cacheVars, active>>

-----------------------------------------------------------------------------
(* profile_mgr_init and agent_set_active_profile at boot; losing power     *)
(* takes the memory and leaves the files.                                  *)
Forget ==
  /\ entries' = <<>> /\ overrun' = FALSE /\ told' = 0 /\ forgotten' = {}
  /\ historyMax' = 0
  /\ cacheId' = NoText /\ cacheText' = NoText /\ reading' = NoText
  /\ active' = Default
  /\ UNCHANGED <<profile, edited, blind>>

KnowledgeInit ==
  /\ entries = <<>> /\ overrun = FALSE /\ told = 0 /\ forgotten = {}
  /\ historyMax = 0
  /\ cacheId = NoText /\ cacheText = NoText /\ reading = NoText
  /\ active = Default /\ edited = {} /\ blind = {}
  /\ profile = [p \in Profiles |-> NoFile]

-----------------------------------------------------------------------------
KnowledgeTypeOK ==
  /\ historyMax \in Nat /\ Len(entries) <= historyMax
  /\ overrun \in BOOLEAN /\ told \in 0 .. MaxTold /\ forgotten \subseteq 1 .. told
  /\ \A p \in Profiles : profile[p] = NoFile \/ profile[p] \in Seq(Lines)
  /\ cacheId \in Profiles \cup {NoText}
  /\ active \in Profiles /\ edited \subseteq Profiles /\ blind \subseteq Profiles

(* However often the memory was compressed, it still says every summary    *)
(* since boot, once and in order, except what an allocation failure cost;  *)
(* it never holds more entries than it has room for, and only a length of  *)
(* one makes it read past its array.                                       *)
HistoryKept ==
  /\ Shown(entries) = (1 .. told) \ forgotten
  /\ InOrder(entries)
  /\ overrun => historyMax = 1

(* A cached profile is the file, unless the web page has written the file  *)
(* since it was read.                                                      *)
CacheFresh ==
  /\ cacheText # NoText => cacheId = Default
  /\ cacheText # NoText /\ cacheId \notin edited => cacheText = profile[cacheId]

(* The comment of profile_has_similar_line: without it "the profile fills  *)
(* with paraphrases of one fact". No line repeats what an earlier one of   *)
(* the same profile says, through any sequence of discoveries and          *)
(* switches, unless there was no memory to compare it; what the page       *)
(* writes is taken as one line.                                            *)
SaysItOnce ==
  \A p \in Profiles \ blind : profile[p] # NoFile =>
    \A i, j \in DOMAIN profile[p] :
      i < j => <<profile[p][i], profile[p][j]>> \notin Restates

ProfilesSound == CacheFresh /\ SaysItOnce
=============================================================================
