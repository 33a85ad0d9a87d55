----------------------------- MODULE CloudClient -----------------------------
(* The LLM client (cloud_client): the encoded screenshot it keeps between     *)
(* queries, its persistent HTTP connection and one query at a time, from the  *)
(* choice of the picture to the end of the retry loop.  The agent's loop task *)
(* is its only caller.                                                        *)
EXTENDS ViewGeometry, Sequences

CONSTANTS
  NoFrame,            \* no picture
  ConfiguredRetries   \* max_retries of config.json

ASSUME RetriesAssumption == ConfiguredRetries \in Nat

VARIABLES
  cache,    \* the encoded payload: its frame, the view it is filed under and the view it shows
  conn,     \* the keep-alive connection: "closed" or "open"
  query,    \* the query in progress
  lost      \* history: an encoding has failed since the payload was made

clientVars == <<cache, conn, query, lost>>

\* Mutant of MaxRetries: the configured value is trusted.
RetriesUnclamped == ConfiguredRetries

\* cloud_client_init keeps the index of the backoff table in range.
MaxRetries == IF ConfiguredRetries > 3 THEN 3 ELSE ConfiguredRetries

\* retry_delays: milliseconds before the first, second, ... attempt.
Backoff == <<0, 2000, 4000, 8000>>

NoPicture == [frame |-> NoFrame, key |-> Full, shows |-> Full]

NoQuery == [phase |-> "none", frame |-> NoFrame, view |-> Full, reuse |-> FALSE,
            picture |-> NoPicture, attempt |-> 0, sent |-> 0, refused |-> FALSE]

\* What one exchange can come to: an action JSON; a complete 200 without one; a
\* transport error or a body cut short; a status worth a retry (408, 429, 5xx);
\* any other 4xx.
Outcomes == {"answer", "garbled", "broken", "busy", "refused"}

ClientInit ==
  /\ cache = NoPicture
  /\ conn = "closed"
  /\ query = NoQuery
  /\ lost = FALSE

\* Mutant of CanReuse: the view is not compared.
CanReuseAnyView(v) == cache.frame # NoFrame

\* cloud_client_can_reuse_image.
CanReuse(v) == cache.frame # NoFrame /\ SameView(cache.key, Normalized(v))

\* The arguments of cloud_client_query.
Asked(f, v, r) ==
  [NoQuery EXCEPT !.phase = "prepare", !.frame = f, !.view = Normalized(v), !.reuse = r]

\* Step A, the picture: the caller said the screen is unchanged and the payload
\* is filed under this view.
Reuse ==
  /\ query.phase = "prepare"
  /\ query.reuse /\ CanReuse(query.view)
  /\ query' = [query EXCEPT !.phase = "serialize", !.picture = cache]
  /\ UNCHANGED <<cache, conn, lost>>

\* What is uploaded for a view: the crop, or the whole frame when cropping fails.
Transformed == IF IsFull(query.view) THEN {Full} ELSE {query.view, Full}

\* Step A otherwise: transform the frame and encode it; the payload is replaced
\* only when the encoding succeeds.
Encode ==
  /\ query.phase = "prepare"
  /\ ~(query.reuse /\ CanReuse(query.view))
  /\ \/ \E shown \in Transformed :
          /\ cache' = [frame |-> query.frame, key |-> query.view, shows |-> shown]
          /\ query' = [query EXCEPT !.phase = "serialize", !.picture = cache']
          /\ lost' = FALSE
     \/ /\ query' = [query EXCEPT !.phase = "failed"]
        /\ lost' = TRUE
        /\ UNCHANGED cache
  /\ UNCHANGED conn

\* Step B: the JSON body, or no memory for it. When there is none for the URL of
\* the picture alone, the request goes without it.
Serialize ==
  /\ query.phase = "serialize"
  /\ \/ \E shown \in {query.picture, NoPicture} :
          query' = [query EXCEPT !.phase = "send", !.picture = shown]
     \/ query' = [query EXCEPT !.phase = "failed"]
  /\ UNCHANGED <<cache, conn, lost>>

\* The next turn of the retry loop after an attempt that brought no answer.
NextAttempt(q) ==
  IF q.attempt < MaxRetries THEN [q EXCEPT !.attempt = @ + 1]
  ELSE [q EXCEPT !.phase = "failed"]

\* client_ensure finds no connection and cannot make one.
EnsureFails ==
  /\ query.phase = "send" /\ conn = "closed"
  /\ query' = NextAttempt(query)
  /\ UNCHANGED <<cache, conn, lost>>

\* What the retry loop makes of the outcome of an exchange.
After(q, outcome) ==
  LET sent == [q EXCEPT !.sent = @ + 1]
  IN  IF outcome = "answer" THEN [sent EXCEPT !.phase = "answered"]
      ELSE IF outcome = "refused" THEN [sent EXCEPT !.phase = "failed", !.refused = TRUE]
      ELSE NextAttempt(sent)

\* One attempt over a connection that is open or has just been made; it is kept
\* only after a complete 200.
Exchange ==
  /\ query.phase = "send"
  /\ \E outcome \in Outcomes :
       /\ query' = After(query, outcome)
       /\ conn' = IF outcome \in {"answer", "garbled"} THEN "open" ELSE "closed"
  /\ UNCHANGED <<cache, lost>>

ClientNext == Reuse \/ Encode \/ Serialize \/ EnsureFails \/ Exchange
=============================================================================
