---------------------------- MODULE StorePromise ----------------------------
(***************************************************************************)
(* What the store of sessions promises the agent loop and the person at    *)
(* the web page, with no file, mutex or task in sight: a turn is added to  *)
(* the session that is current and to no other, a session is continued     *)
(* where its record says, and nothing but a deletion takes one away, save  *)
(* that a loss of power may cost the session that was being written.       *)
(* SessionStore implements it as long as nobody presses START.             *)
(***************************************************************************)
EXTENDS Integers

CONSTANTS Ids,     \* session ids
          NoId     \* the empty id

VARIABLES sessions,   \* those that can be listed and continued
          counter,    \* the turns each believes to have taken
          turns,      \* the turns each has a record of
          current,    \* the session that is worked on
          reached,    \* the turns taken in it, as far as memory knows
          saving,     \* the session whose turn is being saved
          retitling   \* the session whose title is being changed

vars == <<sessions, counter, turns, current, reached, saving, retitling>>

Init == /\ sessions = {}
        /\ counter = [s \in Ids |-> 0] /\ turns = [s \in Ids |-> 0]
        /\ current = NoId /\ reached = 0
        /\ saving = NoId /\ retitling = NoId

-----------------------------------------------------------------------------
(* Requests of the page. *)

Create(s) == /\ s \notin sessions /\ current = NoId
             /\ sessions' = sessions \cup {s}
             /\ current' = s /\ reached' = 0
             /\ UNCHANGED <<counter, turns, saving, retitling>>

Continue(s) == /\ s \in sessions
               /\ current' = s /\ reached' = counter[s]
               /\ UNCHANGED <<sessions, counter, turns, saving, retitling>>

Leave == /\ current' = NoId /\ reached' = 0
         /\ UNCHANGED <<sessions, counter, turns, saving, retitling>>

\* What is written to is not deleted.
Delete(s) == /\ s \in sessions \ {saving, retitling}
             /\ sessions' = sessions \ {s}
             /\ counter' = [counter EXCEPT ![s] = 0]
             /\ turns' = [turns EXCEPT ![s] = 0]
             /\ IF s = current THEN current' = NoId /\ reached' = 0
                               ELSE UNCHANGED <<current, reached>>
             /\ UNCHANGED <<saving, retitling>>

\* A new title may put the counter back to what it was when the request was read,
\* as the session may be working meanwhile.
PutBack(s) == \E n \in 0 .. counter[s] : counter' = [counter EXCEPT ![s] = n]

Retitle(s) == /\ s \in sessions /\ retitling = NoId
              /\ retitling' = s /\ PutBack(s)
              /\ UNCHANGED <<sessions, turns, current, reached, saving>>

Retitled(s) == /\ s = retitling /\ s \in sessions
               /\ retitling' = NoId /\ PutBack(s)
               /\ UNCHANGED <<sessions, turns, current, reached, saving>>

-----------------------------------------------------------------------------
(* The agent loop. *)

\* The turns of a long session are read out and written back, the new one with them.
Trim == /\ current \in sessions /\ saving = NoId
        /\ saving' = current
        /\ UNCHANGED <<sessions, counter, turns, current, reached, retitling>>

Record == /\ current \in sessions /\ saving \in {NoId, current}
          /\ turns' = [turns EXCEPT ![current] = reached + 1]
          /\ reached' = reached + 1
          /\ saving' = NoId
          /\ UNCHANGED <<sessions, counter, current, retitling>>

Count == /\ current \in sessions /\ saving = NoId
         /\ counter' = [counter EXCEPT ![current] = reached]
         /\ saving' = current
         /\ UNCHANGED <<sessions, turns, current, reached, retitling>>

Saved == /\ saving' = NoId
         /\ UNCHANGED <<sessions, counter, turns, current, reached, retitling>>

-----------------------------------------------------------------------------
(* Power is lost.  What was being written may be lost with it, or what it      *)
(* had for turns, and no other session loses anything.                         *)
Lost == sessions \ sessions'

Restart == /\ current' = NoId /\ reached' = 0
           /\ saving' = NoId /\ retitling' = NoId
           /\ sessions' \subseteq sessions /\ Lost \subseteq {saving, retitling}
           /\ turns' \in [Ids -> Nat] /\ counter' \in [Ids -> Nat]
           /\ \A s \in Ids \ (Lost \cup {saving}) :
                 turns'[s] = turns[s] /\ counter'[s] = counter[s]
           /\ \A s \in Ids : turns'[s] \in {turns[s], 0} /\ counter'[s] <= counter[s]

Next == \/ \E s \in Ids : \/ Create(s) \/ Continue(s) \/ Delete(s)
                          \/ Retitle(s) \/ Retitled(s)
        \/ Leave \/ Trim \/ Record \/ Count \/ Saved \/ Restart

Spec == Init /\ [][Next]_vars
=============================================================================
