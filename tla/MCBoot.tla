------------------------------- MODULE MCBoot -------------------------------
EXTENDS Boot
CONSTANTS l1, l2
MCConfigs == {[ssid |-> TRUE, len |-> 2], [ssid |-> FALSE, len |-> 0]}
(* l2 says again what l1 says, in other words. *)
MCRestates == {<<l, l>> : l \in Lines} \cup {<<l1, l2>>}
(* A restless network, or a diligent model, or a busy page, or some of each. *)
MCBudgets == {[air |-> 4, turns |-> 0, edits |-> 0, lives |-> 1],
              [air |-> 0, turns |-> 3, edits |-> 0, lives |-> 0],
              [air |-> 0, turns |-> 2, edits |-> 1, lives |-> 0],
              [air |-> 1, turns |-> 1, edits |-> 1, lives |-> 1]}
=============================================================================
