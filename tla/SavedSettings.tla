--------------------------- MODULE SavedSettings ---------------------------
(***************************************************************************)
(* What SetValues promises of the saved settings: whatever runs at the     *)
(* same time, fails or crashes, they change only by taking over all the    *)
(* values of one save at once, and keep the others.                        *)
(***************************************************************************)
CONSTANTS
  Contents,   \* the settings that can be saved at first
  Saves       \* what can be saved: functions from some keys to values

VARIABLE saved

Init == saved \in Contents

Save(new) ==
  saved' = [k \in DOMAIN saved \cup DOMAIN new |->
              IF k \in DOMAIN new THEN new[k] ELSE saved[k]]

Next == \E new \in Saves : Save(new)

Spec == Init /\ [][Next]_saved
=============================================================================
