------------------------------ MODULE Register ------------------------------
(***************************************************************************)
(* What WriteFileAtomic promises its callers about one file: readers find  *)
(* the old contents or the new ones, and a power loss leaves one version   *)
(* that was whole, among those since the directory was last flushed.       *)
(***************************************************************************)
CONSTANTS
    Found,      \* what the file may hold before anyone writes it
    Written     \* what writers write

VARIABLES
    value,      \* what readers find
    kept        \* what may be found after a power loss

Init ==
    /\ value \in Found
    /\ kept = {value}

Replace(v) ==
    /\ value' = v
    /\ kept' = kept \cup {v}

Flush ==
    /\ value \in kept'
    /\ kept' \in SUBSET kept
    /\ UNCHANGED value

PowerLoss ==
    /\ value' \in kept
    /\ kept' = {value'}

Next == (\E v \in Written : Replace(v)) \/ Flush \/ PowerLoss

Spec == Init /\ [][Next]_<<value, kept>>

=============================================================================
