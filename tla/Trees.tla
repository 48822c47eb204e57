-------------------------------- MODULE Trees --------------------------------
(***************************************************************************)
(* Directory trees, told apart only by how much of them is on disk.        *)
(* os.RemoveAll is not atomic: it unlinks entries one at a time, so an I/O *)
(* error or a killed process leaves any part of the tree behind.           *)
(***************************************************************************)

TreeStates == {"absent", "partial", "whole"}

(* What os.RemoveAll may have left of tree t when it stopped early.        *)
Shrunk(t) ==
    CASE t = "whole"   -> {"whole", "partial", "absent"}
      [] t = "partial" -> {"partial", "absent"}
      [] OTHER         -> {"absent"}

=============================================================================
