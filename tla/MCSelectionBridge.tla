--------------------------- MODULE MCSelectionBridge ---------------------------
(* Model-checking module: clients and types are model values. *)
EXTENDS SelectionBridge, TLC

Symmetry == Permutations(XClients) \cup Permutations(Mimes)

================================================================================
