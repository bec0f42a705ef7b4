-------------------------- MODULE MCSelectionTransfers -------------------------
(* Model-checking module: transfers, windows and properties are model values. *)
EXTENDS SelectionTransfers, TLC

Symmetry == Permutations(Transfers) \cup Permutations(Requestors)
              \cup Permutations(Properties)

================================================================================
