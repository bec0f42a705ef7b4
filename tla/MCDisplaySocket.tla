---------------------------- MODULE MCDisplaySocket ----------------------------
(* Model-checking module: processes are model values. *)
EXTENDS DisplaySocket

================================================================================
