------------------------------ MODULE MCWlToX11Drag ------------------------------
(* Model-checking module: the constants are given in the .cfg files. *)
EXTENDS WlToX11Drag

================================================================================
