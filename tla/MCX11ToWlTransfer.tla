--------------------------- MODULE MCX11ToWlTransfer ---------------------------
(* Model-checking module: the constants are given in the .cfg files. *)
EXTENDS X11ToWlTransfer

================================================================================
