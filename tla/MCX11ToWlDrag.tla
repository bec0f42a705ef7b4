----------------------------- MODULE MCX11ToWlDrag -----------------------------
(* Model-checking module: the constants are given in the .cfg files. *)
EXTENDS X11ToWlDrag

================================================================================
