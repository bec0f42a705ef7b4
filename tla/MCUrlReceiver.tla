----------------------------- MODULE MCUrlReceiver -----------------------------
(* Model-checking module: the bounds are given in the .cfg files. *)
EXTENDS UrlReceiver

================================================================================
