----------------------------- MODULE MCFrameLoop -----------------------------
(* Model-checking module: a window on two outputs, mainly on the second.       *)
EXTENDS FrameLoop

MCBoth == [w \in Windows |-> <<2, 1>>]

\* Bound: the session is switched and outputs are disabled with EGL only.
MCBounded == backend = "qpainter" => active /\ enabled = Outputs

================================================================================
