------------------------- MODULE MCToplevelGeometry -------------------------
(* Model-checking module: one window with all maximise modes.  More than four  *)
(* events are explored only where they matter, which is many changes of modes. *)
EXTENDS ToplevelGeometry

MCModes == SUBSET Full

\* A client that may be late, with a window that is maximised as a whole or not at all.
MCLate == Len(win.sent) <= 4 /\ {win.max, win.update.max} \subseteq {{}, Full}

\* A client that keeps up, with a window that changes its modes and nothing else.
MCPrompt ==
    /\ Len(win.pending) <= 1 /\ Len(win.sent) - win.acked <= 1
    /\ win.mapped \/ Len(win.sent) <= 2
    /\ win.resize = NoResize /\ win.update.frame.x \notin Places

MCBounded == MCLate \/ MCPrompt
=============================================================================
