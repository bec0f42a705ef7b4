-------------------------------- MODULE FrameLoop --------------------------------
(****************************************************************************)
(* The render loop of the Wayland session: class output of                  *)
(* como/render/wayland/output.h, which decides when an output is painted;   *)
(* class presentation, which tells clients of it; and what the platform,    *)
(* the two backends, DPMS and the configuration of outputs do to them.      *)
(*                                                                          *)
(* Nothing polls: an output that has something to paint is driven by its    *)
(* delay timer or by the frame event of the swap that is pending, and a     *)
(* client that wants a frame callback by those or by the frame timer.       *)
(* Every step here is one event of the compositor's only thread.            *)
(*                                                                          *)
(* A region is what a property can tell of it: whether it touches an        *)
(* output.  The length of a delay does not matter, only that the timer      *)
(* fires.  Outside are the clients, the kernel's session and wlroots, of    *)
(* which it is assumed that a commit that succeeds is followed by a frame   *)
(* event.                                                                   *)
(****************************************************************************)
EXTENDS Naturals, Sequences, FiniteSets

CONSTANTS Outputs,    \* outputs of the machine, numbers: the order of base.outputs
          Windows,    \* Wayland windows
          Coverage    \* the outputs a window is on, the most covered one first

ASSUME OutputsAssumption == Outputs \subseteq Nat /\ Outputs # {}
ASSUME CoverageAssumption ==
    \A w \in Windows : /\ Coverage[w] \in Seq(Outputs) /\ Coverage[w] # <<>>
                       /\ \A i, j \in DOMAIN Coverage[w] :
                            Coverage[w][i] = Coverage[w][j] => i = j

VARIABLES
    backend,        \* egl or qpainter
    active,         \* session->isActiveSession()
    enabled,        \* base.outputs
    dpms,           \* outputs that are on
    delay_timer,    \* outputs whose delay timer runs
    frame_timer,    \* outputs whose frame timer runs
    swap_pending,   \* outputs that wait for their swap
    repaints,       \* outputs whose repaints_region is not empty
    assigned,       \* assigned_surfaces of an output
    damage,         \* outputs that the pending repaints of a window touch
    frame,          \* surfaces whose last commit asked for a frame callback
    callback,       \* surfaces whose client waits for a frame callback
    alive,          \* windows that are there
    committed,      \* outputs with a commit under way in the backend
    slept           \* outputs that slept since their delay timer was last started

outputVars == <<delay_timer, frame_timer, swap_pending, repaints, assigned, slept>>
windowVars == <<damage, frame, callback, alive>>
powerVars == <<active, enabled, dpms>>
vars == <<backend, outputVars, windowVars, powerVars, committed>>

TypeOK ==
    /\ backend \in {"egl", "qpainter"} /\ active \in BOOLEAN
    /\ {enabled, dpms, delay_timer, frame_timer, swap_pending, repaints, committed,
        slept} \subseteq SUBSET Outputs
    /\ {frame, callback, alive} \subseteq SUBSET Windows
    /\ assigned \in [Outputs -> SUBSET Windows]
    /\ damage \in [Windows -> SUBSET Outputs]

Covers(w) == {Coverage[w][i] : i \in DOMAIN Coverage[w]}

\* The compositor has started: compositor_start_scene() has repainted everything.
Init ==
    /\ backend \in {"egl", "qpainter"} /\ active = TRUE
    /\ enabled = Outputs /\ dpms = Outputs
    /\ delay_timer = {} /\ frame_timer = {} /\ swap_pending = {} /\ repaints = {}
    /\ assigned = [o \in Outputs |-> {}]
    /\ damage = [w \in Windows |-> {}] /\ frame = {} /\ callback = {} /\ alive = Windows
    /\ committed = {} /\ slept = {}

--------------------------------------------------------------------------------
\* max_coverage_output(): of the enabled outputs, and the first if the window is on none.
max_coverage_output(w) ==
    LET on == {i \in DOMAIN Coverage[w] : Coverage[w][i] \in enabled} IN
      IF on = {} THEN CHOOSE o \in enabled : \A p \in enabled : o <= p
      ELSE Coverage[w][CHOOSE i \in on : \A j \in on : i <= j]

MainlyOn(o) == {w \in alive : enabled # {} /\ max_coverage_output(w) = o}

Asleep(o) == o \notin dpms \/ ~active

\* output_waiting_for_event()
output_waiting_for_event(o) == o \in delay_timer \/ o \in swap_pending \/ Asleep(o)

\* set_delay_timer() of the outputs S, of which those in stopped have no timer any more
\* and those in swapping wait for their swap.
set_delay_timer(S, stopped, swapping) ==
    LET running == delay_timer \ stopped
        started == {o \in S : o \notin running \cup swapping /\ ~Asleep(o)}
    IN  /\ delay_timer' = running \cup started
        /\ slept' = slept \ started

\* presentation::frame() for the windows ws.
Frame(ws) == callback' = callback \ ws

--------------------------------------------------------------------------------
(****************************************************************************)
(* What windows and the compositor ask for.                                 *)
(****************************************************************************)

\* request_frame(): unless a run, a swap or the frame timer is to be awaited, the window
\* gets its callback now, and the next one has to wait for a refresh cycle.
request_frame(o, w) ==
    IF output_waiting_for_event(o) \/ o \in frame_timer
      THEN callback' = callback \cup {w} /\ UNCHANGED frame_timer
      ELSE /\ frame_timer' = frame_timer \cup {o}
           /\ Frame({w})

\* handle_commit() of a surface with damage: handle_surface_damage() and, by the signals
\* damaged and needsRepaint, schedule_repaint().
CommitDamage(w) ==
    /\ w \in alive
    /\ damage' = [damage EXCEPT ![w] = @ \cup (Covers(w) \cap enabled)]
    /\ \E wants \in BOOLEAN :
         /\ frame' = IF wants THEN frame \cup {w} ELSE frame \ {w}
         /\ callback' = IF wants THEN callback \cup {w} ELSE callback
    /\ set_delay_timer(Covers(w) \cap enabled, {}, swap_pending)
    /\ UNCHANGED <<backend, frame_timer, swap_pending, repaints, assigned, alive, powerVars,
                   committed>>

\* handle_commit() without damage, with a frame callback: schedule_frame_callback().
CommitFrame(w) ==
    /\ w \in alive
    /\ frame' = frame \cup {w}
    /\ IF enabled = {} THEN callback' = callback \cup {w} /\ UNCHANGED frame_timer
       ELSE request_frame(max_coverage_output(w), w)
    /\ UNCHANGED <<backend, delay_timer, swap_pending, repaints, assigned, slept, damage,
                   alive, powerVars, committed>>

\* handle_commit() with neither.
CommitOther(w) ==
    /\ w \in alive /\ w \in frame
    /\ frame' = frame \ {w}
    /\ UNCHANGED <<backend, outputVars, damage, callback, alive, powerVars, committed>>

\* Seeded fault: the surface stays assigned when it is destroyed.
SurfaceDestroyed_Assigned(w) ==
    /\ w \in alive
    /\ alive' = alive \ {w} /\ frame' = frame \ {w} /\ callback' = callback \ {w}
    /\ damage' = [damage EXCEPT ![w] = {}]
    /\ UNCHANGED <<backend, outputVars, powerVars, committed>>

\* A surface is destroyed, and its window with it: the assigned surfaces forget it.
SurfaceDestroyed(w) ==
    /\ w \in alive
    /\ alive' = alive \ {w} /\ frame' = frame \ {w} /\ callback' = callback \ {w}
    /\ damage' = [damage EXCEPT ![w] = {}]
    /\ assigned' = [o \in Outputs |-> assigned[o] \ {w}]
    /\ UNCHANGED <<backend, delay_timer, frame_timer, swap_pending, repaints, slept,
                   powerVars, committed>>

\* add_repaint() of outputs, for the cursor, an effect, a window that moves or goes.
AddRepaint(S) ==
    /\ S \subseteq enabled
    /\ repaints' = repaints \cup S
    /\ set_delay_timer(S, {}, swap_pending)
    /\ UNCHANGED <<backend, frame_timer, swap_pending, assigned, windowVars, powerVars,
                   committed>>

--------------------------------------------------------------------------------
(****************************************************************************)
(* The timers of an output.                                                 *)
(****************************************************************************)
Damaged(o) == {w \in alive : o \in damage[w]}
Dirty(o) == o \in repaints \/ Damaged(o) # {}

\* Seeded fault: the frame timer is stopped, and the windows that wait for it get nothing.
RunIdle_NoFrames(o) ==
    /\ o \in delay_timer /\ (o \in swap_pending \/ ~Dirty(o))
    /\ delay_timer' = delay_timer \ {o} /\ frame_timer' = frame_timer \ {o}
    /\ UNCHANGED <<backend, swap_pending, repaints, assigned, slept, windowVars, powerVars,
                   committed>>

\* run() when prepare_run() returns false: a swap is pending, or there is nothing to
\* paint and some windows may want a frame event still.
RunIdle(o) ==
    /\ o \in delay_timer /\ (o \in swap_pending \/ ~Dirty(o))
    /\ delay_timer' = delay_timer \ {o} /\ frame_timer' = frame_timer \ {o}
    /\ Frame(IF o \in swap_pending THEN {} ELSE frame \cap MainlyOn(o))
    /\ UNCHANGED <<backend, swap_pending, repaints, assigned, slept, damage, frame, alive,
                   powerVars, committed>>

\* prepare_repaint(): the other outputs that the windows to repaint here touch.
Shared(S) == (UNION {damage[w] \ S : w \in UNION {Damaged(o) : o \in S}}) \cap enabled

\* Seeded fault: a failed commit leaves the swap pending.
SwapPending_Failed(presents) == presents # "nothing"

\* swap_pending of an output after paint_output(): present() sets it; the EGL backend
\* takes it back if the commit fails.
SwapPending(presents) ==
    presents = "commit" \/ (presents = "failure" /\ backend = "qpainter")

\* How paint_output() ends: with a commit, with one that fails, which is also how EGL
\* ends if the damage is hidden and present() left out, or early, with nothing painted,
\* if QPainter has no buffer.
Outcomes == {"commit", "failure"} \cup (IF backend = "egl" THEN {} ELSE {"nothing"})

\* paint_output() of the outputs S and retard_next_run(): the windows are painted and
\* their repaints reset; effects and the post-pass ask for new ones, of any output
\* (again) and of windows (more), all before present() sets swap_pending, so that the
\* output may have its timer started beside the swap.  With QPainter the next run is
\* scheduled, OpenGL waits for its swap event.  What the painting of one output asks of
\* another that was painted before is an AddRepaint().
paint_output(S, stopped, left, presents, again, more) ==
    LET painted == {o \in S : presents[o] # "nothing"}
        asked == again \cup UNION {more[w] : w \in alive}
    IN  /\ asked \cap S \subseteq painted /\ (painted = {} => asked = {})
        /\ \A w \in alive : more[w] \subseteq Covers(w)
        /\ repaints' = left \cup again
        /\ damage' = [w \in Windows |-> (damage[w] \ painted)
                                        \cup (IF w \in alive THEN more[w] ELSE {})]
        /\ swap_pending' = swap_pending \cup {o \in S : SwapPending(presents[o])}
        /\ committed' = committed \cup {o \in S : presents[o] = "commit"}
        /\ set_delay_timer(asked \cup Shared(S) \cup (IF backend = "egl" THEN {} ELSE S),
                           stopped, swap_pending' \ (asked \cap S))

\* run() of the outputs S, which have something to paint, up to lock(), where the windows
\* mainly on the output get their callbacks and those with presentation feedback are
\* assigned to it.  The timers of the outputs in stopped are stopped, those in left keep
\* their repaints.
Paint(S, stopped, left) ==
    /\ frame_timer' = frame_timer \ stopped
    /\ \E presents \in [S -> Outcomes], again \in SUBSET enabled, more \in [alive -> SUBSET enabled] :
         paint_output(S, stopped, left, presents, again, more)
    /\ callback' = callback \ UNION {MainlyOn(o) : o \in S}
    /\ \E feedback \in SUBSET UNION {MainlyOn(o) : o \in S} :
         assigned' = [o \in Outputs |-> IF o \in S
                                         THEN assigned[o] \cup (feedback \cap MainlyOn(o))
                                         ELSE assigned[o]]
    /\ UNCHANGED <<backend, frame, alive, powerVars>>

\* run() by the delay timer, with something to paint.
RunPaints(o) ==
    /\ o \in delay_timer /\ o \notin swap_pending /\ Dirty(o)
    /\ Paint({o}, {o}, (repaints \cup Shared({o})) \ {o})

DelayTimer(o) == RunIdle(o) \/ RunPaints(o)

\* reinitialize_compositor(): everything is to be repainted, and performCompositing()
\* runs every output at once, asleep or not; one whose swap is pending returns early.
Reinitialize ==
    Paint(enabled \ swap_pending, enabled, (repaints \cup enabled) \ (enabled \ swap_pending))

\* The frame timer, which repeats: dry_run(), for every window that wants a frame event.
FrameTimer(o) ==
    /\ o \in frame_timer
    /\ Frame(frame)
    /\ UNCHANGED <<backend, outputVars, damage, frame, alive, powerVars, committed>>

--------------------------------------------------------------------------------
(****************************************************************************)
(* Events of the backend.                                                   *)
(****************************************************************************)

\* presentation::presented(): an output that is disabled keeps its surfaces.
Told(o) == IF o \in enabled THEN [assigned EXCEPT ![o] = {}] ELSE assigned

\* output_handle_present(), presented()
Present(o) ==
    /\ o \in committed
    /\ assigned' = Told(o)
    /\ UNCHANGED <<backend, delay_timer, frame_timer, swap_pending, repaints, slept,
                   windowVars, powerVars, committed>>

\* Seeded fault: the timer is not started by the frame event.
FrameEvent_NotArmed(o) ==
    /\ o \in committed
    /\ committed' = committed \ {o}
    /\ assigned' = Told(o)
    /\ swap_pending' = swap_pending \ {o}
    /\ delay_timer' = delay_timer \ {o}
    /\ UNCHANGED <<backend, frame_timer, repaints, slept, windowVars, powerVars>>

\* output_handle_frame(), frame(): the swap is over, and the next run is scheduled
\* whether or not there is something to paint.
FrameEvent(o) ==
    /\ o \in committed
    /\ committed' = committed \ {o}
    /\ assigned' = Told(o)
    /\ IF o \in swap_pending
         THEN /\ swap_pending' = swap_pending \ {o}
              /\ set_delay_timer({o}, {o}, swap_pending \ {o})
         ELSE UNCHANGED <<swap_pending, delay_timer, slept>>
    /\ UNCHANGED <<backend, frame_timer, repaints, windowVars, powerVars>>

\* frame() for a commit that was not a swap, of the gamma ramp or of DPMS.
OtherFrameEvent(o) ==
    /\ o \notin committed \cup swap_pending /\ assigned[o] # {}
    /\ assigned' = Told(o)
    /\ UNCHANGED <<backend, delay_timer, frame_timer, swap_pending, repaints, slept,
                   windowVars, powerVars, committed>>

--------------------------------------------------------------------------------
(****************************************************************************)
(* Power, session and configuration.                                        *)
(****************************************************************************)

\* update_dpms(): the render output is disabled, its timers stop.
DpmsOff(o) ==
    /\ o \in dpms /\ o \in enabled
    /\ dpms' = dpms \ {o}
    /\ delay_timer' = delay_timer \ {o} /\ frame_timer' = frame_timer \ {o}
    /\ slept' = slept \cup {o}
    /\ UNCHANGED <<backend, swap_pending, repaints, assigned, windowVars, active, enabled,
                   committed>>

\* update_dpms(), output_set_dpms_on()
DpmsOn(o) ==
    /\ o \in enabled \ dpms
    /\ dpms' = dpms \cup {o}
    /\ UNCHANGED <<backend, outputVars, windowVars, active, enabled, committed>>

\* The session is switched away; nothing of the render loop listens to it.
SessionSwitched ==
    /\ active' = ~active
    /\ slept' = IF active THEN Outputs ELSE slept
    /\ UNCHANGED <<backend, delay_timer, frame_timer, swap_pending, repaints, assigned,
                   windowVars, enabled, dpms, committed>>

\* Seeded fault: windows keep the outputs that are disabled.
KeptRepaints_All(S) == damage

\* The handler of output_removed in platform::start().
KeptRepaints(S) == [w \in Windows |-> damage[w] \cap S]

\* outputs_apply_config(): the outputs of the configuration are enabled and reset, which
\* repaints them; the others are disabled and taken from the windows' repaints.
ApplyConfig(S) ==
    /\ S # enabled /\ enabled' = S
    /\ frame_timer' = frame_timer \cap S
    /\ repaints' = repaints \cup S
    /\ damage' = KeptRepaints(S)
    /\ LET running == delay_timer \cap S
           started == {o \in S : o \notin running \cup swap_pending /\ ~Asleep(o)}
       IN  /\ delay_timer' = running \cup started
           /\ slept' = (slept \cup (Outputs \ S)) \ started
    /\ UNCHANGED <<backend, swap_pending, assigned, frame, callback, alive, active, dpms,
                   committed>>

--------------------------------------------------------------------------------
Environment ==
    \/ \E w \in Windows : CommitDamage(w) \/ CommitFrame(w) \/ CommitOther(w)
                          \/ SurfaceDestroyed(w)
    \/ \E o \in Outputs : AddRepaint({o}) \/ DpmsOff(o) \/ DpmsOn(o) \/ OtherFrameEvent(o)
    \/ SessionSwitched \/ Reinitialize
    \/ \E S \in SUBSET Outputs : ApplyConfig(S)

Next ==
    \/ Environment
    \/ \E o \in Outputs : DelayTimer(o) \/ FrameTimer(o) \/ Present(o) \/ FrameEvent(o)

Spec == Init /\ [][Next]_vars

\* The event loop runs: a timer that was started fires, and a swap is answered by a
\* frame event.
FairSpec ==
    /\ Spec
    /\ \A o \in Outputs : /\ WF_vars(DelayTimer(o)) /\ WF_vars(FrameTimer(o))
                          /\ WF_vars(FrameEvent(o))

--------------------------------------------------------------------------------
\* An output that is on and has something to paint is driven: its delay timer runs or
\* its swap is pending.  The exception is an output that slept (DPMS off, session
\* switched away, disabled) and was asked for nothing since.
NoStall ==
    \A o \in enabled :
        Dirty(o) /\ ~Asleep(o) => o \in delay_timer \cup swap_pending \cup slept

\* A frame event that answers a commit finds swap_pending set, whatever timers ran and
\* repaints were asked for since the output was painted.  With EGL an output waits for
\* its swap only while such an event is still to come, whatever commits failed before.
SwapIsUnderWay ==
    /\ committed \subseteq swap_pending
    /\ backend = "egl" => swap_pending \subseteq committed

\* Presentation feedback is only given to surfaces that are there: assigned_surfaces
\* holds pointers.
FeedbackToLive == \A o \in Outputs : assigned[o] \subseteq alive

\* repaint_outputs holds pointers, too: to outputs that are enabled, which the window
\* is on.
RepaintsOnOutputs == \A w \in Windows : damage[w] \subseteq enabled \cap Covers(w)

\* A client that waits for the frame callback of its last commit gets it, unless an
\* output the window is on is disabled or sleeps, or has slept.
FramesArrive ==
    \A w \in Windows :
        w \in callback \cap frame
          ~> \/ w \notin callback \cap frame
             \/ ~(Covers(w) \subseteq enabled \ slept)
             \/ backend = "qpainter"

--------------------------------------------------------------------------------
(****************************************************************************)
(* Expectations that the code does not meet.                                *)
(****************************************************************************)

\* "assert(max_coverage_output(win) == &output->base)": frame events of a window come
\* from the output it is mainly on.  dry_run() takes the windows of all outputs.
FramesFromOwnOutput == \A o \in frame_timer : frame \subseteq MainlyOn(o)

\* "Abort since we will composite when the timer runs out or the timer will only get
\* started at buffer swap": what is asked of an output is never left without either.
\* An output that is switched on again, or whose session returns, is not driven.
DrivenWhenAwake ==
    \A o \in enabled : Dirty(o) /\ ~Asleep(o) => o \in delay_timer \cup swap_pending

\* A swap that is pending is under way with QPainter as well.  Its present() leaves
\* swap_pending set if the commit fails, and the output is never painted again.
QPainterSwapIsUnderWay == swap_pending \subseteq committed

\* An output that is disabled is not painted.  The frame event of a swap that was
\* under way starts its delay timer again.
DisabledNotPainted ==
    [][\A o \in Outputs \ enabled : o \in repaints => o \in repaints']_vars

================================================================================
